------------------------- MODULE MachineNodesProofs -------------------------
(***************************************************************************)
(* Theorems about MachineNodes for any nodes, runs and rediscoveries under *)
(* way at a time: the types are right, no service runs unseen, no event    *)
(* goes to a service that is over, and no wake-up is lost.                 *)
(***************************************************************************)
EXTENDS MachineNodes, TLAPS

-----------------------------------------------------------------------------
(* Types *)

LEMMA NoneIsNoRun == None \notin Runs
BY DEF None, Runs

LEMMA TypeInit == Init => TypeOK
<1> SUFFICES ASSUME Init PROVE TypeOK
    OBVIOUS
<1>1. /\ MaxMoves \in Nat /\ MaxVersion \in Nat /\ MaxFailures \in Nat
      /\ 0 \in Versions
    BY MachineNodesAssumption DEF Versions
<1>2. /\ Reading \in Reader /\ Reading.pc = "read" /\ Empty \in Mailbox
      /\ [n \in Nodes |-> None] \in [Nodes -> Runs \cup {None}]
    BY <1>1 DEF Reading, Reader, Empty, Mailbox
<1>3. /\ Idle \in Round
      /\ [Idle EXCEPT !.pc = "start", !.adding = wanted] \in Round
    BY DEF Init, Idle, Round
<1>4. ASSUME NEW k \in Rounds
      PROVE  /\ round[k] \in Round /\ round[k].run = None
             /\ round[k].pc \in {"idle", "start"}
    BY <1>3 DEF Init, Idle
<1>5. round \in [Rounds -> Round]
    BY <1>3 DEF Init
<1>6. of \in [Runs -> Nodes] /\ service \in [Runs -> Phases] /\ config \in [Runs -> Versions]
    BY <1>1 DEF Init, Phases
<1>7. wire \in Seq(Nodes \X Versions)
    BY DEF Init
<1> QED
    BY <1>1, <1>2, <1>4, <1>5, <1>6, <1>7 DEF Init, TypeOK

\* A rediscovery that has a run in hand only where it stops or starts one.
LEMMA RoundType ==
    ASSUME TypeOK, NEW k \in Rounds, NEW new \in Round,
           round' = [round EXCEPT ![k] = new],
           new.run # None <=> new.pc \in {"cancel", "wait", "map", "spawn"}
    PROVE  /\ round' \in [Rounds -> Round]
           /\ \A j \in Rounds :
                  round'[j].run # None <=> round'[j].pc \in {"cancel", "wait", "map", "spawn"}
BY DEF TypeOK

\* The panel.
LEMMA TypePanel ==
    ASSUME TypeOK, NEW n \in Nodes, Move(n) \/ Configure(n)
    PROVE  TypeOK'
<1> USE MachineNodesAssumption
<1>1. CASE Move(n)
    <2>1. moves' \in 0 .. MaxMoves /\ wanted' \subseteq Nodes
        BY <1>1 DEF Move, TypeOK
    <2>2. /\ round' \in [Rounds -> Round]
          /\ \A j \in Rounds :
                 round'[j].run # None <=> round'[j].pc \in {"cancel", "wait", "map", "spawn"}
        <3>1. CASE UNCHANGED round
            BY <3>1 DEF TypeOK
        <3>2. ASSUME NEW k \in Extra, round[k].pc = "idle",
                     round' = [round EXCEPT ![k].pc = "list"]
              PROVE  /\ round' \in [Rounds -> Round]
                     /\ \A j \in Rounds :
                            round'[j].run # None <=>
                            round'[j].pc \in {"cancel", "wait", "map", "spawn"}
            <4>1. k \in Rounds /\ round[k] \in Round /\ round[k].run = None
                BY <3>2 DEF TypeOK, Rounds
            <4>2. [round[k] EXCEPT !.pc = "list"] \in Round
                BY <4>1 DEF Round
            <4> QED
                BY <3>2, <4>1, <4>2, RoundType DEF Round
        <3> QED
            BY <1>1, <3>1, <3>2 DEF Move
    <2> QED
        BY <1>1, <2>1, <2>2 DEF Move, TypeOK, socket, routes, runs
<1>2. CASE Configure(n)
    <2>1. version' \in [Nodes -> Versions] /\ version'[n] \in Versions
        BY <1>2 DEF Configure, TypeOK, Versions
    <2>2. wire' \in Seq(Nodes \X Versions)
        BY <1>2, <2>1 DEF Configure, TypeOK
    <2> QED
        BY <1>2, <2>1, <2>2 DEF Configure, TypeOK, routes, runs
<1> QED
    BY <1>1, <1>2

\* The rediscoveries.
LEMMA TypeRound ==
    ASSUME TypeOK, NEW k \in Rounds, RoundStep(k) \/ ListFails(k)
    PROVE  TypeOK'
<1> USE MachineNodesAssumption
<1>1. /\ round[k] \in Round
      /\ round[k].run # None <=> round[k].pc \in {"cancel", "wait", "map", "spawn"}
      /\ round[k].run \in Runs \cup {None} /\ round[k].listed \in SUBSET Nodes
      /\ round[k].removing \in SUBSET Nodes /\ round[k].adding \in SUBSET Nodes
    BY DEF TypeOK, Round
<1>2. /\ nodes \in [Nodes -> Runs \cup {None}] /\ mailboxes \in [Nodes -> Runs \cup {None}]
      /\ statuses \in [Nodes -> Runs \cup {None}] /\ of \in [Runs -> Nodes]
      /\ service \in [Runs -> Phases] /\ round \in [Rounds -> Round]
    BY DEF TypeOK
<1>3. ASSUME UNCHANGED <<panel, socket, nodes, routes, runs>>,
             failures' \in 0 .. MaxFailures, NEW new \in Round,
             round' = [round EXCEPT ![k] = new],
             new.run # None <=> new.pc \in {"cancel", "wait", "map", "spawn"}
      PROVE  TypeOK'
    BY <1>3, RoundType DEF TypeOK, panel, socket, routes, runs
<1>4. CASE List(k)
    <2>1. [round[k] EXCEPT !.pc = "plan", !.listed = wanted] \in Round
        BY <1>1 DEF TypeOK, Round
    <2> QED
        BY <1>1, <1>2, <1>3, <1>4, <2>1 DEF List, TypeOK, Round
<1>5. CASE ListFails(k)
    <2>1. Idle \in Round /\ Idle.run = None /\ Idle.pc = "idle"
        BY DEF Idle, Round
    <2>2. failures' \in 0 .. MaxFailures
        BY <1>5 DEF ListFails, Fail, TypeOK
    <2> QED
        BY <1>3, <1>5, <2>1, <2>2 DEF ListFails
<1>6. CASE Plan(k)
    <2> DEFINE removing == {n \in Nodes : nodes[n] # None} \ round[k].listed
               new == [round[k] EXCEPT !.pc = "stop", !.removing = removing,
                                       !.adding = round[k].listed]
    <2>1. round' = [round EXCEPT ![k] = new] /\ UNCHANGED <<panel, socket, nodes, routes, runs>>
        BY <1>2, <1>6 DEF Plan
    <2>2. new \in Round /\ new.run = round[k].run /\ new.pc = "stop"
        BY <1>1 DEF Round
    <2>3. round[k].run = None /\ failures' \in 0 .. MaxFailures
        BY <1>1, <1>6 DEF Plan, TypeOK
    <2> HIDE DEF new
    <2> QED
        BY <1>3, <2>1, <2>2, <2>3
<1>7. ASSUME NEW n \in Nodes, Unlist(k, n) PROVE TypeOK'
    <2> DEFINE new == [round[k] EXCEPT !.removing = @ \ {n}, !.run = nodes[n],
                              !.pc = IF nodes[n] = None THEN "stop" ELSE "cancel"]
    <2>1. round' = [round EXCEPT ![k] = new]
        BY <1>2, <1>7 DEF Unlist
    <2>2. /\ new \in Round /\ new.run = nodes[n]
          /\ new.pc = IF nodes[n] = None THEN "stop" ELSE "cancel"
        BY <1>1, <1>2 DEF Round
    <2> HIDE DEF new
    <2>3. nodes' \in [Nodes -> Runs \cup {None}]
        BY <1>2, <1>7 DEF Unlist
    <2>4. /\ UNCHANGED <<panel, socket, routes, runs, failures>>
        BY <1>7 DEF Unlist
    <2> QED
        BY <2>1, <2>2, <2>3, <2>4, RoundType DEF TypeOK, panel, socket, routes, runs
<1>8. CASE Cancel(k)
    <2>1. [round[k] EXCEPT !.pc = "wait"] \in Round /\ round[k].run \in Runs
        BY <1>1, <1>8 DEF Cancel, Round
    <2>2. mailboxes' \in [Nodes -> Runs \cup {None}] /\ cancelled' \subseteq Runs
        BY <1>2, <1>8, <2>1 DEF Cancel, TypeOK
    <2>3. round' = [round EXCEPT ![k] = [round[k] EXCEPT !.pc = "wait"]]
        BY <1>2, <1>8 DEF Cancel
    <2>4. /\ round' \in [Rounds -> Round]
          /\ \A j \in Rounds :
                 round'[j].run # None <=> round'[j].pc \in {"cancel", "wait", "map", "spawn"}
        BY <1>1, <1>8, <2>1, <2>3, RoundType DEF Cancel, Round
    <2> QED
        BY <1>8, <2>2, <2>4 DEF Cancel, TypeOK, panel, socket
<1>9. CASE Wait(k)
    <2>1. [round[k] EXCEPT !.pc = "stop", !.run = None] \in Round
        BY <1>1 DEF Round
    <2> QED
        BY <1>1, <1>2, <1>3, <1>9, <2>1 DEF Wait, TypeOK, Round
<1>10. CASE EndStops(k)
    <2>1. [round[k] EXCEPT !.pc = "start"] \in Round
        BY <1>1 DEF Round
    <2> QED
        BY <1>1, <1>2, <1>3, <1>10, <2>1 DEF EndStops, TypeOK, Round
<1>11. ASSUME NEW n \in Nodes, Enlist(k, n) PROVE TypeOK'
    <2>1. CASE /\ round' = [round EXCEPT ![k].adding = @ \ {n}]
               /\ UNCHANGED <<nodes, runs>>
        <3>1. [round[k] EXCEPT !.adding = @ \ {n}] \in Round
            BY <1>1 DEF Round
        <3> QED
            BY <1>1, <1>2, <1>3, <1>11, <2>1, <3>1 DEF Enlist, TypeOK, Round
    <2>2. ASSUME NEW r \in Unused, nodes' = [nodes EXCEPT ![n] = r], Make(r, n),
                 round' = [round EXCEPT ![k].adding = @ \ {n}, ![k].run = r, ![k].pc = "map"]
          PROVE  TypeOK'
        <3> DEFINE new == [round[k] EXCEPT !.adding = @ \ {n}, !.run = r, !.pc = "map"]
        <3>1. r \in Runs /\ r # None
            BY NoneIsNoRun DEF Unused
        <3>2. new \in Round /\ new.run = r /\ new.pc = "map"
            BY <1>1, <3>1 DEF Round
        <3>3. round' = [round EXCEPT ![k] = new]
            BY <1>2, <2>2
        <3> HIDE DEF new
        <3>4. nodes' \in [Nodes -> Runs \cup {None}]
            BY <1>2, <2>2, <3>1
        <3>5. /\ of' \in [Runs -> Nodes] /\ service' \in [Runs -> Phases]
              /\ cancelled' \subseteq Runs /\ config' \in [Runs -> Versions]
              /\ mailbox' \in [Runs -> Mailbox]
            BY <2>2, <3>1 DEF Make, TypeOK, Phases, Versions, Mailbox, Empty
        <3>6. UNCHANGED <<panel, socket, routes, failures>>
            BY <1>11 DEF Enlist
        <3> QED
            BY <3>1, <3>2, <3>3, <3>4, <3>5, <3>6, RoundType DEF TypeOK, panel, socket, routes
    <2> QED
        BY <1>11, <2>1, <2>2 DEF Enlist
<1>12. CASE Map(k)
    <2>1. [round[k] EXCEPT !.pc = "spawn"] \in Round /\ round[k].run \in Runs
        BY <1>1, <1>12 DEF Map, Round
    <2>2. mailboxes' \in [Nodes -> Runs \cup {None}]
        BY <1>2, <1>12, <2>1 DEF Map
    <2>3. round' = [round EXCEPT ![k] = [round[k] EXCEPT !.pc = "spawn"]]
        BY <1>2, <1>12 DEF Map
    <2>4. /\ round' \in [Rounds -> Round]
          /\ \A j \in Rounds :
                 round'[j].run # None <=> round'[j].pc \in {"cancel", "wait", "map", "spawn"}
        BY <1>1, <1>12, <2>1, <2>3, RoundType DEF Map, Round
    <2> QED
        BY <1>12, <2>2, <2>4 DEF Map, TypeOK, panel, socket, runs
<1>13. CASE Spawn(k)
    <2>1. [round[k] EXCEPT !.pc = "start", !.run = None] \in Round
        BY <1>1 DEF Round
    <2>2. service' \in [Runs -> Phases]
        BY <1>2, <1>13 DEF Spawn, Phases
    <2>3. round' = [round EXCEPT ![k] = [round[k] EXCEPT !.pc = "start", !.run = None]]
        BY <1>2, <1>13 DEF Spawn
    <2>4. /\ round' \in [Rounds -> Round]
          /\ \A j \in Rounds :
                 round'[j].run # None <=> round'[j].pc \in {"cancel", "wait", "map", "spawn"}
        BY <1>1, <2>1, <2>3, RoundType DEF Round
    <2> QED
        BY <1>13, <2>2, <2>4 DEF Spawn, TypeOK, panel, socket, routes
<1>14. CASE EndStarts(k)
    <2>1. Idle \in Round /\ Idle.run = None /\ Idle.pc = "idle"
        BY DEF Idle, Round
    <2> QED
        BY <1>3, <1>14, <2>1 DEF EndStarts, TypeOK
<1> QED
    BY <1>4, <1>5, <1>6, <1>7, <1>8, <1>9, <1>10, <1>11, <1>12, <1>13, <1>14 DEF RoundStep

\* The services.
LEMMA TypeService ==
    ASSUME TypeOK, NEW r \in Runs, ServiceStep(r) \/ Wake(r) \/ SetupFails(r)
    PROVE  TypeOK'
<1> USE MachineNodesAssumption
<1>1. /\ service \in [Runs -> Phases] /\ of[r] \in Nodes /\ config[r] \in Versions
      /\ mailbox \in [Runs -> Mailbox] /\ mailbox[r] \in Mailbox
      /\ mailbox[r].config \in Versions
    BY DEF TypeOK, Mailbox
<1>2. CASE Fetch(r)
    BY <1>1, <1>2 DEF Fetch, Goto, TypeOK, Phases, panel, socket, routes
<1>3. CASE Register(r)
    BY <1>1, <1>3 DEF Register, Goto, TypeOK, Phases, panel, socket
<1>4. CASE BeReady(r)
    <2>1. mailbox' \in [Runs -> Mailbox]
        BY <1>1, <1>4 DEF BeReady, Mailbox
    <2> QED
        BY <1>1, <1>4, <2>1 DEF BeReady, Goto, TypeOK, Phases, panel, socket, routes
<1>5. CASE SetupFails(r)
    BY <1>1, <1>5 DEF SetupFails, Fail, Goto, TypeOK, Phases, panel, socket, routes
<1>6. CASE Wake(r)
    <2>1. mailbox' \in [Runs -> Mailbox]
        BY <1>1, <1>6 DEF Wake, Mailbox
    <2> QED
        BY <1>1, <1>6, <2>1 DEF Wake, Goto, TypeOK, Phases, panel, socket, routes
<1>7. CASE Drain(r)
    <2>1. mailbox' \in [Runs -> Mailbox]
        BY <1>1, <1>7 DEF Drain, Mailbox
    <2> QED
        BY <1>1, <1>7, <2>1 DEF Drain, Goto, TypeOK, Phases, panel, socket, routes
<1>8. CASE End(r)
    BY <1>1, <1>8 DEF End, Goto, TypeOK, Phases, panel, socket, routes
<1>9. CASE Unregister(r)
    BY <1>1, <1>9 DEF Unregister, Goto, TypeOK, Phases, panel, socket
<1> QED
    BY <1>2, <1>3, <1>4, <1>5, <1>6, <1>7, <1>8, <1>9 DEF ServiceStep

\* The goroutine that reads the events.
LEMMA TypeReader ==
    ASSUME TypeOK, ReaderStep
    PROVE  TypeOK'
<1>1. CASE Route
    <2>1. wire' \in Seq(Nodes \X Versions) /\ Head(wire) \in Nodes \X Versions
        BY <1>1 DEF Route, TypeOK
    <2>2. /\ Head(wire)[1] \in Nodes /\ Head(wire)[2] \in Versions
          /\ mailboxes[Head(wire)[1]] \in Runs \cup {None}
        BY <2>1 DEF TypeOK
    <2>3. reader' \in Reader /\ (reader'.pc # "read" => reader'.run # None)
        BY <1>1, <2>2 DEF Route, TypeOK, Reader
    <2> QED
        BY <1>1, <2>1, <2>3 DEF Route, TypeOK, panel, routes, runs
<1>2. CASE ApplyEvent
    <2>1. reader \in Reader /\ reader.run \in Runs /\ reader.config \in Versions
        BY <1>2 DEF ApplyEvent, TypeOK, Reader
    <2>2. mailbox' \in [Runs -> Mailbox]
        BY <1>2, <2>1 DEF ApplyEvent, TypeOK, Mailbox
    <2>3. reader' \in Reader /\ reader'.run = reader.run
        BY <1>2, <2>1 DEF ApplyEvent, Reader
    <2> QED
        BY <1>2, <2>1, <2>2, <2>3, NoneIsNoRun DEF ApplyEvent, TypeOK, panel, routes
<1>3. CASE Notify
    <2>1. reader \in Reader /\ reader.run \in Runs
        BY <1>3 DEF Notify, TypeOK, Reader
    <2>2. mailbox' \in [Runs -> Mailbox]
        BY <1>3, <2>1 DEF Notify, TypeOK, Mailbox
    <2>3. reader' \in Reader /\ reader'.pc = "read"
        BY <1>3, MachineNodesAssumption DEF Notify, Reading, Reader, Versions
    <2> QED
        BY <1>3, <2>2, <2>3 DEF Notify, TypeOK, panel, routes
<1> QED
    BY <1>1, <1>2, <1>3 DEF ReaderStep

LEMMA TypeStep == TypeOK /\ [Next]_vars => TypeOK'
<1> SUFFICES ASSUME TypeOK, [Next]_vars PROVE TypeOK'
    OBVIOUS
<1>1. CASE Tick
    <2>1. Main \in Rounds /\ round[Main] \in Round /\ round[Main].run = None
        BY <1>1 DEF Tick, TypeOK, Rounds
    <2>2. [round[Main] EXCEPT !.pc = "list"] \in Round
        BY <2>1 DEF Round
    <2>3. /\ round' \in [Rounds -> Round]
          /\ \A j \in Rounds :
                 round'[j].run # None <=> round'[j].pc \in {"cancel", "wait", "map", "spawn"}
        BY <1>1, <2>1, <2>2, RoundType DEF Tick, TypeOK, Round
    <2> QED
        BY <1>1, <2>3 DEF Tick, TypeOK, panel, socket, routes, runs
<1>2. CASE UNCHANGED vars
    BY <1>2 DEF vars, panel, socket, routes, runs, TypeOK
<1> QED
    BY <1>1, <1>2, TypePanel, TypeRound, TypeService, TypeReader DEF Next

\* Every variable keeps its type: a rediscovery has a run in hand exactly where
\* it stops or starts one, and the reader one where it has an event to deliver.
THEOREM TypeCorrect == Spec => []TypeOK
BY TypeInit, TypeStep, PTL DEF Spec

-----------------------------------------------------------------------------
(* The steps of a rediscovery that put a run to use *)

Starting(k) == round[k].pc \in {"map", "spawn"}

\* A run for a handle is one that nothing refers to.
LEMMA EnlistRun ==
    ASSUME TypeOK, NEW k \in Rounds, NEW n \in Nodes, Enlist(k, n)
    PROVE  /\ round[k].pc = "start" /\ UNCHANGED <<mailboxes, reader>>
           /\ \/ /\ UNCHANGED <<nodes, of, service, cancelled, mailbox>>
                 /\ \E new \in Round : /\ round' = [round EXCEPT ![k] = new]
                                       /\ new.pc = "start"
              \/ /\ nodes[n] = None
                 /\ \E r \in Unused, new \in Round :
                        /\ r \in Runs /\ nodes' = [nodes EXCEPT ![n] = r] /\ Make(r, n)
                        /\ round' = [round EXCEPT ![k] = new]
                        /\ new.run = r /\ new.pc = "map"
<1>1. /\ round[k] \in Round /\ round \in [Rounds -> Round]
      /\ round[k].run \in Runs \cup {None}
      /\ round[k].listed \in SUBSET Nodes /\ round[k].removing \in SUBSET Nodes
      /\ round[k].adding \in SUBSET Nodes
    BY DEF TypeOK, Round
<1>2. round[k].pc = "start" /\ UNCHANGED <<mailboxes, reader>>
    BY DEF Enlist, socket, routes
<1>3. CASE /\ round' = [round EXCEPT ![k].adding = @ \ {n}]
           /\ UNCHANGED <<nodes, runs>>
    <2>1. [round[k] EXCEPT !.adding = @ \ {n}] \in Round
        BY <1>1 DEF Round
    <2>2. round' = [round EXCEPT ![k] = [round[k] EXCEPT !.adding = @ \ {n}]]
        BY <1>1, <1>3
    <2>3. [round[k] EXCEPT !.adding = @ \ {n}].pc = "start"
        BY <1>1, <1>2 DEF Round
    <2> QED
        BY <1>2, <1>3, <2>1, <2>2, <2>3 DEF runs
<1>4. ASSUME NEW r \in Unused, nodes[n] = None, nodes' = [nodes EXCEPT ![n] = r], Make(r, n),
             round' = [round EXCEPT ![k].adding = @ \ {n}, ![k].run = r, ![k].pc = "map"]
      PROVE  \E new \in Round : /\ r \in Runs /\ round' = [round EXCEPT ![k] = new]
                                /\ new.run = r /\ new.pc = "map"
    <2> DEFINE new == [round[k] EXCEPT !.adding = @ \ {n}, !.run = r, !.pc = "map"]
    <2>1. r \in Runs
        BY DEF Unused
    <2>2. new \in Round /\ new.run = r /\ new.pc = "map"
        BY <1>1, <2>1 DEF Round
    <2>3. round' = [round EXCEPT ![k] = new]
        BY <1>1, <1>4
    <2> HIDE DEF new
    <2> QED
        BY <2>1, <2>2, <2>3
<1> QED
    BY <1>2, <1>3, <1>4 DEF Enlist

\* What a step of a rediscovery that neither stops nor starts a run leaves alone.
LEMMA QuietRound ==
    ASSUME TypeOK, NEW k \in Rounds,
           \/ List(k) \/ ListFails(k) \/ Plan(k) \/ Wait(k) \/ EndStops(k) \/ EndStarts(k)
    PROVE  /\ UNCHANGED <<nodes, mailboxes, of, service, cancelled, mailbox, reader>>
           /\ round[k].pc # "cancel"
           /\ \E new \in Round : /\ round' = [round EXCEPT ![k] = new]
                                 /\ new.pc \notin {"map", "spawn"}
<1>1. /\ round[k] \in Round /\ round \in [Rounds -> Round]
      /\ round[k].listed \in SUBSET Nodes /\ round[k].removing \in SUBSET Nodes
      /\ round[k].adding \in SUBSET Nodes /\ wanted \in SUBSET Nodes
    BY DEF TypeOK, Round
<1>2. /\ UNCHANGED <<nodes, mailboxes, of, service, cancelled, mailbox, reader>>
      /\ round[k].pc # "cancel"
    BY DEF List, ListFails, Plan, Wait, EndStops, EndStarts, socket, routes, runs
<1>3. CASE List(k)
    <2>1. [round[k] EXCEPT !.pc = "plan", !.listed = wanted] \in Round
        BY <1>1 DEF Round
    <2> QED
        BY <1>1, <1>2, <1>3, <2>1 DEF List, Round
<1>4. CASE ListFails(k) \/ EndStarts(k)
    <2>1. Idle \in Round /\ Idle.pc = "idle"
        BY DEF Idle, Round
    <2>2. round' = [round EXCEPT ![k] = Idle]
        BY <1>4 DEF ListFails, EndStarts
    <2> QED
        BY <1>2, <2>1, <2>2
<1>5. CASE Plan(k)
    <2> DEFINE removing == {n \in Nodes : nodes[n] # None} \ round[k].listed
               new == [round[k] EXCEPT !.pc = "stop", !.removing = removing,
                                       !.adding = round[k].listed]
    <2>1. round' = [round EXCEPT ![k] = new]
        BY <1>1, <1>5 DEF Plan
    <2>2. new \in Round /\ new.pc = "stop"
        BY <1>1 DEF Round
    <2> HIDE DEF new
    <2> QED
        BY <1>2, <2>1, <2>2
<1>6. CASE Wait(k)
    <2>1. [round[k] EXCEPT !.pc = "stop", !.run = None] \in Round
        BY <1>1 DEF Round
    <2> QED
        BY <1>1, <1>2, <1>6, <2>1 DEF Wait, Round
<1>7. CASE EndStops(k)
    <2>1. [round[k] EXCEPT !.pc = "start"] \in Round
        BY <1>1 DEF Round
    <2> QED
        BY <1>1, <1>2, <1>7, <2>1 DEF EndStops, Round
<1> QED
    BY <1>3, <1>4, <1>5, <1>6, <1>7

\* ... and what a tick or the panel leaves alone.
LEMMA QuietPanel ==
    ASSUME TypeOK, Tick \/ \E n \in Nodes : Move(n) \/ Configure(n)
    PROVE  /\ UNCHANGED <<nodes, mailboxes, of, service, cancelled, mailbox, reader>>
           /\ \/ UNCHANGED round
              \/ \E k \in Rounds : \E new \in Round :
                     /\ round[k].pc = "idle"
                     /\ round' = [round EXCEPT ![k] = new] /\ new.pc = "list"
<1>1. UNCHANGED <<nodes, mailboxes, of, service, cancelled, mailbox, reader>>
    BY DEF Tick, Move, Configure, socket, routes, runs
<1>2. \/ UNCHANGED round
      \/ \E k \in Rounds : round[k].pc = "idle" /\ round' = [round EXCEPT ![k].pc = "list"]
    BY DEF Tick, Move, Configure, Rounds
<1>3. ASSUME NEW k \in Rounds, round' = [round EXCEPT ![k].pc = "list"]
      PROVE  \E new \in Round : round' = [round EXCEPT ![k] = new] /\ new.pc = "list"
    <2>1. round[k] \in Round /\ round \in [Rounds -> Round]
        BY DEF TypeOK
    <2>2. [round[k] EXCEPT !.pc = "list"] \in Round
        BY <2>1 DEF Round
    <2> QED
        BY <1>3, <2>1, <2>2 DEF Round
<1> QED
    BY <1>1, <1>2, <1>3

-----------------------------------------------------------------------------
(* Wake-ups *)

Rung(r) ==
    service[r] = "running" /\ mailbox[r].dirty =>
        mailbox[r].bell \/ (reader.run = r /\ reader.pc = "notify")

RingInv == TypeOK /\ \A r \in Runs : Rung(r)

\* A step that does nothing to a run, or takes it out of its main loop.
LEMMA RungStays ==
    ASSUME NEW r \in Runs, Rung(r),
           \/ service'[r] # "running"
           \/ service'[r] = service[r] /\ mailbox'[r] = mailbox[r] /\ reader' = reader
    PROVE  Rung(r)'
BY DEF Rung

LEMMA RingStep == RingInv /\ TypeOK' /\ [Next]_vars => RingInv'
<1> SUFFICES ASSUME RingInv, TypeOK', [Next]_vars, NEW r \in Runs PROVE Rung(r)'
    BY DEF RingInv
<1>1. /\ TypeOK /\ Rung(r)
      /\ service \in [Runs -> Phases] /\ mailbox \in [Runs -> Mailbox]
      /\ mailbox[r] \in Mailbox
    BY DEF RingInv, TypeOK
<1>2. CASE Tick \/ \E n \in Nodes : Move(n) \/ Configure(n)
    BY <1>1, <1>2, QuietPanel, RungStays
<1>3. ASSUME NEW k \in Rounds, RoundStep(k) \/ ListFails(k) PROVE Rung(r)'
    <2>1. CASE \/ List(k) \/ ListFails(k) \/ Plan(k) \/ Wait(k) \/ EndStops(k) \/ EndStarts(k)
        BY <1>1, <2>1, QuietRound, RungStays
    <2>2. CASE (\E n \in Nodes : Unlist(k, n)) \/ Cancel(k) \/ Map(k)
        BY <1>1, <2>2, RungStays DEF Unlist, Cancel, Map, socket, runs
    <2>3. CASE Spawn(k)
        BY <1>1, <2>3, RungStays DEF Spawn, socket
    <2>4. ASSUME NEW n \in Nodes, Enlist(k, n) PROVE Rung(r)'
        <3>1. \/ service'[r] # "running"
              \/ service'[r] = service[r] /\ mailbox'[r] = mailbox[r] /\ reader' = reader
            BY <1>1, <2>4, EnlistRun DEF Make
        <3> QED
            BY <1>1, <3>1, RungStays
    <2> QED
        BY <1>3, <2>1, <2>2, <2>3, <2>4 DEF RoundStep
<1>4. ASSUME NEW s \in Runs, ServiceStep(s) \/ Wake(s) \/ SetupFails(s) PROVE Rung(r)'
    <2>1. CASE Fetch(s) \/ Register(s) \/ End(s) \/ Unregister(s) \/ SetupFails(s)
        <3>1. reader' = reader /\ mailbox' = mailbox
            BY <2>1 DEF Fetch, Register, End, Unregister, SetupFails, socket
        <3>2. service'[r] = service[r] \/ service'[r] # "running"
            BY <1>1, <2>1 DEF Fetch, Register, End, Unregister, SetupFails, Goto
        <3> QED
            BY <1>1, <3>1, <3>2, RungStays
    <2>2. CASE BeReady(s) \/ Wake(s)
        <3>1. \/ service'[r] # "running"
              \/ service'[r] = service[r] /\ mailbox'[r] = mailbox[r] /\ reader' = reader
            BY <1>1, <2>2 DEF BeReady, Wake, Goto, socket
        <3> QED
            BY <1>1, <3>1, RungStays
    <2>3. CASE Drain(s)
        <3>1. CASE r = s
            <4>1. ~mailbox'[r].dirty
                BY <1>1, <2>3, <3>1 DEF Drain, Mailbox
            <4> QED
                BY <4>1 DEF Rung
        <3>2. CASE r # s
            BY <1>1, <2>3, <3>2, RungStays DEF Drain, Goto, socket
        <3> QED
            BY <3>1, <3>2
    <2> QED
        BY <1>4, <2>1, <2>2, <2>3 DEF ServiceStep
<1>5. CASE ReaderStep
    <2>1. reader \in Reader /\ service' = service
        BY <1>5 DEF ReaderStep, Route, ApplyEvent, Notify, runs, RingInv, TypeOK
    <2>2. CASE Route
        <3>1. reader.pc = "read" /\ mailbox' = mailbox
            BY <2>2 DEF Route, runs
        <3> QED
            BY <1>1, <2>1, <3>1 DEF Rung
    <2>3. CASE ApplyEvent
        <3>1. reader.pc = "apply" /\ reader'.pc = "notify" /\ reader'.run = reader.run
            BY <2>1, <2>3 DEF ApplyEvent, Reader
        <3>2. r # reader.run => mailbox'[r] = mailbox[r]
            BY <1>1, <2>3 DEF ApplyEvent
        <3> QED
            BY <1>1, <2>1, <3>1, <3>2 DEF Rung
    <2>4. CASE Notify
        <3>1. r = reader.run => mailbox'[r].bell
            BY <1>1, <2>4 DEF Notify, Mailbox
        <3>2. r # reader.run => mailbox'[r] = mailbox[r]
            BY <1>1, <2>4 DEF Notify
        <3> QED
            BY <1>1, <2>1, <3>1, <3>2 DEF Rung
    <2> QED
        BY <1>5, <2>2, <2>3, <2>4 DEF ReaderStep
<1>6. CASE UNCHANGED vars
    BY <1>1, <1>6, RungStays DEF vars, socket, runs
<1> QED
    BY <1>2, <1>3, <1>4, <1>5, <1>6 DEF Next

\* News that a main loop has not taken have rung the bell or are about to, for any
\* nodes, runs and rediscoveries.
THEOREM RingCorrect == Spec => []NewsRing
<1>1. Spec => []TypeOK
    BY TypeCorrect
<1>2. Init => RingInv
    BY TypeInit DEF Init, RingInv, Rung
<1>3. Spec => []RingInv
    BY <1>1, <1>2, RingStep, PTL DEF Spec
<1>4. RingInv => NewsRing
    BY DEF RingInv, Rung, NewsRing
<1> QED
    BY <1>3, <1>4, PTL

-----------------------------------------------------------------------------
(* Handles and mailboxes *)

\* A run that is being started has no service yet, and one rediscovery starts it.
Begun(k) ==
    Starting(k) =>
        /\ service[round[k].run] = "made"
        /\ \A j \in Rounds : Starting(j) /\ round[j].run = round[k].run => j = k

Listed(r) ==
    service[r] \in Alive /\ r \notin cancelled =>
        \/ nodes[of[r]] = r
        \/ \E k \in Rounds : round[k].run = r /\ round[k].pc = "cancel"

\* A mailbox that events are put into is that of a run of the node.
Boxed(n) ==
    mailboxes[n] # None => of[mailboxes[n]] = n /\ service[mailboxes[n]] # "dead"

Registry ==
    /\ \A k \in Rounds : Begun(k)
    /\ \A r \in Runs : Listed(r)
    /\ \A n \in Nodes : Boxed(n)

RegistryInv == TypeOK /\ Registry

LEMMA RegistryInit == Init => RegistryInv
<1> SUFFICES ASSUME Init PROVE Registry
    BY TypeInit DEF RegistryInv
<1>1. \A k \in Rounds : round[k].pc \in {"idle", "start"}
    BY DEF Init, Idle
<1>2. /\ \A r \in Runs : service[r] = "dead"
      /\ \A n \in Nodes : mailboxes[n] = None
    BY DEF Init
<1> QED
    BY <1>1, <1>2 DEF Registry, Begun, Starting, Listed, Alive, Boxed

\* A rediscovery moves on from where it had nothing to cancel to where it starts
\* nothing.
LEMMA RegistryStays ==
    ASSUME RegistryInv, UNCHANGED <<nodes, mailboxes, of, service, cancelled>>,
           \/ UNCHANGED round
           \/ \E k \in Rounds : \E new \in Round :
                  /\ round[k].pc # "cancel"
                  /\ round' = [round EXCEPT ![k] = new] /\ new.pc \notin {"map", "spawn"}
    PROVE  Registry'
<1>1. TypeOK /\ Registry /\ round \in [Rounds -> Round]
    BY DEF RegistryInv, TypeOK
<1>2. CASE UNCHANGED round
    BY <1>1, <1>2 DEF Registry, Begun, Starting, Listed, Boxed
<1>3. ASSUME NEW k \in Rounds, NEW new \in Round, round[k].pc # "cancel",
             round' = [round EXCEPT ![k] = new], new.pc \notin {"map", "spawn"}
      PROVE  Registry'
    <2>1. ASSUME NEW j \in Rounds PROVE Begun(j)'
        <3>1. \A i \in Rounds : Starting(i)' => Starting(i) /\ round'[i] = round[i]
            BY <1>1, <1>3 DEF Starting
        <3> QED
            BY <1>1, <3>1 DEF Registry, Begun
    <2>2. ASSUME NEW r \in Runs PROVE Listed(r)'
        BY <1>1, <1>3 DEF Registry, Listed
    <2>3. ASSUME NEW n \in Nodes PROVE Boxed(n)'
        BY <1>1 DEF Registry, Boxed
    <2> QED
        BY <2>1, <2>2, <2>3 DEF Registry
<1> QED
    BY <1>2, <1>3

\* stopNode takes a handle out and has its run in hand, until it has cancelled it
\* and taken out the mailbox.
LEMMA RegistryStop ==
    ASSUME RegistryInv, NEW k \in Rounds, Cancel(k) \/ \E n \in Nodes : Unlist(k, n)
    PROVE  Registry'
<1>1. /\ TypeOK /\ Registry /\ round \in [Rounds -> Round] /\ round[k] \in Round
      /\ nodes \in [Nodes -> Runs \cup {None}] /\ mailboxes \in [Nodes -> Runs \cup {None}]
      /\ of \in [Runs -> Nodes] /\ service \in [Runs -> Phases]
    BY DEF RegistryInv, TypeOK
<1>2. ASSUME NEW n \in Nodes, Unlist(k, n) PROVE Registry'
    <2>1. /\ UNCHANGED <<mailboxes, of, service, cancelled>> /\ round[k].pc = "stop"
          /\ nodes' = [nodes EXCEPT ![n] = None]
        BY <1>2 DEF Unlist, routes, runs
    <2>2. /\ \A j \in Rounds : j # k => round'[j] = round[j]
          /\ round'[k].pc = IF nodes[n] = None THEN "stop" ELSE "cancel"
          /\ round'[k].run = nodes[n]
        BY <1>1, <1>2 DEF Unlist, Round
    <2>3. ASSUME NEW j \in Rounds PROVE Begun(j)'
        <3>1. \A i \in Rounds : Starting(i)' => Starting(i) /\ round'[i] = round[i]
            BY <2>1, <2>2 DEF Starting
        <3> QED
            BY <1>1, <2>1, <3>1 DEF Registry, Begun
    <2>4. ASSUME NEW r \in Runs PROVE Listed(r)'
        <3> SUFFICES ASSUME service[r] \in Alive, r \notin cancelled
                     PROVE  \/ nodes'[of[r]] = r
                            \/ \E j \in Rounds : round'[j].run = r /\ round'[j].pc = "cancel"
            BY <2>1 DEF Listed
        <3>1. CASE nodes[of[r]] = r /\ of[r] # n
            BY <1>1, <2>1, <3>1
        <3>2. CASE nodes[n] = r
            BY <2>2, <3>2, NoneIsNoRun
        <3>3. ASSUME NEW j \in Rounds, round[j].run = r, round[j].pc = "cancel"
              PROVE  round'[j].run = r /\ round'[j].pc = "cancel"
            BY <2>1, <2>2, <3>3
        <3> QED
            BY <1>1, <3>1, <3>2, <3>3 DEF Registry, Listed
    <2>5. ASSUME NEW m \in Nodes PROVE Boxed(m)'
        BY <1>1, <2>1 DEF Registry, Boxed
    <2> QED
        BY <2>3, <2>4, <2>5 DEF Registry
<1>3. CASE Cancel(k)
    <2>1. /\ UNCHANGED <<nodes, of, service>> /\ round[k].pc = "cancel"
          /\ mailboxes' = [mailboxes EXCEPT ![of[round[k].run]] = None]
          /\ cancelled' = cancelled \cup {round[k].run}
        BY <1>3 DEF Cancel
    <2>2. /\ \A j \in Rounds : j # k => round'[j] = round[j]
          /\ round'[k].pc = "wait"
        BY <1>1, <1>3 DEF Cancel, Round
    <2>3. ASSUME NEW j \in Rounds PROVE Begun(j)'
        <3>1. \A i \in Rounds : Starting(i)' => Starting(i) /\ round'[i] = round[i]
            BY <2>1, <2>2 DEF Starting
        <3> QED
            BY <1>1, <2>1, <3>1 DEF Registry, Begun
    <2>4. ASSUME NEW r \in Runs PROVE Listed(r)'
        BY <1>1, <2>1, <2>2 DEF Registry, Listed
    <2>5. ASSUME NEW m \in Nodes PROVE Boxed(m)'
        <3>1. mailboxes'[m] \in {mailboxes[m], None}
            BY <1>1, <2>1
        <3> QED
            BY <1>1, <2>1, <3>1 DEF Registry, Boxed
    <2> QED
        BY <2>3, <2>4, <2>5 DEF Registry
<1> QED
    BY <1>2, <1>3

\* startNode makes a run that nothing refers to, for a node without a handle, ...
LEMMA RegistryEnlist ==
    ASSUME RegistryInv, NEW k \in Rounds, NEW n \in Nodes, NEW r \in Unused,
           NEW new \in Round, r \in Runs, nodes[n] = None, round[k].pc = "start",
           nodes' = [nodes EXCEPT ![n] = r], Make(r, n), mailboxes' = mailboxes,
           round' = [round EXCEPT ![k] = new], new.run = r, new.pc = "map"
    PROVE  Registry'
<1>1. /\ TypeOK /\ Registry /\ round \in [Rounds -> Round]
      /\ nodes \in [Nodes -> Runs \cup {None}] /\ mailboxes \in [Nodes -> Runs \cup {None}]
      /\ of \in [Runs -> Nodes] /\ service \in [Runs -> Phases]
    BY DEF RegistryInv, TypeOK
<1>2. /\ of' = [of EXCEPT ![r] = n] /\ service' = [service EXCEPT ![r] = "made"]
      /\ cancelled' = cancelled \ {r}
    BY DEF Make
<1>3. /\ \A m \in Nodes : mailboxes[m] # r
      /\ \A j \in Rounds : round[j].run # r
    BY DEF Unused
<1>4. /\ round'[k] = new
      /\ \A j \in Rounds : j # k => round'[j] = round[j]
    BY <1>1
<1>5. ASSUME NEW j \in Rounds PROVE Begun(j)'
    <2>1. CASE j = k
        BY <1>1, <1>2, <1>3, <1>4, <2>1 DEF Begun, Starting
    <2>2. CASE j # k
        <3>1. Begun(j)
            BY <1>1 DEF Registry
        <3>2. Starting(j) => round[j].run \in Runs
            BY <1>1 DEF Starting, TypeOK, Round
        <3> QED
            BY <1>1, <1>2, <1>3, <1>4, <2>2, <3>1, <3>2 DEF Begun, Starting
    <2> QED
        BY <2>1, <2>2
<1>6. ASSUME NEW s \in Runs PROVE Listed(s)'
    <2>1. CASE s = r
        BY <1>1, <1>2, <2>1 DEF Listed
    <2>2. CASE s # r
        <3>1. Listed(s) /\ of'[s] = of[s] /\ of[s] \in Nodes /\ service'[s] = service[s]
            BY <1>1, <1>2, <2>2 DEF Registry
        <3>2. nodes[of[s]] = s => of[s] # n
            BY NoneIsNoRun
        <3>3. nodes[of[s]] = s => nodes'[of[s]] = s
            BY <1>1, <3>1, <3>2
        <3>4. \A j \in Rounds : round[j].pc = "cancel" => round'[j] = round[j]
            BY <1>4
        <3> QED
            BY <1>2, <2>2, <3>1, <3>3, <3>4 DEF Listed
    <2> QED
        BY <2>1, <2>2
<1>7. ASSUME NEW m \in Nodes PROVE Boxed(m)'
    BY <1>1, <1>2, <1>3 DEF Registry, Boxed
<1> QED
    BY <1>5, <1>6, <1>7 DEF Registry

\* ... then enters its mailbox and starts its service.
LEMMA RegistryStart ==
    ASSUME RegistryInv, NEW k \in Rounds, Map(k) \/ Spawn(k)
    PROVE  Registry'
<1>1. /\ TypeOK /\ Registry /\ round \in [Rounds -> Round] /\ round[k] \in Round
      /\ mailboxes \in [Nodes -> Runs \cup {None}]
      /\ of \in [Runs -> Nodes] /\ service \in [Runs -> Phases]
    BY DEF RegistryInv, TypeOK
<1>2. /\ Starting(k) /\ round[k].run \in Runs /\ service[round[k].run] = "made"
      /\ \A j \in Rounds : Starting(j) /\ round[j].run = round[k].run => j = k
    <2>1. Starting(k)
        BY DEF Map, Spawn, Starting
    <2>2. round[k].run # None /\ round[k].run \in Runs \cup {None}
        BY <1>1, <2>1 DEF Starting, TypeOK, Round
    <2> QED
        BY <1>1, <2>1, <2>2 DEF Registry, Begun
<1>3. CASE Map(k)
    <2>1. /\ UNCHANGED <<nodes, of, service, cancelled>>
          /\ mailboxes' = [mailboxes EXCEPT ![of[round[k].run]] = round[k].run]
        BY <1>3 DEF Map, runs
    <2>2. /\ \A j \in Rounds : j # k => round'[j] = round[j]
          /\ round'[k].pc = "spawn" /\ round'[k].run = round[k].run
        BY <1>1, <1>3 DEF Map, Round
    <2>3. ASSUME NEW j \in Rounds PROVE Begun(j)'
        <3>1. \A i \in Rounds : /\ Starting(i)' <=> Starting(i)
                                /\ round'[i].run = round[i].run
            BY <1>2, <2>2 DEF Starting
        <3> QED
            BY <1>1, <2>1, <3>1 DEF Registry, Begun
    <2>4. ASSUME NEW r \in Runs PROVE Listed(r)'
        <3>1. \A j \in Rounds : round[j].pc = "cancel" => round'[j] = round[j]
            BY <1>2, <2>2 DEF Starting
        <3> QED
            BY <1>1, <2>1, <3>1 DEF Registry, Listed
    <2>5. ASSUME NEW m \in Nodes PROVE Boxed(m)'
        BY <1>1, <1>2, <2>1 DEF Registry, Boxed
    <2> QED
        BY <2>3, <2>4, <2>5 DEF Registry
<1>4. CASE Spawn(k)
    <2>1. /\ UNCHANGED <<nodes, mailboxes, of, cancelled>>
          /\ service' = [service EXCEPT ![round[k].run] = "initial"]
        BY <1>4 DEF Spawn, routes
    <2>2. /\ \A j \in Rounds : j # k => round'[j] = round[j]
          /\ round'[k].pc = "start"
        BY <1>1, <1>4 DEF Spawn, Round
    <2>3. ASSUME NEW j \in Rounds PROVE Begun(j)'
        <3>1. \A i \in Rounds : Starting(i)' => /\ Starting(i) /\ round'[i] = round[i]
                                                /\ round[i].run # round[k].run
            BY <1>2, <2>2 DEF Starting
        <3>2. Begun(j)
            BY <1>1 DEF Registry
        <3>3. Starting(j)' => service'[round[j].run] = "made"
            BY <1>1, <2>1, <3>1, <3>2 DEF Begun
        <3> QED
            BY <3>1, <3>2, <3>3 DEF Begun
    <2>4. ASSUME NEW r \in Runs PROVE Listed(r)'
        <3>1. \A j \in Rounds : round[j].pc = "cancel" => round'[j] = round[j]
            BY <1>2, <2>2 DEF Starting
        <3>2. service'[r] \in Alive => service[r] \in Alive
            BY <1>1, <1>2, <2>1 DEF Alive, Phases
        <3> QED
            BY <1>1, <2>1, <3>1, <3>2 DEF Registry, Listed
    <2>5. ASSUME NEW m \in Nodes PROVE Boxed(m)'
        BY <1>1, <2>1 DEF Registry, Boxed
    <2> QED
        BY <2>3, <2>4, <2>5 DEF Registry
<1> QED
    BY <1>3, <1>4

\* A service goes from phase to phase, and takes its node's mailbox out, which is
\* not another run's unless that one has been started since, before it is over.
LEMMA RegistryService ==
    ASSUME RegistryInv, NEW r \in Runs, ServiceStep(r) \/ Wake(r) \/ SetupFails(r)
    PROVE  Registry'
<1>1. /\ TypeOK /\ Registry
      /\ mailboxes \in [Nodes -> Runs \cup {None}]
      /\ of \in [Runs -> Nodes] /\ service \in [Runs -> Phases]
    BY DEF RegistryInv, TypeOK
<1>2. /\ UNCHANGED <<nodes, of, cancelled, round>>
      /\ \E phase \in Phases : service' = [service EXCEPT ![r] = phase]
      /\ service[r] \notin {"dead", "made"}
      /\ \/ service'[r] # "dead" /\ mailboxes' = mailboxes
         \/ mailboxes' = [mailboxes EXCEPT ![of[r]] = None]
    <2>1. CASE Fetch(r) \/ Register(r) \/ BeReady(r) \/ SetupFails(r)
        BY <1>1, <2>1 DEF Fetch, Register, BeReady, SetupFails, Goto, routes, Phases
    <2>2. CASE Wake(r) \/ Drain(r) \/ End(r)
        BY <1>1, <2>2 DEF Wake, Drain, End, Goto, routes, Phases
    <2>3. CASE Unregister(r)
        BY <2>3 DEF Unregister, Goto, Phases
    <2> QED
        BY <2>1, <2>2, <2>3 DEF ServiceStep
<1>3. /\ \A s \in Runs : s # r => service'[s] = service[s]
      /\ \A m \in Nodes : mailboxes'[m] \in {mailboxes[m], None}
    BY <1>1, <1>2
<1>4. ASSUME NEW j \in Rounds PROVE Begun(j)'
    <2>1. Begun(j)
        BY <1>1 DEF Registry
    <2>2. Starting(j) => round[j].run \in Runs
        BY <1>1 DEF Starting, TypeOK, Round
    <2>3. Starting(j) => service'[round[j].run] = "made"
        BY <1>2, <1>3, <2>1, <2>2 DEF Begun
    <2> QED
        BY <1>2, <2>1, <2>3 DEF Begun, Starting
<1>5. ASSUME NEW s \in Runs PROVE Listed(s)'
    <2>1. service'[s] \in Alive => service[s] \in Alive
        BY <1>1, <1>2, <1>3 DEF Alive, Phases
    <2> QED
        BY <1>1, <1>2, <2>1 DEF Registry, Listed
<1>6. ASSUME NEW m \in Nodes PROVE Boxed(m)'
    <2>1. Boxed(m)
        BY <1>1 DEF Registry
    <2>2. mailboxes'[m] # None => mailboxes'[m] = mailboxes[m] /\ mailboxes[m] \in Runs
        BY <1>1, <1>3
    <2>3. mailboxes'[m] = r => service'[r] # "dead"
        BY <1>1, <1>2, <2>1, <2>2, NoneIsNoRun DEF Boxed
    <2> QED
        BY <1>2, <1>3, <2>1, <2>2, <2>3 DEF Boxed
<1> QED
    BY <1>4, <1>5, <1>6 DEF Registry

LEMMA RegistryStep == RegistryInv /\ TypeOK' /\ [Next]_vars => RegistryInv'
<1> SUFFICES ASSUME RegistryInv, TypeOK', [Next]_vars PROVE Registry'
    BY DEF RegistryInv
<1>1. TypeOK
    BY DEF RegistryInv
<1>2. CASE Tick \/ \E n \in Nodes : Move(n) \/ Configure(n)
    BY <1>1, <1>2, QuietPanel, RegistryStays
<1>3. ASSUME NEW k \in Rounds, RoundStep(k) \/ ListFails(k) PROVE Registry'
    <2>1. CASE \/ List(k) \/ ListFails(k) \/ Plan(k) \/ Wait(k) \/ EndStops(k) \/ EndStarts(k)
        BY <1>1, <2>1, QuietRound, RegistryStays
    <2>2. ASSUME NEW n \in Nodes, Enlist(k, n) PROVE Registry'
        <3>1. CASE /\ UNCHANGED <<nodes, of, service, cancelled, mailbox>>
                   /\ \E new \in Round : /\ round' = [round EXCEPT ![k] = new]
                                         /\ new.pc = "start"
            BY <1>1, <2>2, <3>1, EnlistRun, RegistryStays
        <3> QED
            BY <1>1, <2>2, <3>1, EnlistRun, RegistryEnlist
    <2> QED
        BY <1>3, <2>1, <2>2, RegistryStop, RegistryStart DEF RoundStep
<1>4. CASE \E r \in Runs : ServiceStep(r) \/ Wake(r) \/ SetupFails(r)
    BY <1>4, RegistryService
<1>5. CASE ReaderStep \/ UNCHANGED vars
    <2>1. UNCHANGED <<nodes, mailboxes, of, service, cancelled, round>>
        BY <1>5 DEF ReaderStep, Route, ApplyEvent, Notify, routes, runs, vars
    <2> QED
        BY <2>1, RegistryStays
<1> QED
    BY <1>2, <1>3, <1>4, <1>5 DEF Next

LEMMA RegistryAlways == Spec => []RegistryInv
<1>1. Spec => []TypeOK
    BY TypeCorrect
<1> QED
    BY <1>1, RegistryInit, RegistryStep, PTL DEF Spec

\* However many rediscoveries overlap, a service that has not been cancelled is the
\* one o.nodes has for its node, or is about to be cancelled.
THEOREM ListedCorrect == Spec => []EveryServiceListed
<1>1. RegistryInv => EveryServiceListed
    BY DEF RegistryInv, Registry, Listed, EveryServiceListed
<1> QED
    BY <1>1, RegistryAlways, PTL

\* No event is put into the mailbox of a service that is over: unregisterNode takes
\* the mailbox out by the node's id, and finds it because it is the node's.
THEOREM MailboxCorrect == Spec => []NoDeadMailbox
<1>1. RegistryInv => NoDeadMailbox
    BY DEF RegistryInv, Registry, Boxed, NoDeadMailbox
<1> QED
    BY <1>1, RegistryAlways, PTL
=============================================================================
