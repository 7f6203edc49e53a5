---------------------------- MODULE AliveReport ----------------------------
(***************************************************************************)
(* How the panel learns which devices are connected to a node.  The        *)
(* tracker (internal/tracker/tracker.go) keeps the last set the kernel     *)
(* showed and a hash of the set it last handed out; two tickers of the     *)
(* service (internal/service/service.go) hand it out, one with the HTTP    *)
(* report, which a goroutine encodes and sends, one over the websocket     *)
(* (internal/panel/ws.go), when the hash has changed since.                *)
(*                                                                         *)
(* A device is a user together with a source.  A hash is modelled by what  *)
(* was hashed: collisions are left out.  The other half of the report is   *)
(* TrafficReport; names both have begin with Alive here, so that one       *)
(* module can extend both.                                                 *)
(***************************************************************************)
EXTENDS Integers, Sequences, FiniteSets

CONSTANTS
    Devices,
    WriteCap,           \* capacity of the websocket's writeCh (16)
    MaxChanges,         \* devices that come or go, bound of the model
    Http, Ws,           \* the HTTP report and the websocket are in use
    MaxFailedRequests,  \* HTTP reports that fail, bound of the model
    MayDrop,            \* the websocket may lose its connection
    MayLapse,           \* the panel's TTL passes when nothing is reported
    MayEmpty            \* the last device may leave

ASSUME AliveAssumption ==
    /\ IsFiniteSet(Devices)
    /\ WriteCap \in Nat \ {0}
    /\ {MaxChanges, MaxFailedRequests} \subseteq Nat
    /\ {Http, Ws, MayDrop, MayLapse, MayEmpty} \subseteq BOOLEAN

VARIABLES
    alive,          \* devices the kernel has connections of
    changes,        \* how many came or went
    live,           \* the aliveIPs of the tracker's snapshot
    lastHash,       \* lastAliveIPsHash, {} standing for ""
    buf,            \* aliveIPsBuf, handed out by reference
    request,        \* the HTTP report: "idle", "encoding" or "sent"
    body,           \* the devices it reports, {} when it leaves them out
    failedRequests, \* HTTP reports that failed
    ws,             \* "down", "opening" (connected, writeCh still nil) or "up"
    writeCh,        \* device reports waiting to be written
    stored,         \* the devices of the node in the panel's store
    raced,          \* history: a flush rewrote buf while a goroutine ranged over it
    flushes,        \* history: flushes so far, the number of the last one
    bodyNo,         \* history: the flush the HTTP report stands for
    storedNo,       \* history: the flush the panel has taken over last
    lost            \* history: a report was lost or overtaken, or the TTL passed

aliveTracker == <<live, lastHash, buf>>
http         == <<request, body, bodyNo, failedRequests>>
socket       == <<ws, writeCh>>
panel        == <<stored, storedNo>>
flushed      == <<raced, flushes>>
aliveVars    == <<alive, changes, aliveTracker, http, socket, panel, flushed, lost>>

AliveTypeOK ==
    /\ alive \in SUBSET Devices
    /\ changes \in 0 .. MaxChanges
    /\ live \in SUBSET Devices
    /\ lastHash \in SUBSET Devices
    /\ buf \in SUBSET Devices
    /\ request \in {"idle", "encoding", "sent"}
    /\ body \in SUBSET Devices
    /\ failedRequests \in 0 .. MaxFailedRequests
    /\ ws \in {"down", "opening", "up"}
    /\ writeCh \in Seq(Nat \X SUBSET Devices) /\ Len(writeCh) <= WriteCap
    /\ stored \in SUBSET Devices
    /\ {raced, lost} \subseteq BOOLEAN
    /\ {flushes, bodyNo, storedNo} \subseteq 0 .. MaxChanges

AliveInit ==
    /\ alive = {}
    /\ changes = 0
    /\ live = {}
    /\ lastHash = {}
    /\ buf = {}
    /\ request = "idle"
    /\ body = {}
    /\ failedRequests = 0
    /\ ws = "down"
    /\ writeCh = <<>>
    /\ stored = {}
    /\ raced = FALSE
    /\ flushes = 0
    /\ bodyNo = 0
    /\ storedNo = 0
    /\ lost = FALSE

-----------------------------------------------------------------------------
(* The kernel and the tracker *)

Come(d) ==
    /\ changes < MaxChanges
    /\ d \notin alive
    /\ alive' = alive \cup {d}
    /\ changes' = changes + 1
    /\ UNCHANGED <<aliveTracker, http, socket, panel, flushed, lost>>

Leave(d) ==
    /\ changes < MaxChanges
    /\ d \in alive
    /\ MayEmpty \/ alive # {d}
    /\ alive' = alive \ {d}
    /\ changes' = changes + 1
    /\ UNCHANGED <<aliveTracker, http, socket, panel, flushed, lost>>

\* The track ticker publishes a snapshot.
ProcessAlive ==
    /\ live' = alive
    /\ UNCHANGED <<alive, changes, lastHash, buf, http, socket, panel, flushed, lost>>

\* Mutant of Changed: as many devices, so nothing has changed.
CountChanged == Cardinality(live) # Cardinality(lastHash)

\* FlushAliveIPs returns nil unless the hash has changed.
Changed == live # lastHash

\* Mutant of Flush: the entries of the last flush stay in the buffer.
FlushOnto ==
    /\ lastHash' = live
    /\ buf' = buf \cup live
    /\ raced' = (raced \/ request = "encoding")
    /\ flushes' = flushes + 1
    /\ live' = live

\* FlushAliveIPs: the hash moves on, the buffer is cleared and filled again.
Flush ==
    /\ lastHash' = live
    /\ buf' = live
    /\ raced' = (raced \/ request = "encoding")
    /\ flushes' = flushes + 1
    /\ live' = live

-----------------------------------------------------------------------------
(* The panel *)

\* A report of the no-th flush takes the place of what is stored for the node.
Store(no, devices) ==
    /\ stored' = devices
    /\ storedNo' = no
    /\ lost' = (lost \/ no < storedNo)

\* Five minutes after the last report nothing of it is left.
Lapse ==
    /\ MayLapse
    /\ stored # {}
    /\ stored' = {}
    /\ lost' = TRUE
    /\ UNCHANGED <<alive, changes, aliveTracker, http, socket, storedNo, flushed>>

-----------------------------------------------------------------------------
(* The HTTP report *)

\* pushReportAsync, when there is something new about the devices ...
PushReport ==
    /\ Http
    /\ request = "idle"
    /\ Changed
    /\ Flush
    /\ request' = "encoding"
    /\ bodyNo' = flushes + 1
    /\ UNCHANGED <<alive, changes, body, failedRequests, socket, panel, lost>>

\* Client.Report in the goroutine ranges over the buffer, which is shared.
Encode ==
    /\ request = "encoding"
    /\ body' = buf
    /\ request' = "sent"
    /\ UNCHANGED <<alive, changes, aliveTracker, bodyNo, failedRequests, socket,
                   panel, flushed, lost>>

\* The panel's report.  The client leaves out an empty map, and the panel
\* ignores one: the last device that leaves is not reported.
Deliver ==
    /\ request = "sent"
    /\ \/ /\ body # {}
          /\ Store(bodyNo, body)
       \/ /\ body = {}
          /\ lost' = TRUE
          /\ UNCHANGED panel
    /\ request' = "idle"
    /\ body' = {}
    /\ UNCHANGED <<alive, changes, aliveTracker, bodyNo, failedRequests, socket, flushed>>

\* The report fails: RestoreAliveIPs merges the buffer, which the report still
\* points to, into itself.
FailRequest ==
    /\ request = "sent"
    /\ failedRequests < MaxFailedRequests
    /\ failedRequests' = failedRequests + 1
    /\ request' = "idle"
    /\ body' = {}
    /\ lost' = TRUE
    /\ UNCHANGED <<alive, changes, aliveTracker, bodyNo, socket, panel, flushed>>

-----------------------------------------------------------------------------
(* The websocket *)

\* Mutant of DeviceReport: the send does not look whether writeCh is full.
DeviceReportAlways ==
    /\ ws # "down"
    /\ Changed
    /\ Flush
    /\ writeCh' = Append(writeCh, <<flushes + 1, live>>)
    /\ UNCHANGED <<alive, changes, http, ws, panel, lost>>

\* sendDeviceBatch, when the client is connected: without a writeCh, or with a
\* full one, the report is dropped after the flush.
DeviceReport ==
    /\ ws # "down"
    /\ Changed
    /\ Flush
    /\ \/ /\ ws = "up" /\ Len(writeCh) < WriteCap
          /\ writeCh' = Append(writeCh, <<flushes + 1, live>>)
          /\ lost' = lost
       \/ /\ ws = "opening" \/ Len(writeCh) = WriteCap
          /\ writeCh' = writeCh
          /\ lost' = TRUE
    /\ UNCHANGED <<alive, changes, http, ws, panel>>

\* The connect loop writes the next message; the panel takes over the devices.
WsWrite ==
    /\ ws = "up"
    /\ writeCh # <<>>
    /\ Store(Head(writeCh)[1], Head(writeCh)[2])
    /\ writeCh' = Tail(writeCh)
    /\ UNCHANGED <<alive, changes, aliveTracker, http, ws, flushed>>

\* connected is set before writeCh is made.
WsConnect ==
    /\ Ws
    /\ ws = "down"
    /\ ws' = "opening"
    /\ UNCHANGED <<alive, changes, aliveTracker, http, writeCh, panel, flushed, lost>>

WsOpen ==
    /\ ws = "opening"
    /\ ws' = "up"
    /\ UNCHANGED <<alive, changes, aliveTracker, http, writeCh, panel, flushed, lost>>

\* The connection is lost, with everything in writeCh.
WsDrop ==
    /\ MayDrop
    /\ ws # "down"
    /\ ws' = "down"
    /\ writeCh' = <<>>
    /\ lost' = (lost \/ writeCh # <<>>)
    /\ UNCHANGED <<alive, changes, aliveTracker, http, panel, flushed>>

-----------------------------------------------------------------------------

AliveNext ==
    \/ \E d \in Devices : Come(d) \/ Leave(d)
    \/ ProcessAlive
    \/ PushReport \/ Encode \/ Deliver \/ FailRequest
    \/ DeviceReport \/ WsWrite \/ WsConnect \/ WsOpen \/ WsDrop
    \/ Lapse

AliveSpec == AliveInit /\ [][AliveNext]_aliveVars

\* The tickers keep firing, a report is sent and answered, the client connects
\* again and writes what it has queued.  Nothing makes devices come or go, a
\* report fail, the connection drop or the TTL pass.
AliveFairSpec ==
    /\ AliveSpec
    /\ WF_aliveVars(ProcessAlive)
    /\ WF_aliveVars(PushReport)
    /\ WF_aliveVars(Encode)
    /\ WF_aliveVars(Deliver)
    /\ WF_aliveVars(DeviceReport)
    /\ WF_aliveVars(WsWrite)
    /\ WF_aliveVars(WsConnect)
    /\ WF_aliveVars(WsOpen)

-----------------------------------------------------------------------------
(* Properties *)

\* Once devices stop coming and going, the panel has the devices that are
\* connected, and keeps them: no change stays behind the hash.
PanelCatchesUp == <>[](stored = alive)

\* When nothing is under way the panel has the devices that were handed out
\* last, unless a report was lost, overtaken or left out, or the TTL passed:
\* two tickers sharing one hash and one buffer lose nothing by themselves.
WrongOnlyAfterLoss ==
    request = "idle" /\ writeCh = <<>> /\ ~lost => stored = lastHash

\* The comment of Tracker, "Thread safety": a flush never rewrites the map that
\* the goroutine of a report is ranging over.
NoSharedBuffer == ~raced
=============================================================================
