--------------------------- MODULE TrafficReport ---------------------------
(***************************************************************************)
(* How the bytes a node carries reach the panel's accounts: the kernel's   *)
(* cumulative counters, the tracker that turns them into deltas            *)
(* (internal/tracker/tracker.go), the report the service sends in the      *)
(* background (internal/service/service.go) and the panel that books it    *)
(* (panel/ServerController.php).                                           *)
(*                                                                         *)
(* A counter is one direction of one user.  The kernel counts while the    *)
(* service sleeps; the service's main loop runs Process, the report ticker *)
(* and the restarts; the answer of a report comes in a goroutine.          *)
(***************************************************************************)
EXTENDS Integers

CONSTANTS
    Users, Directions,
    MaxUsed,       \* bytes a counter carries in all, bound of the model
    MaxFailures,   \* reports that fail, bound of the model
    MayRestart     \* the kernel, or the node, may restart

Counters == Users \X Directions

ASSUME TrafficAssumption ==
    /\ MaxUsed \in Nat
    /\ MaxFailures \in Nat
    /\ MayRestart \in BOOLEAN

VARIABLES
    cum,        \* the kernel's counters
    lastSeen,   \* tracker.lastSeen
    pending,    \* tracker.pendingTraffic, 0 for a missing key
    push,       \* the background report: "idle", "sent" or "booked"
    report,     \* its traffic
    skip,       \* pushBackoff.skipRemaining
    failures,   \* reports that failed in a row
    failed,     \* reports that failed in all
    up,         \* the service's main loop runs
    final,      \* the traffic of the report sent at shutdown
    billed,     \* bytes the panel booked
    used,       \* history: bytes carried
    unread,     \* history: bytes this kernel carried since the last Process
    twice       \* history: bytes booked by a report the node takes for failed

tracker == <<lastSeen, pending>>
service == <<push, report, skip, failures, failed, up, final>>
history == <<used, unread, twice>>
vars    == <<cum, tracker, service, billed, history>>

Bytes == [Counters -> Nat]
NoBytes == [c \in Counters |-> 0]
Plus(f, g) == [c \in Counters |-> f[c] + g[c]]

TypeOK ==
    /\ cum \in Bytes
    /\ lastSeen \in Bytes
    /\ pending \in Bytes
    /\ push \in {"idle", "sent", "booked"}
    /\ report \in Bytes
    /\ skip \in Nat
    /\ failures \in Nat
    /\ failed \in Nat
    /\ up \in BOOLEAN
    /\ final \in Bytes
    /\ billed \in Bytes
    /\ used \in Bytes
    /\ unread \in Bytes
    /\ twice \in Bytes

Init ==
    /\ cum = NoBytes
    /\ lastSeen = NoBytes
    /\ pending = NoBytes
    /\ push = "idle"
    /\ report = NoBytes
    /\ skip = 0
    /\ failures = 0
    /\ failed = 0
    /\ up = TRUE
    /\ final = NoBytes
    /\ billed = NoBytes
    /\ used = NoBytes
    /\ unread = NoBytes
    /\ twice = NoBytes

-----------------------------------------------------------------------------
(* The kernel *)

\* A connection of a user carries a byte.
Carry(c) ==
    /\ up
    /\ used[c] < MaxUsed
    /\ cum' = [cum EXCEPT ![c] = @ + 1]
    /\ used' = [used EXCEPT ![c] = @ + 1]
    /\ unread' = [unread EXCEPT ![c] = @ + 1]
    /\ UNCHANGED <<tracker, service, billed, twice>>

\* Start builds a fresh connection tracker; the old one's counters are gone.
KernelRestart ==
    /\ MayRestart
    /\ up
    /\ cum # NoBytes
    /\ cum' = NoBytes
    /\ unread' = NoBytes
    /\ UNCHANGED <<tracker, service, billed, used, twice>>

-----------------------------------------------------------------------------
(* The tracker *)

\* GetUserTraffic leaves out the users none of whose counters has moved.
InTraffic(c) == \E d \in Directions : cum[<<c[1], d>>] > 0

\* Mutant of Delta: a counter that went down is not noticed.
DeltaUnguarded(c) == cum[c] - lastSeen[c]

\* The bytes since the last cycle; a counter that went down was reset.
Delta(c) ==
    IF cum[c] - lastSeen[c] < 0 THEN cum[c] ELSE cum[c] - lastSeen[c]

\* Mutant of Process: what was seen is not remembered.
ProcessForgets ==
    /\ up
    /\ pending' = [c \in Counters |-> pending[c] + Delta(c)]
    /\ unread' = NoBytes
    /\ UNCHANGED <<cum, lastSeen, service, billed, used, twice>>

Process ==
    /\ up
    /\ lastSeen' = [c \in Counters |-> IF InTraffic(c) THEN cum[c] ELSE lastSeen[c]]
    /\ pending' = [c \in Counters |->
                      IF InTraffic(c) THEN pending[c] + Delta(c) ELSE pending[c]]
    /\ unread' = NoBytes
    /\ UNCHANGED <<cum, service, billed, used, twice>>

-----------------------------------------------------------------------------
(* The report *)

\* Mutant of FlushPush: the report takes a copy and leaves the traffic.
FlushCopies ==
    /\ up
    /\ push = "idle"
    /\ skip = 0
    /\ push' = "sent"
    /\ report' = pending
    /\ UNCHANGED <<cum, tracker, skip, failures, failed, up, final, billed,
                   history>>

\* pushReportAsync: the ticker finds no report under way and no backoff.
FlushPush ==
    /\ up
    /\ push = "idle"
    /\ skip = 0
    /\ push' = "sent"
    /\ report' = pending
    /\ pending' = NoBytes
    /\ UNCHANGED <<cum, lastSeen, skip, failures, failed, up, final, billed,
                   history>>

\* Mutant of SkipPush: shouldSkip does not count down.
SkipForever ==
    /\ up
    /\ push = "idle"
    /\ skip > 0
    /\ skip' = skip
    /\ UNCHANGED <<cum, tracker, push, report, failures, failed, up, final,
                   billed, history>>

\* The ticker finds a backoff.
SkipPush ==
    /\ up
    /\ push = "idle"
    /\ skip > 0
    /\ skip' = skip - 1
    /\ UNCHANGED <<cum, tracker, push, report, failures, failed, up, final,
                   billed, history>>

\* The panel books the traffic of the report; what it does with the rest of
\* the report, and its answer, are still to come.
Book ==
    /\ push = "sent"
    /\ push' = "booked"
    /\ billed' = Plus(billed, report)
    /\ UNCHANGED <<cum, tracker, report, skip, failures, failed, up, final,
                   history>>

\* The answer arrives: onSuccess.
Answer ==
    /\ up
    /\ push = "booked"
    /\ push' = "idle"
    /\ report' = NoBytes
    /\ skip' = 0
    /\ failures' = 0
    /\ UNCHANGED <<cum, tracker, failed, up, final, billed, history>>

\* The request or its answer is lost, or the panel fails at another part of the
\* report: RestoreTraffic, onFailure.
FailPush ==
    /\ up
    /\ push # "idle"
    /\ failed < MaxFailures
    /\ push' = "idle"
    /\ pending' = Plus(pending, report)
    /\ twice' = IF push = "booked" THEN Plus(twice, report) ELSE twice
    /\ report' = NoBytes
    /\ skip' = IF skip <= 0 THEN 1 ELSE IF skip < 8 THEN 2 * skip ELSE skip
    /\ failures' = failures + 1
    /\ failed' = failed + 1
    /\ UNCHANGED <<cum, lastSeen, up, final, billed, used, unread>>

\* The main loop ends: pushReportSync, which restores nothing.
Shutdown ==
    /\ MayRestart
    /\ up
    /\ up' = FALSE
    /\ final' = pending
    /\ pending' = NoBytes
    /\ UNCHANGED <<cum, lastSeen, push, report, skip, failures, failed, billed,
                   history>>

BookFinal ==
    /\ final # NoBytes
    /\ billed' = Plus(billed, final)
    /\ final' = NoBytes
    /\ UNCHANGED <<cum, tracker, push, report, skip, failures, failed, up,
                   history>>

\* The process is started again, whatever became of its last reports.
Boot ==
    /\ ~up
    /\ up' = TRUE
    /\ cum' = NoBytes
    /\ lastSeen' = NoBytes
    /\ unread' = NoBytes
    /\ push' = "idle"
    /\ report' = NoBytes
    /\ final' = NoBytes
    /\ skip' = 0
    /\ failures' = 0
    /\ UNCHANGED <<pending, failed, billed, used, twice>>

-----------------------------------------------------------------------------

Next ==
    \/ \E c \in Counters : Carry(c)
    \/ KernelRestart
    \/ Process
    \/ FlushPush
    \/ SkipPush
    \/ Book
    \/ Answer
    \/ FailPush
    \/ Shutdown
    \/ BookFinal
    \/ Boot

Spec == Init /\ [][Next]_vars

\* The tickers of the main loop keep firing, and a report ends one way or
\* another: the HTTP client has a timeout.
FairSpec ==
    /\ Spec
    /\ WF_vars(Process)
    /\ WF_vars(FlushPush \/ SkipPush)
    /\ WF_vars(Book)
    /\ WF_vars(Answer)

-----------------------------------------------------------------------------
(* Properties *)

\* Bytes that are on their way to the panel and not booked yet.
Underway(c) == pending[c] + final[c] + (IF push = "sent" THEN report[c] ELSE 0)

\* Nobody pays for bytes that were not carried, but for those of a report that
\* was booked and reported as failed: neither a restart of the kernel, after
\* which its counters are behind lastSeen, nor a report that is restored while
\* Process runs makes a byte count twice.
NeverOverbilled ==
    \A c \in Counters : billed[c] + Underway(c) <= used[c] + twice[c]

\* No byte gets lost between the kernel and the panel as long as no restart has
\* taken bytes away (cum and used count the same), whichever reports fail; a node
\* that shuts down reports what it has.
Conserved ==
    cum = used =>
        \A c \in Counters :
            billed[c] + Underway(c) + (cum[c] - lastSeen[c]) = used[c] + twice[c]

\* Once the node stays up, everything its kernel carries gets read and everything
\* that was read gets booked, however many restarts and failures there were; all
\* of it, if no restart took bytes away.
EventuallyBilled ==
    <>[]up =>
        <>[](\A c \in Counters :
                /\ unread[c] = 0
                /\ Underway(c) = 0
                /\ cum = used => billed[c] = used[c] + twice[c])

\* The comment in Process: "Guard against counter reset (kernel restart)".
\* What Process adds is what the running kernel carried since the last cycle.
ResetIsSeen ==
    [][Process => \A c \in Counters : pending'[c] = pending[c] + unread[c]]_vars
=============================================================================
