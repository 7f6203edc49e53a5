---------------------------- MODULE ReportProofs ----------------------------
(***************************************************************************)
(* Theorems about the two halves of a node's report, for any users,        *)
(* devices, channel and number of failures.  TrafficReport: the types are  *)
(* right, nobody is billed for bytes that were not carried, and no byte is *)
(* lost but in a restart.  AliveReport: the types are right, and the panel *)
(* has the devices that were handed out last unless a report was lost.     *)
(***************************************************************************)
EXTENDS TrafficReport, AliveReport, TLAPS

-----------------------------------------------------------------------------
(* The half of the bytes *)

\* Underway is a number of bytes.
LEMMA UnderwayType ==
    ASSUME TypeOK, NEW c \in Counters
    PROVE  Underway(c) \in Nat
BY DEF TypeOK, Bytes, Underway

\* What Process adds is never negative, whether or not the counter was reset.
LEMMA DeltaType ==
    ASSUME TypeOK, NEW c \in Counters
    PROVE  Delta(c) \in Nat
BY DEF TypeOK, Bytes, Delta

-----------------------------------------------------------------------------
(* Bytes: types *)

LEMMA TypeInit == Init => TypeOK
BY DEF Init, TypeOK, Bytes, NoBytes

LEMMA TypeStep == TypeOK /\ [Next]_vars => TypeOK'
<1> SUFFICES ASSUME TypeOK, [Next]_vars
             PROVE  TypeOK'
    OBVIOUS
<1> USE DEF TypeOK, Bytes, NoBytes, Plus
<1>1. CASE \E c \in Counters : Carry(c)
    BY <1>1 DEF Carry, tracker, service
<1>2. CASE KernelRestart
    BY <1>2 DEF KernelRestart, tracker, service
<1>3. CASE Process
    <2>1. \A c \in Counters : Delta(c) \in Nat
        BY DeltaType
    <2>2. /\ lastSeen' \in [Counters -> Nat]
          /\ pending' \in [Counters -> Nat]
        BY <1>3, <2>1 DEF Process
    <2> QED
        BY <1>3, <2>2 DEF Process, service
<1>4. CASE FlushPush
    BY <1>4 DEF FlushPush, history
<1>5. CASE SkipPush
    BY <1>5 DEF SkipPush, history, tracker
<1>6. CASE Book
    BY <1>6 DEF Book, history, tracker
<1>7. CASE Answer
    BY <1>7 DEF Answer, history, tracker
<1>8. CASE FailPush
    BY <1>8 DEF FailPush
<1>9. CASE Shutdown
    BY <1>9 DEF Shutdown, history
<1>10. CASE BookFinal
    BY <1>10 DEF BookFinal, history, tracker
<1>11. CASE Boot
    BY <1>11 DEF Boot
<1>12. CASE UNCHANGED vars
    BY <1>12 DEF vars, tracker, service, history
<1> QED
    BY <1>1, <1>2, <1>3, <1>4, <1>5, <1>6, <1>7, <1>8, <1>9, <1>10, <1>11, <1>12
    DEF Next

\* Every variable keeps its type; above all, no counter, delta or bill becomes
\* negative, also when the kernel's counters start over behind lastSeen.
THEOREM TypeCorrect == Spec => []TypeOK
BY TypeInit, TypeStep, PTL DEF Spec

-----------------------------------------------------------------------------
(* Nobody is billed too much *)

\* A counter of the kernel has either moved on by what it carried since the last
\* cycle, or started over since and counts just that.
Counted(c) == cum[c] = unread[c] \/ cum[c] = lastSeen[c] + unread[c]

\* What is billed, under way and not read yet was carried, or booked twice.
Covered(c) ==
    billed[c] + Underway(c) + unread[c] <= used[c] + twice[c]

BillInv == TypeOK /\ \A c \in Counters : Counted(c) /\ Covered(c)

\* A cycle never adds more than what was carried since the cycle before.
LEMMA DeltaBound ==
    ASSUME TypeOK, NEW c \in Counters, Counted(c)
    PROVE  Delta(c) <= unread[c]
BY DEF TypeOK, Bytes, Delta, Counted

\* A user that the kernel leaves out of the traffic has no bytes.
LEMMA NoTraffic ==
    ASSUME TypeOK, NEW c \in Counters, ~InTraffic(c)
    PROVE  cum[c] = 0
<1>1. PICK u \in Users, d \in Directions : c = <<u, d>>
    BY DEF Counters
<1>2. ~(cum[<<c[1], d>>] > 0)
    BY DEF InTraffic
<1>3. <<c[1], d>> = c
    BY <1>1
<1>4. cum[c] \in Nat
    BY DEF TypeOK, Bytes
<1> QED
    BY <1>2, <1>3, <1>4

LEMMA BillInit == Init => BillInv
BY TypeInit DEF Init, BillInv, Counted, Covered, Underway, NoBytes

LEMMA BillStepOne ==
    ASSUME BillInv, [Next]_vars, NEW c \in Counters
    PROVE  Counted(c)' /\ Covered(c)'
<1>a. TypeOK
    BY DEF BillInv
<1>b. TypeOK'
    BY <1>a, TypeStep
<1>c. Counted(c) /\ Covered(c)
    BY DEF BillInv
<1>d. /\ {cum[c], lastSeen[c], pending[c], report[c], final[c]} \subseteq Nat
      /\ {billed[c], used[c], unread[c], twice[c]} \subseteq Nat
    BY <1>a DEF TypeOK, Bytes
<1> USE DEF Counted, Covered, Underway, NoBytes, Plus
<1>1. CASE \E b \in Counters : Carry(b)
    <2>1. PICK b \in Counters : Carry(b)
        BY <1>1
    <2>2. UNCHANGED <<lastSeen, pending, push, report, final, billed, twice, up>>
        BY <2>1 DEF Carry, tracker, service
    <2>3. CASE b = c
        <3>1. cum'[c] = cum[c] + 1 /\ used'[c] = used[c] + 1 /\ unread'[c] = unread[c] + 1
            BY <2>1, <2>3, <1>a DEF Carry, TypeOK, Bytes
        <3> QED
            BY <3>1, <2>2, <1>b, <1>c, <1>d
    <2>4. CASE b # c
        <3>1. cum'[c] = cum[c] /\ used'[c] = used[c] /\ unread'[c] = unread[c]
            BY <2>1, <2>4, <1>a DEF Carry, TypeOK, Bytes
        <3> QED
            BY <3>1, <2>2, <1>b, <1>c, <1>d
    <2> QED
        BY <2>3, <2>4
<1>2. CASE KernelRestart
    BY <1>2, <1>b, <1>c, <1>d DEF KernelRestart, tracker, service
<1>3. CASE Process
    <2>1. /\ lastSeen'[c] = IF InTraffic(c) THEN cum[c] ELSE lastSeen[c]
          /\ pending'[c] = IF InTraffic(c) THEN pending[c] + Delta(c) ELSE pending[c]
          /\ unread'[c] = 0
          /\ UNCHANGED <<cum, push, report, final, billed, used, twice, up>>
        BY <1>3 DEF Process, service
    <2>2. Delta(c) \in Nat /\ Delta(c) <= unread[c]
        BY <1>a, <1>c, DeltaType, DeltaBound
    <2>3. Counted(c)'
        BY <2>1, <1>a, <1>d, NoTraffic
    <2>4. Covered(c)'
        BY <2>1, <2>2, <1>c, <1>d
    <2> QED
        BY <2>3, <2>4, <1>b
<1>4. CASE FlushPush
    BY <1>4, <1>b, <1>c, <1>d DEF FlushPush, history
<1>5. CASE SkipPush
    BY <1>5, <1>b, <1>c, <1>d DEF SkipPush, history, tracker
<1>6. CASE Book
    BY <1>6, <1>b, <1>c, <1>d DEF Book, history, tracker
<1>7. CASE Answer
    BY <1>7, <1>b, <1>c, <1>d DEF Answer, history, tracker
<1>8. CASE FailPush
    <2>1. /\ pending'[c] = pending[c] + report[c]
          /\ twice'[c] = IF push = "booked" THEN twice[c] + report[c] ELSE twice[c]
          /\ report'[c] = 0
          /\ push' = "idle"
          /\ push # "idle"
          /\ UNCHANGED <<cum, lastSeen, final, billed, used, unread>>
        BY <1>8 DEF FailPush
    <2>2. push \in {"sent", "booked"}
        BY <2>1, <1>a DEF TypeOK
    <2> QED
        BY <2>1, <2>2, <1>b, <1>c, <1>d
<1>9. CASE Shutdown
    BY <1>9, <1>b, <1>c, <1>d DEF Shutdown, history
<1>10. CASE BookFinal
    BY <1>10, <1>b, <1>c, <1>d DEF BookFinal, history, tracker
<1>11. CASE Boot
    BY <1>11, <1>b, <1>c, <1>d DEF Boot
<1>12. CASE UNCHANGED vars
    BY <1>12, <1>b, <1>c, <1>d DEF vars, tracker, service, history
<1> QED
    BY <1>1, <1>2, <1>3, <1>4, <1>5, <1>6, <1>7, <1>8, <1>9, <1>10, <1>11, <1>12
    DEF Next

LEMMA BillStep == BillInv /\ [Next]_vars => BillInv'
<1> SUFFICES ASSUME BillInv, [Next]_vars
             PROVE  BillInv'
    OBVIOUS
<1>1. TypeOK'
    BY TypeStep DEF BillInv
<1>2. ASSUME NEW c \in Counters
      PROVE  Counted(c)' /\ Covered(c)'
    BY BillStepOne
<1>3. \A c \in Counters : Counted(c)' /\ Covered(c)'
    BY <1>2
<1> QED
    BY <1>1, <1>3 DEF BillInv, Counted, Covered, Underway

LEMMA BillEnough == BillInv => NeverOverbilled
<1> SUFFICES ASSUME BillInv, NEW c \in Counters
             PROVE  billed[c] + Underway(c) <= used[c] + twice[c]
    BY DEF NeverOverbilled
<1>1. TypeOK /\ Covered(c)
    BY DEF BillInv
<1>2. {billed[c], used[c], unread[c], twice[c], Underway(c)} \subseteq Nat
    BY <1>1, UnderwayType DEF TypeOK, Bytes
<1> QED
    BY <1>1, <1>2 DEF Covered

\* However often the kernel and the node restart and reports fail, what the panel
\* has booked for a counter, and will still book, was carried by it, but for the
\* reports that were booked and taken for failed.
THEOREM BillCorrect == Spec => []NeverOverbilled
<1>1. Spec => []BillInv
    BY BillInit, BillStep, PTL DEF Spec
<1> QED
    BY <1>1, BillEnough, PTL
-----------------------------------------------------------------------------
(* No byte gets lost but in a restart *)

\* The counter is never behind what the tracker has seen of it, and every byte is
\* in one place.
Kept(c) ==
    /\ lastSeen[c] <= cum[c]
    /\ billed[c] + Underway(c) + (cum[c] - lastSeen[c]) = used[c] + twice[c]

\* What carried nothing has nothing to lose, and a node that runs has no report of
\* its shutdown under way.
Blank(c) ==
    /\ used[c] = 0 =>
           /\ cum[c] = 0 /\ lastSeen[c] = 0 /\ pending[c] = 0 /\ report[c] = 0
           /\ final[c] = 0 /\ billed[c] = 0 /\ twice[c] = 0
    /\ up => final[c] = 0

KeepInv ==
    /\ TypeOK
    /\ \A c \in Counters : cum[c] <= used[c] /\ Blank(c)
    /\ cum = used => \A c \in Counters : Kept(c)

LEMMA KeepInit == Init => KeepInv
BY TypeInit DEF Init, KeepInv, Kept, Blank, Underway, NoBytes

\* Two functions of the counters that agree everywhere are the same.
LEMMA SameBytes ==
    ASSUME NEW f \in Bytes, NEW g \in Bytes, \A c \in Counters : f[c] = g[c]
    PROVE  f = g
BY DEF Bytes

LEMMA BlankStepOne ==
    ASSUME KeepInv, [Next]_vars, NEW c \in Counters
    PROVE  cum'[c] <= used'[c] /\ Blank(c)'
<1>a. TypeOK /\ cum[c] <= used[c] /\ Blank(c)
    BY DEF KeepInv
<1>c. /\ {cum[c], lastSeen[c], pending[c], report[c], final[c]} \subseteq Nat
      /\ {billed[c], used[c], unread[c], twice[c]} \subseteq Nat
    BY <1>a DEF TypeOK, Bytes
<1> USE DEF Blank, NoBytes, Plus
<1>1. CASE \E b \in Counters : Carry(b)
    <2>1. PICK b \in Counters : Carry(b)
        BY <1>1
    <2>2. UNCHANGED <<lastSeen, pending, push, report, final, billed, twice, up>>
        BY <2>1 DEF Carry, tracker, service
    <2>3. CASE b = c
        <3>1. cum'[c] = cum[c] + 1 /\ used'[c] = used[c] + 1
            BY <2>1, <2>3, <1>a DEF Carry, TypeOK, Bytes
        <3> QED
            BY <3>1, <2>2, <1>a, <1>c
    <2>4. CASE b # c
        <3>1. cum'[c] = cum[c] /\ used'[c] = used[c]
            BY <2>1, <2>4, <1>a DEF Carry, TypeOK, Bytes
        <3> QED
            BY <3>1, <2>2, <1>a, <1>c
    <2> QED
        BY <2>3, <2>4
<1>2. CASE KernelRestart
    BY <1>2, <1>a, <1>c DEF KernelRestart, tracker, service
<1>3. CASE Process
    <2>1. /\ lastSeen'[c] = IF InTraffic(c) THEN cum[c] ELSE lastSeen[c]
          /\ pending'[c] = IF InTraffic(c) THEN pending[c] + Delta(c) ELSE pending[c]
          /\ UNCHANGED <<cum, push, report, final, billed, used, twice, up>>
        BY <1>3 DEF Process, service
    <2>2. used[c] = 0 => Delta(c) = 0
        BY <1>a, <1>c DEF Delta
    <2> QED
        BY <2>1, <2>2, <1>a, <1>c
<1>4. CASE FlushPush
    BY <1>4, <1>a, <1>c DEF FlushPush, history
<1>5. CASE SkipPush
    BY <1>5, <1>a, <1>c DEF SkipPush, history, tracker
<1>6. CASE Book
    BY <1>6, <1>a, <1>c DEF Book, history, tracker
<1>7. CASE Answer
    BY <1>7, <1>a, <1>c DEF Answer, history, tracker
<1>8. CASE FailPush
    BY <1>8, <1>a, <1>c DEF FailPush
<1>9. CASE Shutdown
    BY <1>9, <1>a, <1>c DEF Shutdown, history
<1>10. CASE BookFinal
    BY <1>10, <1>a, <1>c DEF BookFinal, history, tracker
<1>11. CASE Boot
    BY <1>11, <1>a, <1>c DEF Boot
<1>12. CASE UNCHANGED vars
    BY <1>12, <1>a, <1>c DEF vars, tracker, service, history
<1> QED
    BY <1>1, <1>2, <1>3, <1>4, <1>5, <1>6, <1>7, <1>8, <1>9, <1>10, <1>11, <1>12
    DEF Next

\* A step after which no byte is missing begins where none was; a restart is such
\* a step only if nothing was carried at all.
LEMMA WasWhole ==
    ASSUME KeepInv, [Next]_vars, cum' = used'
    PROVE  /\ cum = used
           /\ KernelRestart \/ Boot => \A c \in Counters : used[c] = 0
<1>a. TypeOK /\ \A c \in Counters : cum[c] <= used[c] /\ Blank(c)
    BY DEF KeepInv
<1>b. cum \in Bytes /\ used \in Bytes
    BY <1>a DEF TypeOK
<1>1. CASE \E b \in Counters : Carry(b)
    <2>1. PICK b \in Counters : Carry(b)
        BY <1>1
    <2>2. ASSUME NEW c \in Counters PROVE cum[c] = used[c]
        <3>1. cum'[c] = used'[c]
            OBVIOUS
        <3>2. CASE b = c
            <4>1. cum'[c] = cum[c] + 1 /\ used'[c] = used[c] + 1
                BY <2>1, <3>2, <1>b DEF Carry, Bytes
            <4>2. cum[c] \in Nat /\ used[c] \in Nat
                BY <1>b DEF Bytes
            <4> QED
                BY <4>1, <4>2, <3>1
        <3>3. CASE b # c
            BY <2>1, <3>1, <3>3, <1>b DEF Carry, Bytes
        <3> QED
            BY <3>2, <3>3
    <2>3. ~KernelRestart /\ ~Boot
        <3>1. used'[b] = used[b] + 1 /\ used[b] \in Nat /\ up
            BY <2>1, <1>b DEF Carry, Bytes
        <3>2. used'[b] # used[b]
            BY <3>1
        <3>3. used' # used
            BY <3>2
        <3> QED
            BY <3>1, <3>3 DEF KernelRestart, Boot
    <2> QED
        BY <2>2, <2>3, <1>b, SameBytes
<1>2. CASE KernelRestart \/ Boot
    <2>1. used = NoBytes
        BY <1>2 DEF KernelRestart, Boot
    <2>2. \A c \in Counters : used[c] = 0 /\ cum[c] = used[c]
        BY <2>1, <1>a DEF NoBytes, Blank
    <2> QED
        BY <2>2, <1>b, SameBytes
<1>3. CASE ~(\E b \in Counters : Carry(b)) /\ ~KernelRestart /\ ~Boot
    <2>1. cum' = cum /\ used' = used
        BY <1>3 DEF Next, Process, FlushPush, SkipPush, Book, Answer, FailPush,
                    Shutdown, BookFinal, vars, tracker, service, history
    <2> QED
        BY <2>1, <1>3
<1> QED
    BY <1>1, <1>2, <1>3

LEMMA KeepStepOne ==
    ASSUME TypeOK, [Next]_vars, NEW c \in Counters, Kept(c), Blank(c),
           KernelRestart \/ Boot => used[c] = 0
    PROVE  Kept(c)'
<1>a. TypeOK /\ Blank(c)
    OBVIOUS
<1>b. Kept(c)
    OBVIOUS
<1>c. /\ {cum[c], lastSeen[c], pending[c], report[c], final[c]} \subseteq Nat
      /\ {billed[c], used[c], unread[c], twice[c]} \subseteq Nat
    BY <1>a DEF TypeOK, Bytes
<1> USE DEF Kept, Underway, NoBytes, Plus
<1>1. CASE \E b \in Counters : Carry(b)
    <2>1. PICK b \in Counters : Carry(b)
        BY <1>1
    <2>2. UNCHANGED <<lastSeen, pending, push, report, final, billed, twice, up>>
        BY <2>1 DEF Carry, tracker, service
    <2>3. CASE b = c
        <3>1. cum'[c] = cum[c] + 1 /\ used'[c] = used[c] + 1
            BY <2>1, <2>3, <1>a DEF Carry, TypeOK, Bytes
        <3> QED
            BY <3>1, <2>2, <1>b, <1>c
    <2>4. CASE b # c
        <3>1. cum'[c] = cum[c] /\ used'[c] = used[c]
            BY <2>1, <2>4, <1>a DEF Carry, TypeOK, Bytes
        <3> QED
            BY <3>1, <2>2, <1>b, <1>c
    <2> QED
        BY <2>3, <2>4
<1>2. CASE Process
    <2>1. /\ lastSeen'[c] = IF InTraffic(c) THEN cum[c] ELSE lastSeen[c]
          /\ pending'[c] = IF InTraffic(c) THEN pending[c] + Delta(c) ELSE pending[c]
          /\ UNCHANGED <<cum, push, report, final, billed, used, twice, up>>
        BY <1>2 DEF Process, service
    <2>2. Delta(c) = cum[c] - lastSeen[c]
        BY <1>b, <1>c DEF Delta
    <2> QED
        BY <2>1, <2>2, <1>b, <1>c
<1>3. CASE FlushPush
    BY <1>3, <1>b, <1>c DEF FlushPush, history
<1>4. CASE SkipPush
    BY <1>4, <1>b, <1>c DEF SkipPush, history, tracker
<1>5. CASE Book
    BY <1>5, <1>b, <1>c DEF Book, history, tracker
<1>6. CASE Answer
    BY <1>6, <1>b, <1>c DEF Answer, history, tracker
<1>7. CASE FailPush
    <2>1. /\ pending'[c] = pending[c] + report[c]
          /\ twice'[c] = IF push = "booked" THEN twice[c] + report[c] ELSE twice[c]
          /\ report'[c] = 0
          /\ push' = "idle"
          /\ push # "idle"
          /\ UNCHANGED <<cum, lastSeen, final, billed, used>>
        BY <1>7 DEF FailPush
    <2>2. push \in {"sent", "booked"}
        BY <2>1, <1>a DEF TypeOK
    <2> QED
        BY <2>1, <2>2, <1>b, <1>c
<1>8. CASE BookFinal
    BY <1>8, <1>b, <1>c DEF BookFinal, history, tracker
<1>9. CASE UNCHANGED vars
    BY <1>9, <1>b, <1>c DEF vars, tracker, service, history
<1>10. CASE KernelRestart
    <2>1. used[c] = 0
        BY <1>10
    <2> QED
        BY <2>1, <1>10, <1>a DEF KernelRestart, Blank, tracker, service
<1>11. CASE Boot
    <2>1. used[c] = 0
        BY <1>11
    <2> QED
        BY <2>1, <1>11, <1>a DEF Boot, Blank
<1>12. CASE Shutdown
    BY <1>12, <1>a, <1>b, <1>c DEF Shutdown, Blank, history
<1> QED
    BY <1>1, <1>2, <1>3, <1>4, <1>5, <1>6, <1>7, <1>8, <1>9, <1>10, <1>11, <1>12
    DEF Next

LEMMA KeepStep == KeepInv /\ [Next]_vars => KeepInv'
<1> SUFFICES ASSUME KeepInv, [Next]_vars
             PROVE  KeepInv'
    OBVIOUS
<1>1. TypeOK'
    BY TypeStep DEF KeepInv
<1>2. ASSUME NEW c \in Counters
      PROVE  cum'[c] <= used'[c] /\ Blank(c)'
    BY BlankStepOne
<1>3. ASSUME cum' = used', NEW c \in Counters
      PROVE  Kept(c)'
    BY <1>3, WasWhole, KeepStepOne DEF KeepInv
<1>4. \A c \in Counters : cum'[c] <= used'[c] /\ Blank(c)'
    BY <1>2
<1>5. cum' = used' => \A c \in Counters : Kept(c)'
    BY <1>3
<1> QED
    BY <1>1, <1>4, <1>5 DEF KeepInv, Kept, Blank, Underway

LEMMA KeepEnough == KeepInv => Conserved
BY DEF KeepInv, Kept, Conserved

\* As long as no restart takes bytes away, every byte the kernel has counted is
\* booked, on its way to the panel, or still to be read, whichever reports fail.
THEOREM ConservedCorrect == Spec => []Conserved
<1>1. Spec => []KeepInv
    BY KeepInit, KeepStep, PTL DEF Spec
<1> QED
    BY <1>1, KeepEnough, PTL

-----------------------------------------------------------------------------
(* Devices: types *)

One(b) == IF b THEN 1 ELSE 0

\* A flush needs a change that the tracker has seen since the last.
Budget == flushes + One(live # lastHash) + One(alive # live) <= changes

\* What is under way or stored stands for a flush that has been.
Numbered ==
    /\ bodyNo <= flushes /\ storedNo <= flushes
    /\ \A i \in 1 .. Len(writeCh) : writeCh[i][1] <= flushes

DevicesInv == AliveTypeOK /\ Budget /\ Numbered

\* The assumption of AliveReport, as far as it is needed.
LEMMA AliveConstants ==
    WriteCap \in Nat \ {0} /\ MaxChanges \in Nat /\ MaxFailedRequests \in Nat
BY AliveAssumption DEF AliveAssumption

LEMMA DevicesInit == AliveInit => DevicesInv
<1> SUFFICES ASSUME AliveInit PROVE DevicesInv
    OBVIOUS
<1>1. WriteCap \in Nat \ {0} /\ MaxChanges \in Nat /\ MaxFailedRequests \in Nat
    BY AliveConstants
<1>2. writeCh = <<>> /\ Len(writeCh) = 0 /\ writeCh \in Seq(Nat \X SUBSET Devices)
    BY DEF AliveInit
<1>3. /\ alive = {} /\ live = {} /\ lastHash = {} /\ buf = {} /\ body = {} /\ stored = {}
      /\ changes = 0 /\ failedRequests = 0 /\ flushes = 0 /\ bodyNo = 0 /\ storedNo = 0
      /\ request = "idle" /\ ws = "down" /\ raced = FALSE /\ lost = FALSE
    BY DEF AliveInit
<1>4. AliveTypeOK
    <2>1. /\ {raced, lost} \subseteq BOOLEAN
          /\ {flushes, bodyNo, storedNo} \subseteq 0 .. MaxChanges
          /\ changes \in 0 .. MaxChanges /\ failedRequests \in 0 .. MaxFailedRequests
        <3>1. 0 \in 0 .. MaxChanges /\ 0 \in 0 .. MaxFailedRequests
            BY <1>1
        <3>2. raced \in BOOLEAN /\ lost \in BOOLEAN
            BY <1>3
        <3> QED
            BY <1>3, <3>1, <3>2
    <2>2. /\ alive \in SUBSET Devices /\ live \in SUBSET Devices /\ lastHash \in SUBSET Devices
          /\ buf \in SUBSET Devices /\ body \in SUBSET Devices /\ stored \in SUBSET Devices
        BY <1>3
    <2>3. writeCh \in Seq(Nat \X SUBSET Devices) /\ Len(writeCh) <= WriteCap
        BY <1>1, <1>2
    <2>4. request \in {"idle", "encoding", "sent"} /\ ws \in {"down", "opening", "up"}
        BY <1>3
    <2> QED
        BY <2>1, <2>2, <2>3, <2>4 DEF AliveTypeOK
<1>5. Budget /\ Numbered
    BY <1>2, <1>3 DEF Budget, Numbered, One
<1> QED
    BY <1>4, <1>5 DEF DevicesInv

LEMMA AliveFacts ==
    ASSUME DevicesInv
    PROVE  /\ flushes \in Nat /\ changes \in Nat /\ bodyNo \in Nat /\ storedNo \in Nat
           /\ changes <= MaxChanges /\ MaxChanges \in Nat
           /\ live \in SUBSET Devices /\ writeCh \in Seq(Nat \X SUBSET Devices)
BY AliveConstants DEF DevicesInv, AliveTypeOK

\* Devices that come and go, and the tracker that sees them.
LEMMA DevicesCome ==
    ASSUME DevicesInv,
           ProcessAlive \/ \E d \in Devices : Come(d) \/ Leave(d)
    PROVE  DevicesInv'
<1>1. UNCHANGED <<lastHash, flushes, http, socket, panel, buf, lost, raced>>
    BY DEF ProcessAlive, Come, Leave, aliveTracker, flushed
<1>2. \/ changes' = changes /\ live' = alive /\ alive' = alive
      \/ /\ changes < MaxChanges /\ changes' = changes + 1 /\ live' = live
         /\ alive' \in SUBSET Devices
    BY DEF ProcessAlive, Come, Leave, aliveTracker, DevicesInv, AliveTypeOK
<1>3. Budget'
    BY <1>1, <1>2, AliveFacts DEF Budget, One, DevicesInv
<1>4. AliveTypeOK'
    BY <1>1, <1>2, AliveFacts DEF AliveTypeOK, DevicesInv, http, socket, panel
<1>5. Numbered'
    BY <1>1 DEF Numbered, DevicesInv, http, socket, panel
<1> QED
    BY <1>3, <1>4, <1>5 DEF DevicesInv

\* A flush has a number within the bound, and hands out what the tracker has.
LEMMA FlushBounded ==
    ASSUME DevicesInv, Changed, Flush,
           UNCHANGED <<alive, changes>>
    PROVE  /\ flushes' = flushes + 1 /\ flushes' \in 0 .. MaxChanges /\ Budget'
           /\ lastHash' = live /\ buf' = live /\ live' = live
           /\ raced' \in BOOLEAN
<1>1. Budget /\ flushes \in Nat /\ changes \in Nat /\ changes <= MaxChanges
      /\ MaxChanges \in Nat
    BY AliveFacts DEF DevicesInv
<1>2. /\ live # lastHash /\ flushes' = flushes + 1
      /\ lastHash' = live /\ buf' = live /\ live' = live
      /\ raced' = (raced \/ request = "encoding")
    BY DEF Changed, Flush
<1>3. flushes + 1 + One(alive # live) <= changes
    BY <1>1, <1>2 DEF Budget, One
<1>4. flushes' \in 0 .. MaxChanges
    BY <1>1, <1>2, <1>3 DEF One
<1>5. Budget'
    BY <1>1, <1>2, <1>3 DEF Budget, One
<1>6. raced' \in BOOLEAN
    BY <1>2 DEF DevicesInv, AliveTypeOK
<1> QED
    BY <1>2, <1>4, <1>5, <1>6

LEMMA DevicesPush ==
    ASSUME DevicesInv, PushReport
    PROVE  DevicesInv'
<1>1. /\ Changed /\ Flush /\ request' = "encoding" /\ bodyNo' = flushes + 1
      /\ UNCHANGED <<alive, changes, body, failedRequests, ws, writeCh, stored, storedNo, lost>>
    BY DEF PushReport, socket, panel
<1>2. /\ flushes' = flushes + 1 /\ flushes' \in 0 .. MaxChanges /\ Budget'
      /\ lastHash' = live /\ buf' = live /\ live' = live /\ raced' \in BOOLEAN
    BY <1>1, FlushBounded
<1>3. AliveTypeOK'
    BY <1>1, <1>2, AliveFacts DEF AliveTypeOK, DevicesInv
<1>4. Numbered'
    BY <1>1, <1>2, AliveFacts DEF Numbered, DevicesInv
<1> QED
    BY <1>2, <1>3, <1>4 DEF DevicesInv

LEMMA DevicesHttp ==
    ASSUME DevicesInv,
           Encode \/ Deliver \/ FailRequest \/ Lapse
    PROVE  DevicesInv'
<1>1. /\ UNCHANGED <<alive, changes, live, lastHash, buf, raced, flushes, bodyNo, ws, writeCh>>
      /\ request' \in {"idle", "encoding", "sent"}
      /\ body' \in {body, buf, {}} /\ stored' \in {stored, body, {}}
      /\ storedNo' \in {storedNo, bodyNo} /\ lost' \in BOOLEAN
    BY DEF Encode, Deliver, FailRequest, Lapse, Store, aliveTracker,
           http, socket, panel, flushed, DevicesInv, AliveTypeOK
<1>2. failedRequests' \in 0 .. MaxFailedRequests
    BY AliveConstants DEF Encode, Deliver, FailRequest, Lapse, http,
           DevicesInv, AliveTypeOK
<1>3. AliveTypeOK'
    BY <1>1, <1>2, AliveFacts DEF AliveTypeOK, DevicesInv
<1>4. Budget' /\ Numbered'
    BY <1>1 DEF Budget, Numbered, DevicesInv
<1> QED
    BY <1>3, <1>4 DEF DevicesInv

\* A message that joins the channel, and one that leaves it.
LEMMA ChannelAppend ==
    ASSUME NEW s \in Seq(Nat \X SUBSET Devices), NEW m \in Nat \X SUBSET Devices
    PROVE  /\ Append(s, m) \in Seq(Nat \X SUBSET Devices)
           /\ Len(Append(s, m)) = Len(s) + 1
           /\ \A i \in 1 .. Len(s) : Append(s, m)[i] = s[i]
           /\ Append(s, m)[Len(s) + 1] = m
OBVIOUS

LEMMA ChannelTail ==
    ASSUME NEW s \in Seq(Nat \X SUBSET Devices), s # <<>>
    PROVE  /\ Head(s) \in Nat \X SUBSET Devices /\ Head(s) = s[1]
           /\ Tail(s) \in Seq(Nat \X SUBSET Devices)
           /\ Len(Tail(s)) = Len(s) - 1 /\ Len(s) \in Nat \ {0}
           /\ \A i \in 1 .. Len(s) - 1 : Tail(s)[i] = s[i + 1]
OBVIOUS

LEMMA DevicesReport ==
    ASSUME DevicesInv, DeviceReport
    PROVE  DevicesInv'
<1>1. /\ Changed /\ Flush
      /\ UNCHANGED <<alive, changes, request, body, bodyNo, failedRequests, ws, stored, storedNo>>
      /\ lost' \in {lost, TRUE}
      /\ \/ writeCh' = writeCh
         \/ Len(writeCh) < WriteCap /\ writeCh' = Append(writeCh, <<flushes + 1, live>>)
    BY DEF DeviceReport, http, panel
<1>2. /\ flushes' = flushes + 1 /\ flushes' \in 0 .. MaxChanges /\ Budget'
      /\ lastHash' = live /\ buf' = live /\ live' = live /\ raced' \in BOOLEAN
    BY <1>1, FlushBounded
<1>3. flushes \in Nat /\ <<flushes + 1, live>> \in Nat \X SUBSET Devices
    BY AliveFacts
<1>4. Len(writeCh) \in Nat /\ WriteCap \in Nat
    BY AliveFacts, AliveConstants
<1>5. writeCh' \in Seq(Nat \X SUBSET Devices) /\ Len(writeCh') <= WriteCap
    <2>1. CASE writeCh' = writeCh
        BY <2>1 DEF DevicesInv, AliveTypeOK
    <2>2. CASE Len(writeCh) < WriteCap /\ writeCh' = Append(writeCh, <<flushes + 1, live>>)
        BY <1>3, <1>4, <2>2, AliveFacts, ChannelAppend
    <2> QED
        BY <1>1, <2>1, <2>2
<1>6. AliveTypeOK'
    BY <1>1, <1>2, <1>5, AliveFacts DEF AliveTypeOK, DevicesInv
<1>7. Numbered'
    <2>1. bodyNo' <= flushes' /\ storedNo' <= flushes'
        BY <1>1, <1>2, AliveFacts DEF Numbered, DevicesInv
    <2>2. ASSUME NEW i \in 1 .. Len(writeCh') PROVE writeCh'[i][1] <= flushes'
        <3>1. i \in 1 .. Len(writeCh) => writeCh[i][1] \in Nat /\ writeCh[i][1] <= flushes
            BY AliveFacts DEF Numbered, DevicesInv
        <3>2. CASE writeCh' = writeCh
            BY <1>2, <1>3, <3>1, <3>2
        <3>3. CASE writeCh' = Append(writeCh, <<flushes + 1, live>>)
            <4>1. CASE i = Len(writeCh) + 1
                BY <1>2, <1>3, <3>3, <4>1, AliveFacts, ChannelAppend
            <4>2. CASE i # Len(writeCh) + 1
                <5>1. i \in 1 .. Len(writeCh) /\ writeCh'[i] = writeCh[i]
                    BY <1>3, <1>4, <3>3, <4>2, AliveFacts, ChannelAppend
                <5> QED
                    BY <1>2, <1>3, <3>1, <5>1
            <4> QED
                BY <4>1, <4>2
        <3> QED
            BY <1>1, <3>2, <3>3
    <2> QED
        BY <2>1, <2>2 DEF Numbered
<1> QED
    BY <1>2, <1>6, <1>7 DEF DevicesInv

LEMMA DevicesWrite ==
    ASSUME DevicesInv, WsWrite
    PROVE  DevicesInv'
<1>1. /\ UNCHANGED <<alive, changes, live, lastHash, buf, raced, flushes, request, body,
                     bodyNo, failedRequests, ws>>
      /\ writeCh # <<>> /\ writeCh' = Tail(writeCh)
      /\ storedNo' = Head(writeCh)[1] /\ stored' = Head(writeCh)[2]
      /\ lost' = (lost \/ Head(writeCh)[1] < storedNo)
    BY DEF WsWrite, Store, aliveTracker, http, flushed
<1>2. /\ Head(writeCh) \in Nat \X SUBSET Devices /\ Head(writeCh) = writeCh[1]
      /\ writeCh' \in Seq(Nat \X SUBSET Devices)
      /\ Len(writeCh') = Len(writeCh) - 1 /\ Len(writeCh) \in Nat \ {0}
      /\ \A i \in 1 .. Len(writeCh) - 1 : writeCh'[i] = writeCh[i + 1]
    BY <1>1, AliveFacts, ChannelTail
<1>3. storedNo' \in Nat /\ storedNo' <= flushes /\ stored' \in SUBSET Devices
    BY <1>1, <1>2 DEF Numbered, DevicesInv
<1>4. Numbered'
    BY <1>1, <1>2, <1>3 DEF Numbered, DevicesInv
<1>5. AliveTypeOK'
    <2>1. Len(writeCh') <= WriteCap /\ lost' \in BOOLEAN /\ storedNo' \in 0 .. MaxChanges
        BY <1>1, <1>2, <1>3, AliveFacts, AliveConstants DEF DevicesInv, AliveTypeOK
    <2> QED
        BY <1>1, <1>2, <1>3, <2>1 DEF DevicesInv, AliveTypeOK
<1> QED
    BY <1>1, <1>4, <1>5 DEF DevicesInv, Budget

LEMMA DevicesSocket ==
    ASSUME DevicesInv, WsConnect \/ WsOpen \/ WsDrop
    PROVE  DevicesInv'
<1>1. /\ UNCHANGED <<alive, changes, live, lastHash, buf, raced, flushes, request, body,
                     bodyNo, failedRequests, stored, storedNo>>
      /\ ws' \in {"down", "opening", "up"} /\ writeCh' \in {writeCh, <<>>}
      /\ lost' \in BOOLEAN
    BY DEF WsConnect, WsOpen, WsDrop, aliveTracker, http, panel,
           flushed, DevicesInv, AliveTypeOK
<1>2. /\ writeCh' \in Seq(Nat \X SUBSET Devices) /\ Len(writeCh') <= WriteCap
      /\ \A i \in 1 .. Len(writeCh') : writeCh'[i][1] <= flushes
    <2>1. CASE writeCh' = writeCh
        BY <2>1 DEF DevicesInv, AliveTypeOK, Numbered
    <2>2. CASE writeCh' = <<>>
        BY <2>2, AliveConstants
    <2> QED
        BY <1>1, <2>1, <2>2
<1> QED
    BY <1>1, <1>2 DEF DevicesInv, AliveTypeOK, Budget, Numbered

LEMMA DevicesStep ==
    ASSUME DevicesInv, [AliveNext]_aliveVars
    PROVE  DevicesInv'
<1>1. CASE UNCHANGED aliveVars
    BY <1>1 DEF aliveVars, aliveTracker, http, socket, panel, flushed, DevicesInv,
           AliveTypeOK, Budget, Numbered
<1> QED
    BY <1>1, DevicesCome, DevicesPush, DevicesHttp, DevicesReport, DevicesWrite, DevicesSocket
       DEF AliveNext

\* The sets and numbers of the devices' half stay within their types and bounds;
\* in particular no more is flushed than has changed.
THEOREM AliveTypeCorrect == AliveSpec => []AliveTypeOK
<1>1. AliveInit => DevicesInv
    BY DevicesInit
<1>2. DevicesInv /\ [AliveNext]_aliveVars => DevicesInv'
    BY DevicesStep
<1>3. DevicesInv => AliveTypeOK
    BY DEF DevicesInv
<1> QED
    BY <1>1, <1>2, <1>3, PTL DEF AliveSpec

-----------------------------------------------------------------------------
(* Devices: what the panel has *)

\* Whatever stands for the last flush has the devices of that flush.
Newest ==
    /\ buf = lastHash
    /\ request = "sent" /\ bodyNo = flushes => body = lastHash
    /\ \A i \in 1 .. Len(writeCh) : writeCh[i][1] = flushes => writeCh[i][2] = lastHash

Waiting == \E i \in 1 .. Len(writeCh) : writeCh[i][1] = flushes

\* The last flush is stored, with the HTTP report or in the channel.
Held ==
    ~lost => \/ storedNo = flushes /\ stored = lastHash
             \/ request # "idle" /\ bodyNo = flushes
             \/ Waiting

LossInv == DevicesInv /\ Newest /\ Held

LEMMA LossInit == AliveInit => LossInv
<1> SUFFICES ASSUME AliveInit PROVE LossInv
    OBVIOUS
<1>1. DevicesInv
    BY DevicesInit
<1>2. writeCh = <<>> /\ Len(writeCh) = 0
    BY DEF AliveInit
<1>3. /\ lastHash = {} /\ buf = {} /\ stored = {} /\ flushes = 0 /\ storedNo = 0
      /\ request = "idle"
    BY DEF AliveInit
<1> QED
    BY <1>1, <1>2, <1>3 DEF LossInv, Newest, Held

\* Nothing of what Newest and Held speak of moves, or it is lost.
LEMMA LossQuiet ==
    ASSUME Newest, Held,
           UNCHANGED <<lastHash, buf, flushes, bodyNo, request, body, writeCh, storedNo>>,
           lost' \/ (lost' = lost /\ stored' = stored)
    PROVE  Newest' /\ Held'
BY DEF Newest, Held, Waiting

LEMMA LossPush ==
    ASSUME LossInv, PushReport
    PROVE  Newest' /\ Held'
<1>1. /\ flushes' = flushes + 1 /\ lastHash' = live /\ buf' = live
      /\ request' = "encoding" /\ bodyNo' = flushes + 1 /\ writeCh' = writeCh
    BY DEF PushReport, Flush, socket
<1>2. /\ flushes \in Nat /\ writeCh \in Seq(Nat \X SUBSET Devices)
      /\ \A i \in 1 .. Len(writeCh) : writeCh[i][1] <= flushes
    BY AliveFacts DEF LossInv, DevicesInv, Numbered
<1>3. \A i \in 1 .. Len(writeCh') : writeCh'[i][1] # flushes'
    BY <1>1, <1>2
<1> QED
    BY <1>1, <1>3 DEF Newest, Held

\* What the panel takes over is the last flush, if what it had was.
LEMMA StoreNewest ==
    ASSUME DevicesInv, NEW no \in Nat, NEW devices, no <= flushes,
           Store(no, devices), no = flushes => devices = lastHash,
           ~lost', storedNo = flushes \/ no = flushes
    PROVE  storedNo' = flushes /\ stored' = lastHash
<1>1. flushes \in Nat /\ storedNo \in Nat
    BY AliveFacts
<1>2. storedNo' = no /\ stored' = devices /\ (no < storedNo => lost')
    BY DEF Store
<1>3. ~(no < storedNo)
    BY <1>2
<1> QED
    BY <1>1, <1>2, <1>3

LEMMA LossHttp ==
    ASSUME LossInv, Encode \/ Deliver \/ FailRequest
    PROVE  Newest' /\ Held'
<1>1. UNCHANGED <<lastHash, buf, flushes, bodyNo, writeCh>>
    BY DEF Encode, Deliver, FailRequest, aliveTracker, flushed,
           socket
<1>2. CASE Encode
    <2>1. /\ request = "encoding" /\ request' = "sent" /\ body' = buf
          /\ UNCHANGED <<stored, storedNo, lost>>
        BY <1>2 DEF Encode, panel
    <2> QED
        BY <1>1, <2>1 DEF LossInv, Newest, Held, Waiting
<1>3. CASE Deliver
    <2>1. /\ request = "sent" /\ request' = "idle"
          /\ (lost' \/ Store(bodyNo, body))
        BY <1>3 DEF Deliver
    <2>2. Newest'
        BY <1>1, <2>1 DEF LossInv, Newest
    <2>3. ASSUME ~lost' PROVE (storedNo' = flushes /\ stored' = lastHash) \/ Waiting
        <3>1. Store(bodyNo, body) /\ ~lost
            BY <2>1, <2>3 DEF Store
        <3>2. bodyNo \in Nat /\ bodyNo <= flushes
            BY AliveFacts DEF LossInv, DevicesInv, Numbered
        <3>3. bodyNo = flushes => body = lastHash
            BY <2>1 DEF LossInv, Newest
        <3>4. storedNo = flushes \/ bodyNo = flushes \/ Waiting
            BY <3>1 DEF LossInv, Held
        <3> QED
            BY <2>3, <3>1, <3>2, <3>3, <3>4, StoreNewest DEF LossInv
    <2>4. Held'
        BY <1>1, <2>3 DEF Held, Waiting
    <2> QED
        BY <2>2, <2>4
<1>4. CASE FailRequest
    <2>1. request' = "idle" /\ lost'
        BY <1>4 DEF FailRequest
    <2> QED
        BY <1>1, <2>1 DEF LossInv, Newest, Held
<1> QED
    BY <1>2, <1>3, <1>4

LEMMA LossReport ==
    ASSUME LossInv, DeviceReport
    PROVE  Newest' /\ Held'
<1> DEFINE message == <<flushes + 1, live>>
<1>1. /\ flushes' = flushes + 1 /\ lastHash' = live /\ buf' = live
      /\ UNCHANGED <<request, body, bodyNo>>
      /\ (writeCh' = writeCh /\ lost') \/ writeCh' = Append(writeCh, message)
    BY DEF DeviceReport, Flush, http
<1>2. /\ flushes \in Nat /\ writeCh \in Seq(Nat \X SUBSET Devices)
      /\ Len(writeCh) \in Nat /\ message \in Nat \X SUBSET Devices
      /\ message[1] = flushes + 1 /\ message[2] = live
    BY AliveFacts DEF LossInv
<1>3. /\ bodyNo \in Nat /\ bodyNo <= flushes
      /\ \A i \in 1 .. Len(writeCh) : writeCh[i][1] \in Nat /\ writeCh[i][1] <= flushes
    BY <1>2, AliveFacts DEF LossInv, DevicesInv, Numbered
<1> HIDE DEF message
<1>4. CASE writeCh' = writeCh /\ lost'
    <2>1. \A i \in 1 .. Len(writeCh') : writeCh'[i][1] # flushes'
        BY <1>1, <1>2, <1>3, <1>4
    <2>2. bodyNo' # flushes'
        BY <1>1, <1>2, <1>3
    <2> QED
        BY <1>1, <1>4, <2>1, <2>2 DEF Newest, Held
<1>5. CASE writeCh' = Append(writeCh, message)
    <2>1. /\ Len(writeCh') = Len(writeCh) + 1 /\ writeCh'[Len(writeCh) + 1] = message
          /\ \A i \in 1 .. Len(writeCh) : writeCh'[i] = writeCh[i]
        BY <1>2, <1>5, ChannelAppend
    <2>2. ASSUME NEW i \in 1 .. Len(writeCh'), writeCh'[i][1] = flushes'
          PROVE  writeCh'[i][2] = lastHash'
        <3>1. CASE i = Len(writeCh) + 1
            BY <1>1, <1>2, <2>1, <3>1
        <3>2. CASE i # Len(writeCh) + 1
            <4>1. i \in 1 .. Len(writeCh) /\ writeCh'[i] = writeCh[i]
                BY <1>2, <2>1, <3>2
            <4>2. writeCh[i][1] \in Nat /\ writeCh[i][1] <= flushes
                BY <1>3, <4>1
            <4>3. writeCh[i][1] = flushes + 1
                BY <1>1, <2>2, <4>1
            <4> QED
                BY <1>2, <4>2, <4>3
        <3> QED
            BY <3>1, <3>2
    <2>3. bodyNo' # flushes'
        BY <1>1, <1>2, <1>3
    <2>4. Waiting'
        <3>1. Len(writeCh) + 1 \in 1 .. Len(writeCh')
            BY <1>2, <2>1
        <3> QED
            BY <1>1, <1>2, <2>1, <3>1 DEF Waiting
    <2> QED
        BY <1>1, <2>2, <2>3, <2>4 DEF Newest, Held
<1> QED
    BY <1>1, <1>4, <1>5

LEMMA LossWrite ==
    ASSUME LossInv, WsWrite
    PROVE  Newest' /\ Held'
<1>1. /\ UNCHANGED <<lastHash, buf, flushes, request, body, bodyNo>>
      /\ writeCh # <<>> /\ writeCh' = Tail(writeCh)
      /\ Store(Head(writeCh)[1], Head(writeCh)[2])
    BY DEF WsWrite, aliveTracker, http, flushed
<1>2. /\ Head(writeCh) \in Nat \X SUBSET Devices /\ Head(writeCh) = writeCh[1]
      /\ Len(writeCh') = Len(writeCh) - 1 /\ Len(writeCh) \in Nat \ {0}
      /\ \A i \in 1 .. Len(writeCh) - 1 : writeCh'[i] = writeCh[i + 1]
    BY <1>1, AliveFacts, ChannelTail DEF LossInv
<1>3. \A i \in 1 .. Len(writeCh') : i + 1 \in 1 .. Len(writeCh)
    BY <1>2
<1>4. Newest'
    BY <1>1, <1>2, <1>3 DEF LossInv, Newest
<1>5. ASSUME ~lost'
      PROVE  \/ storedNo' = flushes /\ stored' = lastHash
             \/ request # "idle" /\ bodyNo = flushes
             \/ Waiting'
    <2>1. ~lost
        BY <1>1, <1>5 DEF Store
    <2>2. Head(writeCh)[1] \in Nat /\ Head(writeCh)[1] <= flushes
        BY <1>2 DEF LossInv, DevicesInv, Numbered
    <2>3. Head(writeCh)[1] = flushes => Head(writeCh)[2] = lastHash
        BY <1>2 DEF LossInv, Newest
    <2>4. CASE storedNo = flushes \/ Head(writeCh)[1] = flushes
        BY <1>1, <1>5, <2>2, <2>3, <2>4, StoreNewest DEF LossInv
    <2>5. CASE request # "idle" /\ bodyNo = flushes
        BY <2>5
    <2>6. CASE Waiting /\ Head(writeCh)[1] # flushes
        <3>1. PICK i \in 1 .. Len(writeCh) : writeCh[i][1] = flushes
            BY <2>6 DEF Waiting
        <3>2. i # 1
            BY <1>2, <2>6, <3>1
        <3>3. i - 1 \in 1 .. Len(writeCh') /\ writeCh'[i - 1] = writeCh[i]
            BY <1>2, <3>2
        <3> QED
            BY <1>1, <3>1, <3>3 DEF Waiting
    <2> QED
        BY <2>1, <2>4, <2>5, <2>6 DEF LossInv, Held
<1> QED
    BY <1>1, <1>4, <1>5 DEF Held

LEMMA LossDrop ==
    ASSUME LossInv, WsDrop
    PROVE  Newest' /\ Held'
<1>1. /\ UNCHANGED <<lastHash, buf, flushes, request, body, bodyNo, stored, storedNo>>
      /\ writeCh' = <<>> /\ lost' = (lost \/ writeCh # <<>>)
    BY DEF WsDrop, aliveTracker, http, panel, flushed
<1>2. Newest'
    BY <1>1 DEF LossInv, Newest
<1>3. ASSUME ~lost' PROVE ~lost /\ writeCh' = writeCh
    BY <1>1, <1>3
<1> QED
    BY <1>1, <1>2, <1>3 DEF LossInv, Held, Waiting

LEMMA LossStep ==
    ASSUME LossInv, [AliveNext]_aliveVars
    PROVE  LossInv'
<1>1. DevicesInv'
    BY DevicesStep DEF LossInv
<1>2. CASE \/ UNCHANGED aliveVars \/ ProcessAlive \/ WsConnect \/ WsOpen
           \/ Lapse \/ \E d \in Devices : Come(d) \/ Leave(d)
    <2>1. /\ UNCHANGED <<lastHash, buf, flushes, bodyNo, request, body, writeCh, storedNo>>
          /\ lost' \/ (lost' = lost /\ stored' = stored)
        BY <1>2 DEF aliveVars, ProcessAlive, WsConnect, WsOpen, Lapse,
               Come, Leave, aliveTracker, http, socket, panel,
               flushed
    <2> QED
        BY <1>1, <2>1, LossQuiet DEF LossInv
<1>3. CASE PushReport \/ Encode \/ Deliver \/ FailRequest
    BY <1>1, <1>3, LossPush, LossHttp DEF LossInv
<1>4. CASE DeviceReport \/ WsWrite \/ WsDrop
    BY <1>1, <1>4, LossReport, LossWrite, LossDrop DEF LossInv
<1> QED
    BY <1>2, <1>3, <1>4 DEF AliveNext

LEMMA LossEnough == LossInv => WrongOnlyAfterLoss
<1>1. writeCh = <<>> => ~Waiting
    BY DEF Waiting
<1> QED
    BY <1>1 DEF LossInv, Held, WrongOnlyAfterLoss

\* Between two tickers that share one hash and one buffer, a goroutine, and a
\* channel, nothing gets lost silently: once nothing is under way the panel has
\* the devices handed out last, unless a report was lost, overtaken or left out.
THEOREM LossCorrect == AliveSpec => []WrongOnlyAfterLoss
<1>1. AliveInit => LossInv
    BY LossInit
<1>2. LossInv /\ [AliveNext]_aliveVars => LossInv'
    BY LossStep
<1>3. LossInv => WrongOnlyAfterLoss
    BY LossEnough
<1> QED
    BY <1>1, <1>2, <1>3, PTL DEF AliveSpec
=============================================================================
