---------------------------- MODULE OrdersProofs ----------------------------
(***************************************************************************)
(* Theorems about Orders for any number of orders, commissions, workers    *)
(* and failures: the types are right, the balance never goes below zero,   *)
(* and only a write over what another worker has written meanwhile does    *)
(* any harm.                                                               *)
(***************************************************************************)
EXTENDS Orders, TLAPS

Row == [status : Status, total : 0 .. Price, balance : 0 .. Price,
        refund : {0, Refund}, surplus : SUBSET OrderIds]

Task == [pc : {"idle", "save", "pay", "handle", "cancel", "open", "opening", "commission"},
         on : OrderIds \cup Commissions \cup {Nobody},
         status : Status, balance : Int]

\* An order is worked on in these stages, a commission in one.
OnOrder == {"pay", "handle", "cancel", "open", "opening"}

Busy(t) ==
    /\ t.on \in OrderIds <=> t.pc \in OnOrder
    /\ t.on \in Commissions <=> t.pc = "commission"

-----------------------------------------------------------------------------
(* Types *)

\* What TypeOK says, with names.
LEMMA TypeParts ==
    /\ TypeOK <=>
           /\ order \in [OrderIds -> Row]
           /\ worker \in [Workers -> Task]
           /\ \A w \in Workers : Busy(worker[w])
           /\ old \subseteq OrderIds /\ charged \subseteq OrderIds
           /\ balance \in Int /\ owed \in Int
           /\ paidOut \subseteq Commissions
           /\ failures \in 0 .. MaxFailures
           /\ opened \in [OrderIds -> Nat]
           /\ returned \in [OrderIds -> Nat]
           /\ discounted \in [OrderIds -> Nat]
           /\ overlap \in BOOLEAN
BY DEF TypeOK, Row, Task, Busy, OnOrder

\* What is spent is part of the price, and not more than the balance.
LEMMA SpendType ==
    ASSUME NEW saw \in Int, NEW offer \in Row
    PROVE  /\ Spend(offer, saw) \in 0 .. offer.total
           /\ Spend(offer, saw) \in Nat
           /\ offer.total - Spend(offer, saw) \in 0 .. Price
           /\ Spend(offer, saw) \in 0 .. Price
BY OrdersAssumption DEF Spend, Row

\* Every offer is a row.
LEMMA OfferType ==
    ASSUME NEW offer \in Offers
    PROVE  offer \in Row /\ offer.status = "pending"
BY OrdersAssumption DEF Offers, Row, Status, Completed

\* Prices are numbers, and commissions are no orders.
LEMMA Constants ==
    /\ Price \in Nat /\ Share \in Nat /\ Refund \in Nat /\ Deposit \in Nat
    /\ MaxFailures \in Nat
    /\ Nobody \notin OrderIds /\ Nobody \notin Commissions
    /\ \A c \in Commissions : c \notin OrderIds
BY OrdersAssumption

LEMMA TypeInit == Init => TypeOK
<1> SUFFICES ASSUME Init PROVE TypeOK
    OBVIOUS
<1>1. Unset \in Row
    BY Constants DEF Unset, Row, Status
<1>2. Idle \in Task /\ Busy(Idle)
    BY Constants DEF Idle, Turn, Task, Busy, OnOrder, Status
<1>3. worker \in [Workers -> Task] /\ \A w \in Workers : Busy(worker[w])
    BY <1>2 DEF Init
<1>4. order \in [OrderIds -> Row]
    BY <1>1 DEF Init
<1>5. /\ opened \in [OrderIds -> Nat]
      /\ returned \in [OrderIds -> Nat]
      /\ discounted \in [OrderIds -> Nat]
      /\ balance \in Int /\ owed \in Int /\ failures \in 0 .. MaxFailures
    BY Constants DEF Init
<1>6. overlap \in BOOLEAN /\ old \subseteq OrderIds /\ charged \subseteq OrderIds
      /\ paidOut \subseteq Commissions
    BY DEF Init
<1> QED
    BY <1>3, <1>4, <1>5, <1>6, TypeParts

\* A worker begins or goes on, and keeps to its stages.
LEMMA WorkType ==
    ASSUME TypeOK, NEW w \in Workers, NEW t \in Task, Busy(t), Work(w, t)
    PROVE  worker' \in [Workers -> Task] /\ \A v \in Workers : Busy(worker'[v])
BY TypeParts DEF Work

LEMMA FinishType ==
    ASSUME TypeOK, NEW w \in Workers, Finish(w)
    PROVE  worker' \in [Workers -> Task] /\ \A v \in Workers : Busy(worker'[v])
<1>1. Idle \in Task /\ Busy(Idle)
    BY OrdersAssumption DEF Idle, Turn, Task, Busy, OnOrder, Status
<1> QED
    BY <1>1, WorkType DEF Finish

\* A worker that is at work on an order.
LEMMA OrderOfType ==
    ASSUME TypeOK, NEW w \in Workers, worker[w].pc \in OnOrder
    PROVE  OrderOf(w) \in OrderIds
BY TypeParts DEF OrderOf, Busy

\* What a turn is for an order ...
LEMMA TurnType ==
    ASSUME NEW pc \in OnOrder, NEW o \in OrderIds, NEW s \in Status, NEW m \in Int
    PROVE  Turn(pc, o, s, m) \in Task /\ Busy(Turn(pc, o, s, m))
BY Constants DEF Turn, Task, Busy, OnOrder

\* ... and for none.
LEMMA OtherTurnType ==
    ASSUME NEW pc \in {"save", "commission"}, NEW c \in Commissions \cup {Nobody},
           c = Nobody <=> pc = "save", NEW m \in Int
    PROVE  Turn(pc, c, "none", m) \in Task /\ Busy(Turn(pc, c, "none", m))
BY OrdersAssumption DEF Turn, Task, Busy, OnOrder, Status

\* A request, callback or job that begins changes only its worker.
LEMMA TypeStart ==
    ASSUME TypeOK, NEW w \in Workers,
           \/ StartSave(w)
           \/ \E o \in OrderIds : StartPay(w, o) \/ StartJob(w, o) \/ StartCancel(w, o)
           \/ \E c \in Commissions : StartCommission(w, c)
    PROVE  TypeOK'
<1>1. worker' \in [Workers -> Task] /\ \A v \in Workers : Busy(worker'[v])
    <2>1. CASE StartSave(w)
        BY <2>1, TypeParts, OtherTurnType, WorkType DEF StartSave
    <2>2. ASSUME NEW o \in OrderIds, StartPay(w, o) PROVE <1>1
        BY <2>2, TypeParts, TurnType, WorkType DEF StartPay, OnOrder, Status
    <2>3. ASSUME NEW o \in OrderIds, StartJob(w, o) PROVE <1>1
        BY <2>3, TypeParts, TurnType, WorkType DEF StartJob, OnOrder, Status
    <2>4. ASSUME NEW o \in OrderIds, StartCancel(w, o) PROVE <1>1
        BY <2>4, TypeParts, TurnType, WorkType DEF StartCancel, OnOrder, Status
    <2>5. ASSUME NEW c \in Commissions, StartCommission(w, c) PROVE <1>1
        BY <2>5, TypeParts, Constants, OtherTurnType, WorkType DEF StartCommission
    <2> QED
        BY <2>1, <2>2, <2>3, <2>4, <2>5
<1>2. UNCHANGED <<order, old, charged, balance, paidOut, failures, owed, opened, returned,
                  discounted, overlap>>
    BY DEF StartSave, StartPay, StartJob, StartCancel, StartCommission, rows, history
<1> QED
    BY <1>1, <1>2, TypeParts DEF TypeOK, Task, Busy, OnOrder

LEMMA TypeSave == ASSUME TypeOK, NEW w \in Workers, Save(w) PROVE TypeOK'
<1>1. PICK o \in OrderIds, offer \in Offers :
          LET spent == Spend(offer, worker[w].balance)
          IN  /\ balance >= spent
              /\ order' = [order EXCEPT ![o] = [offer EXCEPT !.total = @ - spent,
                                                             !.balance = spent]]
              /\ balance' = balance - spent
              /\ owed' = owed - spent
    BY DEF Save
<1>2. PICK spent : spent = Spend(offer, worker[w].balance)
    OBVIOUS
<1>3. worker[w].balance \in Int
    BY TypeParts DEF Task
<1>4. /\ offer \in Row
      /\ spent \in 0 .. Price /\ spent \in Nat
      /\ offer.total - spent \in 0 .. Price
    BY <1>2, <1>3, SpendType, OfferType
<1>5. [offer EXCEPT !.total = @ - spent, !.balance = spent] \in Row
    BY <1>4 DEF Row
<1>6. order' \in [OrderIds -> Row]
    BY <1>1, <1>2, <1>5, TypeParts
<1>7. balance' \in Int /\ owed' \in Int
    BY <1>1, <1>2, <1>4, TypeParts
<1>8. worker' \in [Workers -> Task] /\ \A v \in Workers : Busy(worker'[v])
    BY FinishType DEF Save
<1>9. UNCHANGED <<paidOut, old, charged, failures, opened, returned, discounted>>
      /\ overlap' \in BOOLEAN
    BY DEF Save, Overlaps
<1> QED
    BY <1>6, <1>7, <1>8, <1>9, TypeParts DEF TypeOK, Row, Task, Busy, OnOrder

LEMMA TypePay == ASSUME TypeOK, NEW w \in Workers, Pay(w) PROVE TypeOK'
<1>1. PICK o \in OrderIds : o = OrderOf(w)
    BY OrderOfType DEF Pay, OnOrder
<1>2. /\ order' = [order EXCEPT ![o].status = "processing"]
      /\ Work(w, Turn("handle", o, "none", 0))
      /\ overlap' \in BOOLEAN
      /\ UNCHANGED <<balance, paidOut, old, charged, failures, owed, opened, returned,
                     discounted>>
    BY <1>1 DEF Pay, Overlaps
<1>3. worker' \in [Workers -> Task] /\ \A v \in Workers : Busy(worker'[v])
    BY <1>2, TurnType, WorkType DEF OnOrder, Status
<1>4. order' \in [OrderIds -> Row]
    BY <1>2, TypeParts DEF Row, Status
<1> QED
    BY <1>2, <1>3, <1>4, TypeParts DEF TypeOK, Row, Task, Busy, OnOrder

\* The job looks at its order, and the order that it opens at the user.
LEMMA TypeLook ==
    ASSUME TypeOK, NEW w \in Workers, Handle(w) \/ ReadUser(w)
    PROVE  TypeOK'
<1>1. PICK o \in OrderIds : o = OrderOf(w)
    BY OrderOfType DEF Handle, ReadUser, OnOrder
<1>2. worker' \in [Workers -> Task] /\ \A v \in Workers : Busy(worker'[v])
    <2>1. CASE Handle(w)
        <3>1. Turn("open", o, order[o].status, 0) \in Task
              /\ Busy(Turn("open", o, order[o].status, 0))
            BY TypeParts, TurnType DEF OnOrder, Row
        <3>2. Turn("cancel", o, order[o].status, 0) \in Task
              /\ Busy(Turn("cancel", o, order[o].status, 0))
            BY TypeParts, TurnType DEF OnOrder, Row
        <3>3. \/ Work(w, Turn("open", o, order[o].status, 0))
              \/ Work(w, Turn("cancel", o, order[o].status, 0))
              \/ Finish(w)
            BY <1>1, <2>1 DEF Handle
        <3> QED
            BY <3>1, <3>2, <3>3, WorkType, FinishType
    <2>2. CASE ReadUser(w)
        <3>1. PICK t : t = [worker[w] EXCEPT !.pc = "opening", !.balance = balance]
            OBVIOUS
        <3>2. t \in Task /\ Busy(t)
            BY <2>2, <3>1, TypeParts DEF ReadUser, Task, Busy, OnOrder
        <3> QED
            BY <2>2, <3>1, <3>2, WorkType DEF ReadUser
    <2> QED
        BY <2>1, <2>2
<1>3. UNCHANGED <<order, old, charged, balance, paidOut, failures, owed, opened, returned,
                  discounted, overlap>>
    BY DEF Handle, ReadUser, rows, history
<1> QED
    BY <1>2, <1>3, TypeParts DEF TypeOK, Row, Task, Busy, OnOrder

LEMMA TypeOpen == ASSUME TypeOK, NEW w \in Workers, Open(w) PROVE TypeOK'
<1>1. PICK o \in OrderIds : o = OrderOf(w)
    BY OrderOfType DEF Open, OnOrder
<1>2. /\ order[o].refund \in Nat
      /\ worker[w].balance \in Int
    BY TypeParts, Constants DEF Row, Task
<1>3. /\ order' = [p \in OrderIds |->
                      IF p = o THEN [order[p] EXCEPT !.status = "completed"]
                      ELSE IF p \in order[o].surplus
                           THEN [order[p] EXCEPT !.status = "discounted"]
                      ELSE order[p]]
      /\ balance' = IF order[o].refund = 0 THEN balance
                    ELSE worker[w].balance + order[o].refund
      /\ owed' = owed + order[o].refund
      /\ opened' = [opened EXCEPT ![o] = @ + 1]
      /\ discounted' = [p \in OrderIds |->
                           discounted[p] + IF p \in order[o].surplus THEN 1 ELSE 0]
      /\ UNCHANGED <<paidOut, old, charged, failures, returned>>
      /\ overlap' \in BOOLEAN
    BY <1>1 DEF Open, Overlaps
<1>4. order' \in [OrderIds -> Row]
    BY <1>3, TypeParts DEF Row, Status
<1>5. balance' \in Int /\ owed' \in Int
    BY <1>2, <1>3, TypeParts
<1>6. opened' \in [OrderIds -> Nat] /\ discounted' \in [OrderIds -> Nat]
    BY <1>3, TypeParts
<1>7. worker' \in [Workers -> Task] /\ \A v \in Workers : Busy(worker'[v])
    BY FinishType DEF Open
<1> QED
    BY <1>3, <1>4, <1>5, <1>6, <1>7, TypeParts DEF TypeOK, Row, Task, Busy, OnOrder

LEMMA TypeCancel == ASSUME TypeOK, NEW w \in Workers, Cancel(w) PROVE TypeOK'
<1>1. PICK o \in OrderIds : o = OrderOf(w)
    BY OrderOfType DEF Cancel, OnOrder
<1>2. /\ order' = [order EXCEPT ![o].status = "cancelled"]
      /\ balance' = balance + order[o].balance
      /\ owed' = owed + order[o].balance
      /\ returned' = [returned EXCEPT ![o] = @ + 1]
      /\ UNCHANGED <<paidOut, old, charged, failures, opened, discounted>>
      /\ overlap' \in BOOLEAN
    BY <1>1 DEF Cancel, Overlaps
<1>3. order' \in [OrderIds -> Row]
    BY <1>2, TypeParts DEF Row, Status
<1>4. balance' \in Int /\ owed' \in Int
    BY <1>2, TypeParts, Constants DEF Row
<1>5. returned' \in [OrderIds -> Nat]
    BY <1>2, TypeParts
<1>6. worker' \in [Workers -> Task] /\ \A v \in Workers : Busy(worker'[v])
    BY FinishType DEF Cancel
<1> QED
    BY <1>2, <1>3, <1>4, <1>5, <1>6, TypeParts DEF TypeOK, Row, Task, Busy, OnOrder

LEMMA TypePayCommission ==
    ASSUME TypeOK, NEW w \in Workers, PayCommission(w)
    PROVE  TypeOK'
<1>1. balance' \in Int /\ owed' \in Int /\ paidOut' \subseteq Commissions
    BY TypeParts, Constants DEF PayCommission, Task, Busy
<1>2. worker' \in [Workers -> Task] /\ \A v \in Workers : Busy(worker'[v])
    BY FinishType DEF PayCommission
<1>3. overlap' \in BOOLEAN
      /\ UNCHANGED <<order, old, charged, failures, opened, returned, discounted>>
    BY DEF PayCommission, Overlaps
<1> QED
    BY <1>1, <1>2, <1>3, TypeParts DEF TypeOK, Row, Task, Busy, OnOrder
\* A refused or failed worker is idle; the gateway and time change the order's
\* marks only.
LEMMA TypeOther ==
    ASSUME TypeOK,
           \/ \E w \in Workers : SaveRefused(w) \/ Fail(w)
           \/ \E o \in OrderIds : Charge(o) \/ Age(o)
    PROVE  TypeOK'
<1>1. ASSUME NEW w \in Workers, SaveRefused(w) \/ Fail(w) PROVE TypeOK'
    <2>1. worker' \in [Workers -> Task] /\ \A v \in Workers : Busy(worker'[v])
        BY <1>1, FinishType DEF SaveRefused, Fail
    <2>2. /\ failures' \in 0 .. MaxFailures
          /\ UNCHANGED <<rows, old, charged, history>>
        BY <1>1, TypeParts, Constants DEF SaveRefused, Fail
    <2> QED
        BY <2>1, <2>2, TypeParts DEF TypeOK, Row, Task, Busy, OnOrder, rows, history
<1>2. ASSUME NEW o \in OrderIds, Charge(o) \/ Age(o) PROVE TypeOK'
    <2>1. /\ old' \subseteq OrderIds /\ charged' \subseteq OrderIds
          /\ UNCHANGED <<rows, worker, failures, history>>
        BY <1>2, TypeParts DEF Charge, Age
    <2> QED
        BY <2>1, TypeParts DEF TypeOK, Row, Task, Busy, OnOrder, rows, history
<1> QED
    BY <1>1, <1>2

LEMMA TypeStep == TypeOK /\ [Next]_vars => TypeOK'
<1> SUFFICES ASSUME TypeOK, [Next]_vars PROVE TypeOK'
    OBVIOUS
<1>1. ASSUME NEW w \in Workers, Proceed(w) PROVE TypeOK'
    BY <1>1, TypeSave, TypeOther, TypePay, TypeLook, TypeOpen, TypeCancel,
       TypePayCommission DEF Proceed
<1>2. CASE UNCHANGED vars
    BY <1>2 DEF vars, rows, history, TypeOK
<1> QED
    BY <1>1, <1>2, TypeStart, TypeOther DEF Next

\* Every variable keeps its type, for any number of orders and workers; above
\* all no order is ever priced below zero.
THEOREM TypeCorrect == Spec => []TypeOK
BY TypeInit, TypeStep, PTL DEF Spec

-----------------------------------------------------------------------------
(* The balance *)

\* What a worker has read is not negative either: Open and PayCommission write
\* it back.
BalanceInv ==
    /\ TypeOK
    /\ balance >= 0
    /\ \A w \in Workers : worker[w].balance >= 0

LEMMA BalanceInit == Init => BalanceInv
BY TypeInit, Constants DEF Init, BalanceInv, Idle, Turn

\* A worker that reads reads no less than zero.
LEMMA BalanceWork ==
    ASSUME BalanceInv, NEW w \in Workers, NEW t, t.balance >= 0, Work(w, t)
    PROVE  \A v \in Workers : worker'[v].balance >= 0
BY TypeParts DEF BalanceInv, Work

LEMMA BalanceFinish ==
    ASSUME BalanceInv, NEW w \in Workers, Finish(w)
    PROVE  \A v \in Workers : worker'[v].balance >= 0
BY BalanceWork DEF Finish, Idle, Turn

LEMMA BalanceStep == BalanceInv /\ [Next]_vars => BalanceInv'
<1> SUFFICES ASSUME BalanceInv, [Next]_vars PROVE BalanceInv'
    OBVIOUS
<1>1. TypeOK /\ TypeOK' /\ balance \in Int /\ balance >= 0
    BY TypeStep, TypeParts DEF BalanceInv
<1> DEFINE Held == balance' >= 0
           Read == \A v \in Workers : worker'[v].balance >= 0
<1>2. ASSUME NEW w \in Workers, StartSave(w) PROVE Held /\ Read
    BY <1>1, <1>2, BalanceWork DEF StartSave, Turn, rows
<1>3. ASSUME NEW w \in Workers, NEW o \in OrderIds,
             StartPay(w, o) \/ StartJob(w, o) \/ StartCancel(w, o)
      PROVE  Held /\ Read
    BY <1>1, <1>3, BalanceWork DEF StartPay, StartJob, StartCancel, Turn, rows
<1>4. ASSUME NEW w \in Workers, NEW c \in Commissions, StartCommission(w, c)
      PROVE  Held /\ Read
    BY <1>1, <1>4, BalanceWork DEF StartCommission, Turn, rows
<1>5. ASSUME NEW w \in Workers, Save(w) PROVE Held /\ Read
    <2>1. Read
        BY <1>5, BalanceFinish DEF Save
    <2>2. PICK offer \in Offers : LET spent == Spend(offer, worker[w].balance)
                                  IN  balance >= spent /\ balance' = balance - spent
        BY <1>5 DEF Save
    <2>3. PICK spent : spent = Spend(offer, worker[w].balance)
        OBVIOUS
    <2>4. spent \in Nat
        BY <1>1, <2>3, SpendType, OfferType, TypeParts DEF Task
    <2> QED
        BY <1>1, <2>1, <2>2, <2>3, <2>4
<1>6. ASSUME NEW w \in Workers, SaveRefused(w) \/ Fail(w) PROVE Held /\ Read
    BY <1>1, <1>6, BalanceFinish DEF SaveRefused, Fail, rows
<1>7. ASSUME NEW w \in Workers, Pay(w) PROVE Held /\ Read
    BY <1>1, <1>7, BalanceWork DEF Pay, Turn
<1>8. ASSUME NEW w \in Workers, Handle(w) PROVE Held /\ Read
    BY <1>1, <1>8, BalanceWork, BalanceFinish DEF Handle, Turn, rows
<1>9. ASSUME NEW w \in Workers, ReadUser(w) PROVE Held /\ Read
    <2>1. PICK t : t = [worker[w] EXCEPT !.pc = "opening", !.balance = balance]
        OBVIOUS
    <2>2. t.balance = balance
        BY <1>1, <2>1, TypeParts DEF Task
    <2> QED
        BY <1>1, <1>9, <2>1, <2>2, BalanceWork DEF ReadUser, rows
<1>10. ASSUME NEW w \in Workers, Open(w) PROVE Held /\ Read
    <2>1. Read
        BY <1>10, BalanceFinish DEF Open
    <2>2. PICK o \in OrderIds : o = OrderOf(w)
        BY <1>1, <1>10, OrderOfType DEF Open, OnOrder
    <2>3. order[o].refund \in Nat /\ worker[w].balance \in Int /\ worker[w].balance >= 0
        BY <1>1, TypeParts, Constants DEF Row, Task, BalanceInv
    <2>4. balance' = IF order[o].refund = 0 THEN balance
                     ELSE worker[w].balance + order[o].refund
        BY <1>10, <2>2 DEF Open
    <2> QED
        BY <1>1, <2>1, <2>3, <2>4
<1>11. ASSUME NEW w \in Workers, Cancel(w) PROVE Held /\ Read
    <2>1. Read
        BY <1>11, BalanceFinish DEF Cancel
    <2>2. PICK o \in OrderIds : o = OrderOf(w)
        BY <1>1, <1>11, OrderOfType DEF Cancel, OnOrder
    <2>3. order[o].balance \in Nat
        BY <1>1, TypeParts, Constants DEF Row
    <2>4. balance' = balance + order[o].balance
        BY <1>11, <2>2 DEF Cancel
    <2> QED
        BY <1>1, <2>1, <2>3, <2>4
<1>12. ASSUME NEW w \in Workers, PayCommission(w) PROVE Held /\ Read
    <2>1. Read
        BY <1>12, BalanceFinish DEF PayCommission
    <2>2. worker[w].balance \in Int /\ worker[w].balance >= 0
        BY <1>1, TypeParts DEF Task, BalanceInv
    <2> QED
        BY <1>12, <2>1, <2>2, Constants DEF PayCommission
<1>13. ASSUME NEW o \in OrderIds, Charge(o) \/ Age(o) PROVE Held /\ Read
    BY <1>1, <1>13 DEF Charge, Age, rows, BalanceInv
<1>14. CASE UNCHANGED vars
    BY <1>1, <1>14 DEF vars, rows, BalanceInv
<1> QED
    BY <1>1, <1>2, <1>3, <1>4, <1>5, <1>6, <1>7, <1>8, <1>9, <1>10, <1>11, <1>12, <1>13,
       <1>14 DEF Next, Proceed, BalanceInv

\* No user spends the same balance on two orders, for any number of orders,
\* workers and commissions, also where a worker writes back a balance that it
\* read too long ago: the balance never goes below zero.
THEOREM BalanceCorrect == Spec => []BalanceNotNegative
<1>1. Spec => []BalanceInv
    BY BalanceInit, BalanceStep, PTL DEF Spec
<1>2. BalanceInv => BalanceNotNegative
    BY DEF BalanceInv, BalanceNotNegative
<1> QED
    BY <1>1, <1>2, PTL
-----------------------------------------------------------------------------
(* What does harm *)

\* What has been done to an order is what its status says.
Counts(o) ==
    /\ opened[o] = IF order[o].status \in {"completed", "discounted"} THEN 1 ELSE 0
    /\ returned[o] = IF order[o].status = "cancelled" THEN 1 ELSE 0
    /\ discounted[o] = IF order[o].status = "discounted" THEN 1 ELSE 0

\* One order at a time is under way, and it uses up orders that are completed:
\* none that another order has used already.
Orderly ==
    /\ balance = owed
    /\ \A o \in OrderIds : Counts(o)
    /\ \A o, p \in Incomplete : o = p
    /\ \A o \in Incomplete : order[o].surplus \subseteq Completed

\* The status a worker has found its order in.
Found(t) ==
    /\ t.pc \in {"pay", "cancel"} => t.status = "pending"
    /\ t.pc \in {"open", "opening"} => t.status = "processing"

HarmInv ==
    /\ TypeOK
    /\ \A w \in Workers : Found(worker[w])
    /\ overlap \/ Orderly

LEMMA OrderlySound == TypeOK /\ Orderly => Sound
BY TypeParts DEF Orderly, Counts, Sound, Row, Status

LEMMA HarmInit == Init => HarmInv
<1> SUFFICES ASSUME Init PROVE HarmInv
    OBVIOUS
<1>1. TypeOK
    BY TypeInit
<1>2. Found(Idle)
    BY DEF Found, Idle, Turn
<1>3. \A w \in Workers : Found(worker[w])
    BY <1>2 DEF Init
<1>4. \A o \in OrderIds : order[o].status = "none"
    BY DEF Init, Unset
<1>5. Incomplete = {}
    BY <1>4 DEF Incomplete
<1>6. Orderly
    BY <1>4, <1>5 DEF Orderly, Counts, Init
<1> QED
    BY <1>1, <1>3, <1>6 DEF HarmInv

\* A worker goes on with what it has found.
LEMMA FoundWork ==
    ASSUME HarmInv, NEW w \in Workers, NEW t, Found(t), Work(w, t)
    PROVE  \A v \in Workers : Found(worker'[v])
BY TypeParts DEF HarmInv, Work

LEMMA FoundFinish ==
    ASSUME HarmInv, NEW w \in Workers, Finish(w)
    PROVE  \A v \in Workers : Found(worker'[v])
<1>1. Found(Idle)
    BY DEF Found, Idle, Turn
<1> QED
    BY <1>1, FoundWork DEF Finish

\* Every step finds what it writes of the status.
LEMMA FoundStep ==
    ASSUME HarmInv, [Next]_vars
    PROVE  \A v \in Workers : Found(worker'[v])
<1> DEFINE Known == \A v \in Workers : Found(worker'[v])
<1>1. ASSUME NEW w \in Workers, StartSave(w) PROVE Known
    <2>1. Found(Turn("save", Nobody, "none", balance))
        BY DEF Found, Turn
    <2> QED
        BY <1>1, <2>1, FoundWork DEF StartSave
<1>2. ASSUME NEW w \in Workers, NEW o \in OrderIds,
             StartPay(w, o) \/ StartJob(w, o) \/ StartCancel(w, o)
      PROVE  Known
    <2>1. /\ order[o].status = "pending" =>
                 /\ Found(Turn("pay", o, order[o].status, 0))
                 /\ Found(Turn("cancel", o, order[o].status, 0))
          /\ Found(Turn("handle", o, "none", 0))
        BY DEF Found, Turn
    <2> QED
        BY <1>2, <2>1, FoundWork DEF StartPay, StartJob, StartCancel
<1>3. ASSUME NEW w \in Workers, NEW c \in Commissions, StartCommission(w, c)
      PROVE  Known
    <2>1. Found(Turn("commission", c, "none", balance))
        BY DEF Found, Turn
    <2> QED
        BY <1>3, <2>1, FoundWork DEF StartCommission
<1>4. ASSUME NEW w \in Workers,
             \/ Save(w) \/ SaveRefused(w) \/ Fail(w)
             \/ Open(w) \/ Cancel(w) \/ PayCommission(w)
      PROVE  Known
    BY <1>4, FoundFinish DEF Save, SaveRefused, Fail, Open, Cancel, PayCommission
<1>5. ASSUME NEW w \in Workers, Pay(w) PROVE Known
    <2>1. Found(Turn("handle", OrderOf(w), "none", 0))
        BY DEF Found, Turn
    <2> QED
        BY <1>5, <2>1, FoundWork DEF Pay
<1>6. ASSUME NEW w \in Workers, Handle(w) PROVE Known
    <2>1. PICK o : o = OrderOf(w)
        OBVIOUS
    <2>2. /\ order[o].status = "processing" => Found(Turn("open", o, order[o].status, 0))
          /\ order[o].status = "pending" => Found(Turn("cancel", o, order[o].status, 0))
        BY DEF Found, Turn
    <2>3. \/ /\ order[o].status = "processing"
             /\ Work(w, Turn("open", o, order[o].status, 0))
          \/ /\ order[o].status = "pending"
             /\ Work(w, Turn("cancel", o, order[o].status, 0))
          \/ Finish(w)
        BY <1>6, <2>1 DEF Handle
    <2> QED
        BY <2>2, <2>3, FoundWork, FoundFinish
<1>7. ASSUME NEW w \in Workers, ReadUser(w) PROVE Known
    <2>1. PICK t : t = [worker[w] EXCEPT !.pc = "opening", !.balance = balance]
        OBVIOUS
    <2>2. Found(t)
        BY <1>7, <2>1, TypeParts DEF ReadUser, Task, Found, HarmInv
    <2> QED
        BY <1>7, <2>1, <2>2, FoundWork DEF ReadUser
<1>8. ASSUME NEW o \in OrderIds, Charge(o) \/ Age(o) PROVE Known
    BY <1>8 DEF Charge, Age, HarmInv
<1>9. CASE UNCHANGED vars
    BY <1>9 DEF vars, HarmInv
<1> QED
    BY <1>1, <1>2, <1>3, <1>4, <1>5, <1>6, <1>7, <1>8, <1>9 DEF Next, Proceed

\* Only the rows, the counts and the balance matter.
LEMMA OrderlyStays ==
    ASSUME Orderly, UNCHANGED <<rows, history>>
    PROVE  Orderly'
BY DEF Orderly, Counts, Incomplete, Completed, rows, history

\* A new order beside none: it uses up what is completed.
LEMMA OrderlySave ==
    ASSUME TypeOK, Orderly, NEW w \in Workers, Save(w), ~overlap'
    PROVE  Orderly'
<1>1. Incomplete = {}
    BY DEF Save, Overlaps
<1>2. PICK o \in OrderIds, offer \in Offers :
          LET spent == Spend(offer, worker[w].balance)
          IN  /\ order[o].status = "none"
              /\ order' = [order EXCEPT ![o] = [offer EXCEPT !.total = @ - spent,
                                                             !.balance = spent]]
              /\ balance' = balance - spent
              /\ owed' = owed - spent
    BY DEF Save
<1>3. UNCHANGED <<opened, returned, discounted>>
    BY DEF Save
<1>4. /\ order'[o].status = "pending"
      /\ order'[o].surplus \in {{}, Completed}
      /\ \A p \in OrderIds \ {o} : order'[p] = order[p]
    BY <1>2, TypeParts DEF Offers
<1>5. Completed' = Completed /\ Incomplete' = {o}
    BY <1>1, <1>2, <1>4 DEF Completed, Incomplete
<1>6. \A p \in OrderIds : Counts(p)'
    BY <1>2, <1>3, <1>4 DEF Orderly, Counts
<1>7. balance' = owed'
    BY <1>2 DEF Orderly
<1>8. order'[o].surplus \subseteq Completed'
    BY <1>4, <1>5
<1>9. /\ \A p, q \in Incomplete' : p = q
      /\ \A p \in Incomplete' : order'[p].surplus \subseteq Completed'
    BY <1>5, <1>8
<1> QED
    BY <1>6, <1>7, <1>9 DEF Orderly

\* A payment: the order stays the only one under way.
LEMMA OrderlyPay ==
    ASSUME HarmInv, Orderly, NEW w \in Workers, Pay(w), ~overlap'
    PROVE  Orderly'
<1>1. TypeOK /\ worker[w].status = "pending"
    BY DEF HarmInv, Found, Pay
<1>2. PICK o \in OrderIds : o = OrderOf(w)
    BY <1>1, OrderOfType DEF Pay, OnOrder
<1>3. /\ order' = [order EXCEPT ![o].status = "processing"]
      /\ order[o].status = "pending"
      /\ UNCHANGED <<balance, owed, opened, returned, discounted>>
    BY <1>1, <1>2 DEF Pay, Overlaps
<1>4. /\ order'[o].status = "processing" /\ order'[o].surplus = order[o].surplus
      /\ \A p \in OrderIds \ {o} : order'[p] = order[p]
    BY <1>1, <1>3, TypeParts DEF Row
<1>5. Incomplete' = Incomplete /\ Completed' = Completed
    BY <1>3, <1>4 DEF Incomplete, Completed
<1>6. \A p \in OrderIds : Counts(p)' /\ order'[p].surplus = order[p].surplus
    BY <1>3, <1>4 DEF Orderly, Counts
<1>7. \A p \in Incomplete : p \in OrderIds
    BY DEF Incomplete
<1> QED
    BY <1>3, <1>5, <1>6, <1>7 DEF Orderly

\* An order is opened: it was paid, and what it uses up was completed.
LEMMA OrderlyOpen ==
    ASSUME HarmInv, Orderly, NEW w \in Workers, Open(w), ~overlap'
    PROVE  Orderly'
<1>1. TypeOK /\ worker[w].status = "processing"
    BY DEF HarmInv, Found, Open
<1>2. PICK o \in OrderIds : o = OrderOf(w)
    BY <1>1, OrderOfType DEF Open, OnOrder
<1>3. PICK used : used = order[o].surplus
    OBVIOUS
<1>4. /\ order' = [p \in OrderIds |->
                      IF p = o THEN [order[p] EXCEPT !.status = "completed"]
                      ELSE IF p \in used THEN [order[p] EXCEPT !.status = "discounted"]
                      ELSE order[p]]
      /\ opened' = [opened EXCEPT ![o] = @ + 1]
      /\ discounted' = [p \in OrderIds |-> discounted[p] + IF p \in used THEN 1 ELSE 0]
      /\ returned' = returned
      /\ order[o].status = "processing"
    BY <1>1, <1>2, <1>3 DEF Open, Overlaps
<1>5. balance' = owed'
    <2>1. order[o].refund \in Nat /\ balance \in Int
        BY <1>1, TypeParts, Constants DEF Row
    <2>2. /\ balance' = IF order[o].refund = 0 THEN balance
                        ELSE worker[w].balance + order[o].refund
          /\ owed' = owed + order[o].refund
          /\ order[o].refund > 0 => worker[w].balance = balance
        BY <1>2 DEF Open, Overlaps
    <2> QED
        BY <2>1, <2>2 DEF Orderly
<1>6. /\ o \in Incomplete
      /\ \A p \in used : p \in OrderIds /\ order[p].status = "completed"
    BY <1>3, <1>4 DEF Orderly, Incomplete, Completed
<1>7. o \notin used
    BY <1>4, <1>6
<1>8. /\ order'[o].status = "completed"
      /\ \A p \in used : order'[p].status = "discounted"
      /\ \A p \in OrderIds \ (used \cup {o}) : order'[p] = order[p]
    BY <1>1, <1>4, <1>6, <1>7, TypeParts DEF Row
<1>9. ASSUME NEW p \in OrderIds PROVE Counts(p)'
    <2>1. Counts(p) /\ opened[p] \in Nat /\ discounted[p] \in Nat
        BY <1>1, TypeParts DEF Orderly
    <2>2. CASE p = o
        BY <1>1, <1>4, <1>7, <1>8, <2>1, <2>2, TypeParts DEF Counts
    <2>3. CASE p \in used
        BY <1>1, <1>4, <1>6, <1>7, <1>8, <2>1, <2>3, TypeParts DEF Counts
    <2>4. CASE p \notin used \cup {o}
        BY <1>1, <1>4, <1>8, <2>1, <2>4, TypeParts DEF Counts
    <2> QED
        BY <2>2, <2>3, <2>4
<1>10. Incomplete' = {}
    <2>1. ASSUME NEW p \in Incomplete' PROVE FALSE
        <3>1. p \in OrderIds /\ p \notin used \cup {o}
            BY <1>8, <2>1 DEF Incomplete
        <3>2. p \in Incomplete
            BY <1>8, <2>1, <3>1 DEF Incomplete
        <3> QED
            BY <1>6, <3>1, <3>2 DEF Orderly
    <2> QED
        BY <2>1
<1> QED
    BY <1>5, <1>9, <1>10 DEF Orderly

\* A pending order is cancelled.
LEMMA OrderlyCancel ==
    ASSUME HarmInv, Orderly, NEW w \in Workers, Cancel(w), ~overlap'
    PROVE  Orderly'
<1>1. TypeOK /\ worker[w].status = "pending"
    BY DEF HarmInv, Found, Cancel
<1>2. PICK o \in OrderIds : o = OrderOf(w)
    BY <1>1, OrderOfType DEF Cancel, OnOrder
<1>3. /\ order' = [order EXCEPT ![o].status = "cancelled"]
      /\ balance' = balance + order[o].balance
      /\ owed' = owed + order[o].balance
      /\ returned' = [returned EXCEPT ![o] = @ + 1]
      /\ UNCHANGED <<opened, discounted>>
      /\ order[o].status = "pending"
    BY <1>1, <1>2 DEF Cancel, Overlaps
<1>4. /\ order'[o].status = "cancelled"
      /\ \A p \in OrderIds \ {o} : order'[p] = order[p]
    BY <1>1, <1>3, TypeParts DEF Row
<1>5. Completed' = Completed
    BY <1>3, <1>4 DEF Completed
<1>6. ASSUME NEW p \in OrderIds PROVE Counts(p)'
    BY <1>1, <1>3, <1>4, TypeParts DEF Orderly, Counts
<1>7. \A p \in Incomplete' : p \in Incomplete /\ order'[p] = order[p]
    BY <1>4 DEF Incomplete
<1>8. balance' = owed'
    BY <1>3 DEF Orderly
<1> QED
    BY <1>5, <1>6, <1>7, <1>8 DEF Orderly

\* A commission is paid, once, to the balance that was read.
LEMMA OrderlyPayCommission ==
    ASSUME Orderly, NEW w \in Workers, PayCommission(w), ~overlap'
    PROVE  Orderly'
BY DEF PayCommission, Overlaps, Orderly, Counts, Incomplete, Completed

LEMMA HarmStep == HarmInv /\ [Next]_vars => HarmInv'
<1> SUFFICES ASSUME HarmInv, [Next]_vars PROVE HarmInv'
    OBVIOUS
<1>1. TypeOK /\ TypeOK' /\ \A v \in Workers : Found(worker'[v])
    BY TypeStep, FoundStep DEF HarmInv
<1>2. SUFFICES ASSUME ~overlap' PROVE Orderly'
    BY <1>1 DEF HarmInv
<1>3. overlap => overlap'
    BY DEF Next, vars, rows, history, StartSave, StartPay, StartJob, StartCancel,
       StartCommission, Proceed, Save, SaveRefused, Pay, Handle, ReadUser, Open, Cancel,
       PayCommission, Fail, Charge, Age, Overlaps
<1>4. Orderly
    BY <1>2, <1>3 DEF HarmInv
<1>5. ASSUME NEW w \in Workers, Proceed(w) PROVE Orderly'
    BY <1>1, <1>2, <1>4, <1>5, OrderlyStays, OrderlySave, OrderlyPay, OrderlyOpen,
       OrderlyCancel, OrderlyPayCommission DEF Proceed, SaveRefused, Handle, ReadUser
<1>6. ASSUME NEW w \in Workers,
             \/ StartSave(w)
             \/ \E o \in OrderIds : StartPay(w, o) \/ StartJob(w, o) \/ StartCancel(w, o)
             \/ \E c \in Commissions : StartCommission(w, c)
             \/ Fail(w)
      PROVE  Orderly'
    BY <1>4, <1>6, OrderlyStays
    DEF StartSave, StartPay, StartJob, StartCancel, StartCommission, Fail, rows, history
<1>7. ASSUME NEW o \in OrderIds, Charge(o) \/ Age(o) PROVE Orderly'
    BY <1>4, <1>7, OrderlyStays DEF Charge, Age
<1>8. CASE UNCHANGED vars
    BY <1>4, <1>8, OrderlyStays DEF vars
<1> QED
    BY <1>5, <1>6, <1>7, <1>8 DEF Next

\* For any number of orders, workers, commissions and failures: unless a worker
\* has written over what another had written since it read, the balance is what
\* it should be, and each order has been opened, returned or used up as its
\* status says, once.
THEOREM HarmCorrect == Spec => []HarmOnlyFromOverlap
<1>1. Spec => []HarmInv
    BY HarmInit, HarmStep, PTL DEF Spec
<1>2. HarmInv => HarmOnlyFromOverlap
    BY OrderlySound DEF HarmInv, HarmOnlyFromOverlap
<1> QED
    BY <1>1, <1>2, PTL
=============================================================================
