------------------------------- MODULE Orders -------------------------------
(***************************************************************************)
(* The orders of one user of the panel: saved, paid, opened and cancelled  *)
(* by HTTP requests, payment callbacks and queued jobs                     *)
(* (app/Services/OrderService.php, app/Jobs/OrderHandleJob.php,            *)
(* app/Http/Controllers), with the balance they and the commission job     *)
(* (app/Console/Commands/CheckCommission.php) write.                       *)
(*                                                                         *)
(* A worker is a PHP process that serves one request or job.  It decides   *)
(* on the row it has read and writes later; a save writes the columns it   *)
(* has changed, whatever the row has become.  A transaction is one step,   *)
(* or is rolled back: what it reads of the rows it writes it has either    *)
(* read before or reads under a lock.  All prices are the same.            *)
(***************************************************************************)
EXTENDS Integers, FiniteSets

CONSTANTS
    OrderIds,
    Commissions,    \* commissions the user is to be paid
    Workers,
    Nobody,         \* what an idle worker works on
    Price, Refund,  \* of any order; of an upgrade, when surplus exceeds the price
    Share,          \* of a commission
    Deposit,        \* the user's balance in the beginning
    MaxFailures     \* rollbacks and crashes, bound of the model

ASSUME OrdersAssumption ==
    /\ IsFiniteSet(OrderIds)
    /\ Nobody \notin OrderIds \cup Commissions
    /\ OrderIds \cap Commissions = {}
    /\ {Price, Share} \subseteq Nat \ {0}
    /\ {Refund, Deposit, MaxFailures} \subseteq Nat

VARIABLES
    order,          \* the rows of v2_order
    old,            \* orders of more than two hours
    charged,        \* orders the gateway has been paid for
    balance,        \* of the user's row
    paidOut,        \* commissions with commission_status 2
    worker,
    failures,
    owed,           \* what the balance should be
    opened, returned, discounted,   \* how often that was done to an order
    overlap         \* a worker has written what another had changed since it read

rows    == <<order, balance, paidOut>>
history == <<owed, opened, returned, discounted, overlap>>
vars    == <<rows, old, charged, worker, failures, history>>

Status == {"none", "pending", "processing", "cancelled", "completed", "discounted"}
Unset  == [status |-> "none", total |-> 0, balance |-> 0, refund |-> 0, surplus |-> {}]

Incomplete == {o \in OrderIds : order[o].status \in {"pending", "processing"}}
Completed  == {o \in OrderIds : order[o].status = "completed"}

\* What a worker does next, for which order or commission, and what it has read.
Turn(pc, on, status, money) ==
    [pc |-> pc, on |-> on, status |-> status, balance |-> money]
Idle == Turn("idle", Nobody, "none", 0)

TypeOK ==
    /\ order \in [OrderIds -> [status : Status, total : 0 .. Price, balance : 0 .. Price,
                               refund : {0, Refund}, surplus : SUBSET OrderIds]]
    /\ old \subseteq OrderIds /\ charged \subseteq OrderIds
    /\ balance \in Int /\ owed \in Int
    /\ paidOut \subseteq Commissions
    /\ worker \in [Workers ->
                      [pc : {"idle", "save", "pay", "handle", "cancel", "open", "opening",
                             "commission"},
                       on : OrderIds \cup Commissions \cup {Nobody},
                       status : Status, balance : Int]]
    /\ \A w \in Workers :
           /\ worker[w].on \in OrderIds <=>
                  worker[w].pc \in {"pay", "handle", "cancel", "open", "opening"}
           /\ worker[w].on \in Commissions <=> worker[w].pc = "commission"
    /\ failures \in 0 .. MaxFailures
    /\ opened \in [OrderIds -> Nat]
    /\ returned \in [OrderIds -> Nat]
    /\ discounted \in [OrderIds -> Nat]
    /\ overlap \in BOOLEAN

Init ==
    /\ order = [o \in OrderIds |-> Unset]
    /\ old = {} /\ charged = {}
    /\ balance = Deposit
    /\ paidOut = {}
    /\ worker = [w \in Workers |-> Idle]
    /\ failures = 0
    /\ owed = Deposit
    /\ opened = [o \in OrderIds |-> 0]
    /\ returned = opened
    /\ discounted = opened
    /\ overlap = FALSE

Work(w, turn)  == worker' = [worker EXCEPT ![w] = turn]
Finish(w)      == Work(w, Idle)
OrderOf(w)     == worker[w].on
Overlaps(bad)  == overlap' = (overlap \/ bad)

-----------------------------------------------------------------------------
(* OrderController::save and checkout *)

\* A user without an incomplete order asks for one; the user's row is read.
StartSave(w) ==
    /\ worker[w].pc = "idle"
    /\ Incomplete = {}
    /\ Work(w, Turn("save", Nobody, "none", balance))
    /\ UNCHANGED <<rows, old, charged, failures, history>>

\* What the order costs, and the orders whose surplus it uses up: for another
\* plan, all completed ones, which may be worth more than it.
Offers ==
    {[status |-> "pending", total |-> Price, balance |-> 0, refund |-> 0, surplus |-> {}]}
    \cup {[status |-> "pending", total |-> 0, balance |-> 0, refund |-> r,
           surplus |-> Completed] : r \in IF Completed = {} THEN {} ELSE {0, Refund}}

\* Mutant of Spend: the whole balance, whatever the price.
SpendAll(offer, saw) == IF saw <= 0 \/ offer.total = 0 THEN 0 ELSE saw

\* Part of the balance that was read is spent on what is left of the price.
Spend(offer, saw) ==
    IF saw <= 0 THEN 0 ELSE IF saw < offer.total THEN saw ELSE offer.total

\* Mutant of Save: addBalance does not look at its result.
SaveOverdrawn(w) ==
    /\ worker[w].pc = "save"
    /\ \E o \in OrderIds, offer \in Offers :
          LET spent == Spend(offer, worker[w].balance)
          IN  /\ order[o].status = "none"
              /\ order' = [order EXCEPT ![o] = [offer EXCEPT !.total = @ - spent,
                                                             !.balance = spent]]
              /\ balance' = balance - spent
              /\ owed' = owed - spent
    /\ Overlaps(Incomplete # {})
    /\ Finish(w)
    /\ UNCHANGED <<paidOut, old, charged, failures, opened, returned, discounted>>

\* The transaction: addBalance under a lock, which refuses to go below zero, and
\* the new row.
Save(w) ==
    /\ worker[w].pc = "save"
    /\ \E o \in OrderIds, offer \in Offers :
          LET spent == Spend(offer, worker[w].balance)
          IN  /\ order[o].status = "none"
              /\ balance >= spent
              /\ order' = [order EXCEPT ![o] = [offer EXCEPT !.total = @ - spent,
                                                             !.balance = spent]]
              /\ balance' = balance - spent
              /\ owed' = owed - spent
    /\ Overlaps(Incomplete # {})
    /\ Finish(w)
    /\ UNCHANGED <<paidOut, old, charged, failures, opened, returned, discounted>>

\* The balance has shrunk since it was read: the request is refused.
SaveRefused(w) ==
    /\ worker[w].pc = "save"
    /\ \E offer \in Offers : balance < Spend(offer, worker[w].balance)
    /\ Finish(w)
    /\ UNCHANGED <<rows, old, charged, failures, history>>

\* checkout leads a user with a pending order to the gateway, who pays there at
\* any time.
Charge(o) ==
    /\ order[o].status # "none"
    /\ order[o].total > 0
    /\ charged' = charged \cup {o}
    /\ UNCHANGED <<rows, old, worker, failures, history>>

\* After two hours.
Age(o) ==
    /\ order[o].status # "none"
    /\ old' = old \cup {o}
    /\ UNCHANGED <<rows, charged, worker, failures, history>>

-----------------------------------------------------------------------------
(* Payment *)

\* A callback of the gateway, which repeats it as it likes, or checkout of an
\* order that is free, finds the order pending.
StartPay(w, o) ==
    /\ worker[w].pc = "idle"
    /\ order[o].status = "pending"
    /\ o \in charged \/ order[o].total = 0
    /\ Work(w, Turn("pay", o, order[o].status, 0))
    /\ UNCHANGED <<rows, old, charged, failures, history>>

\* OrderService::paid: the status is written, and the job run on the spot.
Pay(w) ==
    /\ worker[w].pc = "pay"
    /\ LET o == OrderOf(w)
       IN  /\ order' = [order EXCEPT ![o].status = "processing"]
           /\ Overlaps(order[o].status # worker[w].status)
           /\ Work(w, Turn("handle", o, "none", 0))
    /\ UNCHANGED <<balance, paidOut, old, charged, failures, owed, opened, returned,
                   discounted>>

-----------------------------------------------------------------------------
(* OrderHandleJob *)

\* Every minute check:order queues a job for every incomplete order.
StartJob(w, o) ==
    /\ worker[w].pc = "idle"
    /\ o \in Incomplete
    /\ Work(w, Turn("handle", o, "none", 0))
    /\ UNCHANGED <<rows, old, charged, failures, history>>

\* Mutant of Handle: only paid orders are looked at.
HandlePaid(w) ==
    /\ worker[w].pc = "handle"
    /\ LET o == OrderOf(w)
       IN  IF order[o].status = "processing" THEN Work(w, Turn("open", o, order[o].status, 0))
           ELSE Finish(w)
    /\ UNCHANGED <<rows, old, charged, failures, history>>

\* The lock of lockForUpdate is gone with the statement: there is no transaction.
Handle(w) ==
    /\ worker[w].pc = "handle"
    /\ LET o == OrderOf(w)
       IN  IF order[o].status = "processing" THEN Work(w, Turn("open", o, order[o].status, 0))
           ELSE IF order[o].status = "pending" /\ o \in old THEN Work(w, Turn("cancel", o, order[o].status, 0))
           ELSE Finish(w)
    /\ UNCHANGED <<rows, old, charged, failures, history>>

\* open reads the user ...
ReadUser(w) ==
    /\ worker[w].pc = "open"
    /\ Work(w, [worker[w] EXCEPT !.pc = "opening", !.balance = balance])
    /\ UNCHANGED <<rows, old, charged, failures, history>>

\* ... and in a transaction writes the user's plan and balance, the orders that
\* are used up, and the status.
Open(w) ==
    /\ worker[w].pc = "opening"
    /\ LET o    == OrderOf(w)
           used == order[o].surplus
           r    == order[o].refund
       IN  /\ order' = [p \in OrderIds |->
                           IF p = o THEN [order[p] EXCEPT !.status = "completed"]
                           ELSE IF p \in used THEN [order[p] EXCEPT !.status = "discounted"]
                           ELSE order[p]]
           /\ balance' = IF r = 0 THEN balance ELSE worker[w].balance + r
           /\ owed' = owed + r
           /\ opened' = [opened EXCEPT ![o] = @ + 1]
           /\ discounted' = [p \in OrderIds |->
                                discounted[p] + IF p \in used THEN 1 ELSE 0]
           /\ Overlaps(\/ order[o].status # worker[w].status
                       \/ r > 0 /\ balance # worker[w].balance)
    /\ Finish(w)
    /\ UNCHANGED <<paidOut, old, charged, failures, returned>>

-----------------------------------------------------------------------------
(* Cancellation *)

\* Mutant of StartCancel: the status is not looked at.
StartCancelAny(w, o) ==
    /\ worker[w].pc = "idle"
    /\ order[o].status # "none"
    /\ Work(w, Turn("cancel", o, order[o].status, 0))
    /\ UNCHANGED <<rows, old, charged, failures, history>>

\* The user or an administrator cancels an order that is pending.
StartCancel(w, o) ==
    /\ worker[w].pc = "idle"
    /\ order[o].status = "pending"
    /\ Work(w, Turn("cancel", o, order[o].status, 0))
    /\ UNCHANGED <<rows, old, charged, failures, history>>

\* The transaction of OrderService::cancel, addBalance included.
Cancel(w) ==
    /\ worker[w].pc = "cancel"
    /\ LET o == OrderOf(w)
       IN  /\ order' = [order EXCEPT ![o].status = "cancelled"]
           /\ balance' = balance + order[o].balance
           /\ owed' = owed + order[o].balance
           /\ returned' = [returned EXCEPT ![o] = @ + 1]
           /\ Overlaps(order[o].status # worker[w].status)
    /\ Finish(w)
    /\ UNCHANGED <<paidOut, old, charged, failures, opened, discounted>>

-----------------------------------------------------------------------------
(* CheckCommission, with withdraw_close_enable: commissions go to the balance *)

StartCommission(w, c) ==
    /\ worker[w].pc = "idle"
    /\ c \in Commissions \ paidOut
    /\ Work(w, Turn("commission", c, "none", balance))
    /\ UNCHANGED <<rows, old, charged, failures, history>>

\* payHandle writes the balance it has read, and the commission's status.
PayCommission(w) ==
    /\ worker[w].pc = "commission"
    /\ LET c == worker[w].on
       IN  /\ balance' = worker[w].balance + Share
           /\ paidOut' = paidOut \cup {c}
           /\ owed' = IF c \in paidOut THEN owed ELSE owed + Share
           /\ Overlaps(c \in paidOut \/ balance # worker[w].balance)
    /\ Finish(w)
    /\ UNCHANGED <<order, old, charged, failures, opened, returned, discounted>>

-----------------------------------------------------------------------------

\* A transaction is rolled back, or the process dies: what it had still to do is
\* left to later jobs and requests.
Fail(w) ==
    /\ failures < MaxFailures
    /\ failures' = failures + 1
    /\ worker[w].pc # "idle"
    /\ Finish(w)
    /\ UNCHANGED <<rows, old, charged, history>>

\* A worker that has begun goes on.
Proceed(w) ==
    \/ Save(w) \/ SaveRefused(w)
    \/ Pay(w) \/ Handle(w) \/ ReadUser(w) \/ Open(w)
    \/ Cancel(w)
    \/ PayCommission(w)

Next ==
    \/ \E w \in Workers :
           \/ StartSave(w)
           \/ \E o \in OrderIds : StartPay(w, o) \/ StartJob(w, o) \/ StartCancel(w, o)
           \/ \E c \in Commissions : StartCommission(w, c)
           \/ Proceed(w)
           \/ Fail(w)
    \/ \E o \in OrderIds : Charge(o) \/ Age(o)

Spec == Init /\ [][Next]_vars

Job(o) == \E w \in Workers : StartJob(w, o)

\* Workers go on, time passes, and of the jobs in the queue each has its turn,
\* however often there is another one for the worker that is free.
FairSpec ==
    /\ Spec
    /\ \A w \in Workers : WF_vars(Proceed(w))
    /\ \A o \in OrderIds : WF_vars(Age(o)) /\ SF_vars(Job(o))

-----------------------------------------------------------------------------
(* Properties *)

Sound ==
    /\ balance = owed
    /\ \A o \in OrderIds :
           /\ opened[o] + returned[o] <= 1
           /\ discounted[o] <= 1
           /\ opened[o] = 1 <=> order[o].status \in {"completed", "discounted"}
           /\ returned[o] = 1 <=> order[o].status = "cancelled"

\* Repeated callbacks, jobs queued twice, cancellations, rollbacks and killed
\* processes do an order no harm: the balance is what it should be, an order is
\* opened or its balance returned, once, and its surplus used once - unless a
\* worker wrote over what another had written since it read.
HarmOnlyFromOverlap == overlap \/ Sound

\* No user spends the same balance on two orders: it never goes below zero, also
\* when requests overlap.
BalanceNotNegative == balance >= 0

\* Every order is opened or cancelled in the end, whatever died on the way.
EventuallySettled == <>[](Incomplete = {})

\* The message of the cancel requests: you can only cancel pending orders.
OnlyPendingCancelled ==
    [][\A o \in OrderIds :
          returned'[o] > returned[o] => order[o].status = "pending"]_vars
=============================================================================
