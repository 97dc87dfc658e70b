------------------------------ MODULE Payments ------------------------------
(***************************************************************************)
(* The payment protocol of one marketplace: the handlers of                *)
(* payments.service.ts (create-order, verify, the three webhooks, refund), *)
(* the two handlers of orders.service.ts that write the same rows          *)
(* (createOrder, cancelOrder), the admin's status override, and Razorpay   *)
(* itself (external).                                                      *)
(*                                                                         *)
(* A request in flight occupies a worker; each await on the database is a  *)
(* step of its own, a $transaction is one step, and a process may die      *)
(* between any two steps.  Razorpay delivers a webhook until it is         *)
(* answered, possibly several times and in any order.                      *)
(*                                                                         *)
(* Signatures are Razorpay's: verifyPayment is handed an attempt that      *)
(* captured money, and webhooks are genuine.  The order that verifyPayment *)
(* marks paid is whichever the client names with it.                       *)
(*                                                                         *)
(* Abstracted: amounts, delivery type and rider pool (an assignment may or *)
(* may not find a rider), and the six fulfilment statuses after CONFIRMED, *)
(* which "PACKED" stands for.                                              *)
(***************************************************************************)
EXTENDS Integers, FiniteSets

CONSTANTS
    Orders,       \* order ids
    RzpOrders,    \* ids Razorpay gives to its own orders (order_xxx)
    Attempts,     \* payment attempts made in the Razorpay modal (pay_xxx)
    Workers,      \* requests that can be in flight at once
    None,         \* SQL NULL
    MaxCalls,     \* bound: client and admin calls that are not bounded otherwise
    MaxSends,     \* bound: deliveries of one webhook event
    MaxCrashes    \* bound: processes killed in mid-request, and earnings updates that throw

ASSUME WorkersAssumption == IsFiniteSet(Workers) /\ Workers # {}
ASSUME NoneAssumption == None \notin Orders \cup RzpOrders \cup Attempts
ASSUME BoundsAssumption == MaxCalls \in Nat /\ MaxSends \in Nat /\ MaxCrashes \in Nat

PaymentStatus == {"PENDING", "PAID", "FAILED", "REFUNDED"}
OrderStatus == {"PENDING", "CONFIRMED", "PACKED", "CANCELLED"}
EventKinds == {"captured", "failed", "refund"}
Events == [kind : EventKinds, attempt : Attempts]

Methods == {"COD", "RAZORPAY"}

OrderRow == [status : OrderStatus \cup {"ABSENT"}, pay : PaymentStatus, method : Methods]
PaymentRow == [status : PaymentStatus \cup {"ABSENT"}, rzp : RzpOrders \cup {None},
               payId : Attempts \cup {None}, event : Events \cup {None}]
AttemptRow == [rzp : RzpOrders \cup {None}, outcome : {"none", "captured", "failed"}]

Ops == {"idle", "place", "create", "verify", "dispatch", "cancel", "refundApi"} \cup EventKinds
Labels == {"idle", "earnings", "assign", "confirm", "gateway", "upsert", "tx", "reverse",
           "event", "row", "mark", "restore", "order", "reply"}

Calls == [op : Ops, pc : Labels, order : Orders \cup {None}, rzp : RzpOrders \cup {None},
          attempt : Attempts \cup {None}, sawPaid : BOOLEAN]

Idle == [op |-> "idle", pc |-> "idle", order |-> None, rzp |-> None,
         attempt |-> None, sawPaid |-> FALSE]

VARIABLES
    order,      \* order[o]: status, paymentStatus, paymentMethod ("ABSENT" before creation)
    payment,    \* payment[o]: the Payment row of order o
    delivery,   \* delivery[o]: its OrderDelivery row: "NONE", "OPEN" or "ASSIGNED"
    ledger,     \* ledger[o]: its PaymentLedger row exists
    claims,     \* history: attempts verifyPayment recorded on o that paid for another order
    earned,     \* times order o's proceeds stand in vendor.totalEarnings, net
    restores,   \* times the stock of order o was put back
    credits,    \* history: times payment.captured credited the vendors of o
    demotions,  \* history: times the Payment row of o stopped being PAID
    rzpOwner,   \* Razorpay: the receipt (our order) of each Razorpay order
    offered,    \* Razorpay orders whose id reached the customer's modal
    attempt,    \* Razorpay: order and outcome of each payment attempt
    due,        \* webhook events emitted and not yet answered
    sent,       \* sent[e]: deliveries of event e; 0 is not emitted, 1 emitted, n+1 delivered n times
    call,       \* call[w]: the request worker w is serving
    calls,      \* client and admin calls made so far, up to MaxCalls
    crashes     \* such failures so far, up to MaxCrashes

rows == <<order, payment, delivery, ledger, claims>>
tallies == <<earned, restores, credits, demotions>>
gateway == <<rzpOwner, offered, attempt, due, sent>>
budget == <<calls, crashes>>
vars == <<rows, tallies, gateway, call, budget>>

NoOrder == [status |-> "ABSENT", pay |-> "PENDING", method |-> "RAZORPAY"]
NoPayment == [status |-> "ABSENT", rzp |-> None, payId |-> None, event |-> None]

Init ==
    /\ order = [o \in Orders |-> NoOrder]
    /\ payment = [o \in Orders |-> NoPayment]
    /\ delivery = [o \in Orders |-> "NONE"]
    /\ ledger = [o \in Orders |-> FALSE]
    /\ claims = [o \in Orders |-> {}]
    /\ earned = [o \in Orders |-> 0]
    /\ restores = [o \in Orders |-> 0]
    /\ credits = [o \in Orders |-> 0]
    /\ demotions = [o \in Orders |-> 0]
    /\ rzpOwner = [r \in RzpOrders |-> None]
    /\ offered = {}
    /\ attempt = [p \in Attempts |-> [rzp |-> None, outcome |-> "none"]]
    /\ due = {}
    /\ sent = [e \in Events |-> 0]
    /\ call = [w \in Workers |-> Idle]
    /\ calls = 0
    /\ crashes = 0

-----------------------------------------------------------------------------
(* Requests: how a worker takes one, moves on and answers.                 *)

IsAt(w, op, pc) == call[w].op = op /\ call[w].pc = pc

Accept(w, request) == call[w] = Idle /\ call' = [call EXCEPT ![w] = request]

Goto(w, pc) == call' = [call EXCEPT ![w].pc = pc]

FoundRow(w, o, pc) == call' = [call EXCEPT ![w] = [@ EXCEPT !.order = o, !.pc = pc]]

Return(w) == call' = [call EXCEPT ![w] = Idle]

Spend == calls < MaxCalls /\ calls' = calls + 1 /\ UNCHANGED crashes

(* A webhook is answered 200, so Razorpay stops sending it.                *)
Reply(w) ==
    /\ Return(w)
    /\ due' = due \ {[kind |-> call[w].op, attempt |-> call[w].attempt]}
    /\ UNCHANGED <<rzpOwner, offered, attempt, sent>>

ThisEvent(w) == [kind |-> call[w].op, attempt |-> call[w].attempt]
RzpOf(w) == attempt[call[w].attempt].rzp

Emit(e) ==
    IF sent[e] = 0
    THEN due' = due \cup {e} /\ sent' = [sent EXCEPT ![e] = 1]
    ELSE UNCHANGED <<due, sent>>

(* Writing status s to the Payment row of o: history of PAID left behind.  *)
Demote(o, s) ==
    demotions' = [demotions EXCEPT ![o] =
                    IF payment[o].status = "PAID" /\ s # "PAID" THEN @ + 1 ELSE @]

-----------------------------------------------------------------------------
(* orders.service: createOrder.                                            *)

PlaceOrder(w, o, m) ==
    /\ order[o].status = "ABSENT"
    /\ Accept(w, [Idle EXCEPT !.op = "place", !.pc = "earnings", !.order = o])
    /\ order' = [order EXCEPT ![o] =
          [status |-> IF m = "COD" THEN "CONFIRMED" ELSE "PENDING", pay |-> "PENDING", method |-> m]]
    /\ IF m = "COD"
       THEN /\ payment' = [payment EXCEPT ![o].status = "PENDING"]
            /\ delivery' = [delivery EXCEPT ![o] = "OPEN"]
       ELSE UNCHANGED <<payment, delivery>>
    /\ UNCHANGED <<ledger, claims, tallies, gateway, budget>>

(* Mutant: every order gets a rider, paid for or not.                      *)
PostEarningsAlwaysAssign(w) ==
    /\ IsAt(w, "place", "earnings")
    /\ earned' = [earned EXCEPT ![call[w].order] = @ + 1]
    /\ Goto(w, "assign")
    /\ UNCHANGED <<rows, restores, credits, demotions, gateway, budget>>

(* updateVendorEarnings, after the transaction (LoseEarnings: it throws).  *)
PostEarnings(w) ==
    /\ IsAt(w, "place", "earnings")
    /\ earned' = [earned EXCEPT ![call[w].order] = @ + 1]
    /\ IF order[call[w].order].method = "COD" THEN Goto(w, "assign") ELSE Return(w)
    /\ UNCHANGED <<rows, restores, credits, demotions, gateway, budget>>

-----------------------------------------------------------------------------
(* Assigning a rider: automatically at the end of createOrder (COD) and of  *)
(* verifyPayment, which share this code, or by the admin.                  *)

Assigning == {"place", "verify", "dispatch"}

(* admin.service: assignDeliveryBoy, up to the read of the rider.          *)
DispatchBegin(w, o) ==
    /\ order[o].status # "ABSENT"
    /\ order[o].pay = "PAID" \/ order[o].method = "COD"
    /\ Accept(w, [Idle EXCEPT !.op = "dispatch", !.pc = "assign", !.order = o])
    /\ UNCHANGED <<rows, tallies, gateway>>
    /\ Spend

AssignRider(w) ==
    /\ call[w].op \in Assigning /\ call[w].pc = "assign"
    /\ delivery' = [delivery EXCEPT ![call[w].order] = "ASSIGNED"]
    /\ Goto(w, "confirm")
    /\ UNCHANGED <<order, payment, ledger, claims, tallies, gateway, budget>>

(* The order is not LOCAL, no rider is approved and available, or the      *)
(* lookup failed.                                                          *)
NoRider(w) ==
    /\ call[w].op \in Assigning /\ call[w].pc = "assign"
    /\ Return(w)
    /\ UNCHANGED <<rows, tallies, gateway, budget>>

ConfirmAssigned(w) ==
    /\ call[w].op \in Assigning /\ call[w].pc = "confirm"
    /\ order' = [order EXCEPT ![call[w].order].status =
                    IF call[w].op = "dispatch" THEN "PACKED" ELSE "CONFIRMED"]
    /\ Return(w)
    /\ UNCHANGED <<payment, delivery, ledger, claims, tallies, gateway, budget>>

-----------------------------------------------------------------------------
(* createRazorpayOrder.                                                    *)

CreateBegin(w, o) ==
    /\ order[o].status # "ABSENT"
    /\ order[o].pay # "PAID"
    /\ Accept(w, [Idle EXCEPT !.op = "create", !.pc = "gateway", !.order = o])
    /\ UNCHANGED <<rows, tallies, gateway>>
    /\ Spend

CreateAtGateway(w, r) ==
    /\ IsAt(w, "create", "gateway")
    /\ rzpOwner[r] = None
    /\ rzpOwner' = [rzpOwner EXCEPT ![r] = call[w].order]
    /\ call' = [call EXCEPT ![w] = [@ EXCEPT !.pc = "upsert", !.rzp = r]]
    /\ UNCHANGED <<rows, tallies, offered, attempt, due, sent, budget>>

CreateFails(w) ==
    /\ IsAt(w, "create", "gateway")
    /\ Return(w)
    /\ UNCHANGED <<rows, tallies, gateway, budget>>

(* Mutant: a new attempt to pay resets the row.                            *)
CreateUpsertResets(w) ==
    LET o == call[w].order IN
    /\ IsAt(w, "create", "upsert")
    /\ payment' = [payment EXCEPT ![o] = [@ EXCEPT !.rzp = call[w].rzp, !.status = "PENDING"]]
    /\ offered' = offered \cup {call[w].rzp}
    /\ Return(w)
    /\ UNCHANGED <<order, delivery, ledger, claims, tallies, rzpOwner, attempt, due, sent, budget>>

(* upsert: creates the row PENDING, or only replaces its razorpayOrderId.  *)
CreateUpsert(w) ==
    LET o == call[w].order IN
    /\ IsAt(w, "create", "upsert")
    /\ payment' = [payment EXCEPT ![o] =
          [@ EXCEPT !.rzp = call[w].rzp,
                    !.status = IF payment[o].status = "ABSENT" THEN "PENDING" ELSE payment[o].status]]
    /\ offered' = offered \cup {call[w].rzp}
    /\ Return(w)
    /\ UNCHANGED <<order, delivery, ledger, claims, tallies, rzpOwner, attempt, due, sent, budget>>

-----------------------------------------------------------------------------
(* Razorpay (external): a customer pays in the modal; a refund is issued.  *)

Pay(p, r, outcome) ==
    /\ r \in offered
    /\ attempt[p].outcome = "none"
    /\ \A q \in Attempts : attempt[q].rzp = r => attempt[q].outcome # "captured"
    /\ attempt' = [attempt EXCEPT ![p] = [rzp |-> r, outcome |-> outcome]]
    /\ Emit([kind |-> outcome, attempt |-> p])
    /\ UNCHANGED <<rows, tallies, rzpOwner, offered, call, budget>>

DashboardRefund(p) ==
    /\ attempt[p].outcome = "captured"
    /\ sent[[kind |-> "refund", attempt |-> p]] = 0
    /\ Emit([kind |-> "refund", attempt |-> p])
    /\ UNCHANGED <<rows, tallies, rzpOwner, offered, attempt, call>>
    /\ Spend

Deliver(w, e) ==
    /\ sent[e] \in 1..MaxSends
    /\ sent' = [sent EXCEPT ![e] = @ + 1]
    /\ Accept(w, [Idle EXCEPT !.op = e.kind, !.attempt = e.attempt,
                              !.pc = IF e.kind = "captured" THEN "event" ELSE "row"])
    /\ UNCHANGED <<rows, tallies, rzpOwner, offered, attempt, due, budget>>

-----------------------------------------------------------------------------
(* verifyPayment: the client returns with a captured attempt, whose        *)
(* signature covers the Razorpay order and the attempt, and with the id of *)
(* an order, which is compared with neither.                               *)

VerifyBegin(w, p, o) ==
    /\ attempt[p].outcome = "captured"
    /\ order[o].status # "ABSENT"
    /\ Accept(w, [Idle EXCEPT !.op = "verify", !.pc = "tx", !.attempt = p, !.order = o])
    /\ UNCHANGED <<rows, tallies, gateway>>
    /\ Spend

(* The order confirmed and paid, a delivery row created if there is none.  *)
MarkPaid(o, p, event) ==
    /\ payment' = [payment EXCEPT ![o] = [@ EXCEPT !.status = "PAID", !.payId = p, !.event = event]]
    /\ order' = [order EXCEPT ![o] = [@ EXCEPT !.pay = "PAID", !.status = "CONFIRMED"]]
    /\ delivery' = [delivery EXCEPT ![o] = IF @ = "NONE" THEN "OPEN" ELSE @]

VerifyTx(w) ==
    LET o == call[w].order IN
    /\ IsAt(w, "verify", "tx")
    /\ payment[o].status # "ABSENT"
    /\ MarkPaid(o, call[w].attempt, payment[o].event)
    /\ claims' = [claims EXCEPT ![o] = IF rzpOwner[RzpOf(w)] = o THEN @ ELSE @ \cup {call[w].attempt}]
    /\ Goto(w, "assign")
    /\ UNCHANGED <<ledger, tallies, gateway, budget>>

(* The order has no Payment row: the update throws and nothing is written. *)
VerifyNoRow(w) ==
    /\ IsAt(w, "verify", "tx")
    /\ payment[call[w].order].status = "ABSENT"
    /\ Return(w)
    /\ UNCHANGED <<rows, tallies, gateway, budget>>

-----------------------------------------------------------------------------
(* Webhook payment.captured.                                               *)

CapturedCheckEvent(w) ==
    /\ IsAt(w, "captured", "event")
    /\ IF \E o \in Orders : payment[o].event = ThisEvent(w)
       THEN Reply(w)
       ELSE Goto(w, "row") /\ UNCHANGED gateway
    /\ UNCHANGED <<rows, tallies, budget>>

CapturedNoRow(w) ==
    /\ IsAt(w, "captured", "row")
    /\ \A o \in Orders : payment[o].rzp # RzpOf(w)
    /\ Reply(w)
    /\ UNCHANGED <<rows, tallies, budget>>

(* Mutant: the row is looked up without the razorpayOrderId.               *)
CapturedReadRowAny(w, o) ==
    /\ IsAt(w, "captured", "row")
    /\ payment[o].status # "ABSENT"
    /\ FoundRow(w, o, IF payment[o].status = "PAID" THEN "mark" ELSE "tx")
    /\ UNCHANGED <<rows, tallies, gateway, budget>>

(* Mutant: no look at payment.status.                                      *)
CapturedReadRowUnchecked(w, o) ==
    /\ IsAt(w, "captured", "row")
    /\ payment[o].rzp = RzpOf(w)
    /\ FoundRow(w, o, "tx")
    /\ UNCHANGED <<rows, tallies, gateway, budget>>


CapturedReadRow(w, o) ==
    /\ IsAt(w, "captured", "row")
    /\ payment[o].rzp = RzpOf(w)
    /\ FoundRow(w, o, IF payment[o].status = "PAID" THEN "mark" ELSE "tx")
    /\ UNCHANGED <<rows, tallies, gateway, budget>>

CapturedMark(w) ==
    /\ IsAt(w, "captured", "mark")
    /\ payment' = [payment EXCEPT ![call[w].order].event = ThisEvent(w)]
    /\ Reply(w)
    /\ UNCHANGED <<order, delivery, ledger, claims, tallies, budget>>

CapturedTx(w) ==
    LET o == call[w].order IN
    /\ IsAt(w, "captured", "tx")
    /\ MarkPaid(o, call[w].attempt, ThisEvent(w))
    /\ ledger' = [ledger EXCEPT ![o] = TRUE]
    /\ credits' = [credits EXCEPT ![o] = @ + 1]
    /\ earned' = [earned EXCEPT ![o] = @ + 1]
    /\ Goto(w, "reply")
    /\ UNCHANGED <<claims, restores, demotions, gateway, budget>>

(* Notifications are sent; one that throws leaves the webhook unanswered.  *)
NotifyAndReply(w) ==
    /\ call[w].op \in {"captured", "failed"} /\ call[w].pc = "reply"
    /\ Reply(w)
    /\ UNCHANGED <<rows, tallies, budget>>

-----------------------------------------------------------------------------
(* Webhook payment.failed.                                                 *)

FailedSkip(w) ==
    /\ IsAt(w, "failed", "row")
    /\ \A o \in Orders : payment[o].rzp = RzpOf(w) => payment[o].event = ThisEvent(w)
    /\ Reply(w)
    /\ UNCHANGED <<rows, tallies, budget>>

FailedReadRow(w, o) ==
    /\ IsAt(w, "failed", "row")
    /\ payment[o].rzp = RzpOf(w)
    /\ payment[o].event # ThisEvent(w)
    /\ FoundRow(w, o, "tx")
    /\ UNCHANGED <<rows, tallies, gateway, budget>>

(* Mutant: the order's paymentStatus is left as it was.                    *)
FailedTxRowOnly(w) ==
    LET o == call[w].order IN
    /\ IsAt(w, "failed", "tx")
    /\ payment' = [payment EXCEPT ![o] = [@ EXCEPT !.status = "FAILED", !.event = ThisEvent(w)]]
    /\ order' = [order EXCEPT ![o].status = "CANCELLED"]
    /\ Demote(o, "FAILED")
    /\ Goto(w, "restore")
    /\ UNCHANGED <<delivery, ledger, claims, earned, restores, credits, gateway, budget>>

(* Mutant: the payment's status is written to the order's status.          *)
FailedTxWrongColumn(w) ==
    LET o == call[w].order IN
    /\ IsAt(w, "failed", "tx")
    /\ payment' = [payment EXCEPT ![o] = [@ EXCEPT !.status = "FAILED", !.event = ThisEvent(w)]]
    /\ order' = [order EXCEPT ![o] = [@ EXCEPT !.pay = "FAILED", !.status = "FAILED"]]
    /\ Demote(o, "FAILED")
    /\ Goto(w, "restore")
    /\ UNCHANGED <<delivery, ledger, claims, earned, restores, credits, gateway, budget>>

FailedTx(w) ==
    LET o == call[w].order IN
    /\ IsAt(w, "failed", "tx")
    /\ payment' = [payment EXCEPT ![o] = [@ EXCEPT !.status = "FAILED", !.event = ThisEvent(w)]]
    /\ order' = [order EXCEPT ![o] = [@ EXCEPT !.pay = "FAILED", !.status = "CANCELLED"]]
    /\ Demote(o, "FAILED")
    /\ Goto(w, "restore")
    /\ UNCHANGED <<delivery, ledger, claims, earned, restores, credits, gateway, budget>>

(* restoreStock runs after the transaction.                                *)
FailedRestore(w) ==
    /\ IsAt(w, "failed", "restore")
    /\ restores' = [restores EXCEPT ![call[w].order] = @ + 1]
    /\ Goto(w, "reply")
    /\ UNCHANGED <<rows, earned, credits, demotions, gateway, budget>>

-----------------------------------------------------------------------------
(* Webhook refund.created: two updates, not one transaction.               *)

RefundedNoRow(w) ==
    /\ IsAt(w, "refund", "row")
    /\ \A o \in Orders : payment[o].payId # call[w].attempt
    /\ Reply(w)
    /\ UNCHANGED <<rows, tallies, budget>>

(* Mutant: a row that says REFUNDED is taken for done, as the other        *)
(* webhooks take theirs.                                                   *)
RefundedReadRowOnce(w, o) ==
    /\ IsAt(w, "refund", "row")
    /\ payment[o].payId = call[w].attempt
    /\ IF payment[o].status = "REFUNDED"
       THEN Reply(w)
       ELSE FoundRow(w, o, "tx") /\ UNCHANGED gateway
    /\ UNCHANGED <<rows, tallies, budget>>

RefundedReadRow(w, o) ==
    /\ IsAt(w, "refund", "row")
    /\ payment[o].payId = call[w].attempt
    /\ FoundRow(w, o, "tx")
    /\ UNCHANGED <<rows, tallies, gateway, budget>>

RefundedPayment(w) ==
    LET o == call[w].order IN
    /\ IsAt(w, "refund", "tx")
    /\ payment' = [payment EXCEPT ![o].status = "REFUNDED"]
    /\ Demote(o, "REFUNDED")
    /\ Goto(w, "order")
    /\ UNCHANGED <<order, delivery, ledger, claims, earned, restores, credits, gateway, budget>>

RefundedOrder(w) ==
    /\ IsAt(w, "refund", "order")
    /\ order' = [order EXCEPT ![call[w].order].pay = "REFUNDED"]
    /\ Reply(w)
    /\ UNCHANGED <<payment, delivery, ledger, claims, tallies, budget>>

-----------------------------------------------------------------------------
(* processRefund (admin).                                                  *)

RefundApiBegin(w, o) ==
    /\ payment[o].status = "PAID"
    /\ payment[o].payId # None
    /\ Accept(w, [Idle EXCEPT !.op = "refundApi", !.pc = "gateway", !.order = o,
                              !.attempt = payment[o].payId])
    /\ UNCHANGED <<rows, tallies, gateway>>
    /\ Spend

RefundApiGateway(w) ==
    /\ IsAt(w, "refundApi", "gateway")
    /\ Emit([kind |-> "refund", attempt |-> call[w].attempt])
    /\ Goto(w, "tx")
    /\ UNCHANGED <<rows, tallies, rzpOwner, offered, attempt, budget>>

RefundApiFails(w) ==
    /\ IsAt(w, "refundApi", "gateway")
    /\ Return(w)
    /\ UNCHANGED <<rows, tallies, gateway, budget>>

RefundRows(o) ==
    /\ payment' = [payment EXCEPT ![o].status = IF @ = "ABSENT" THEN @ ELSE "REFUNDED"]
    /\ Demote(o, "REFUNDED")

RefundApiTx(w) ==
    /\ IsAt(w, "refundApi", "tx")
    /\ RefundRows(call[w].order)
    /\ order' = [order EXCEPT ![call[w].order].pay = "REFUNDED"]
    /\ Return(w)
    /\ UNCHANGED <<delivery, ledger, claims, earned, restores, credits, gateway, budget>>

-----------------------------------------------------------------------------
(* orders.service: cancelOrder, and the admin's status override.           *)

CancelBegin(w, o) ==
    /\ order[o].status \in {"PENDING", "CONFIRMED"}
    /\ Accept(w, [Idle EXCEPT !.op = "cancel", !.pc = "tx", !.order = o,
                              !.sawPaid = (order[o].pay = "PAID")])
    /\ UNCHANGED <<rows, tallies, gateway>>
    /\ Spend

(* The refund branch trusts the paymentStatus read before the transaction. *)
CancelTx(w) ==
    LET o == call[w].order IN
    /\ IsAt(w, "cancel", "tx")
    /\ order' = [order EXCEPT ![o] =
          [@ EXCEPT !.status = "CANCELLED",
                    !.pay = IF call[w].sawPaid THEN "REFUNDED" ELSE order[o].pay]]
    /\ IF call[w].sawPaid THEN RefundRows(o) ELSE UNCHANGED <<payment, demotions>>
    /\ restores' = [restores EXCEPT ![o] = @ + 1]
    /\ Goto(w, "reverse")
    /\ UNCHANGED <<delivery, ledger, claims, earned, credits, gateway, budget>>

CancelReverse(w) ==
    /\ IsAt(w, "cancel", "reverse")
    /\ earned' = [earned EXCEPT ![call[w].order] = @ - 1]
    /\ Return(w)
    /\ UNCHANGED <<rows, restores, credits, demotions, gateway, budget>>

(* An update of vendor.totalEarnings throws, at the end of createOrder or  *)
(* of cancelOrder: the error is swallowed and the request goes on.         *)
LoseEarnings(w) ==
    /\ IsAt(w, "place", "earnings") \/ IsAt(w, "cancel", "reverse")
    /\ crashes < MaxCrashes
    /\ crashes' = crashes + 1
    /\ IF call[w].op = "place" /\ order[call[w].order].method = "COD"
       THEN Goto(w, "assign")
       ELSE Return(w)
    /\ UNCHANGED <<rows, tallies, gateway, calls>>

AdminSetStatus(o, s) ==
    /\ order[o].status # "ABSENT"
    /\ order' = [order EXCEPT ![o].status = s]
    /\ UNCHANGED <<payment, delivery, ledger, claims, tallies, gateway, call>>
    /\ Spend

-----------------------------------------------------------------------------
(* A process dies (PM2 restarts it) or a database call throws: the request *)
(* is gone, what it had committed stays, a webhook stays unanswered.       *)
Crash(w) ==
    /\ call[w] # Idle
    /\ crashes < MaxCrashes
    /\ crashes' = crashes + 1
    /\ Return(w)
    /\ UNCHANGED <<rows, tallies, gateway, calls>>

-----------------------------------------------------------------------------
OrdersStep(w) ==
    \/ \E o \in Orders, m \in Methods : PlaceOrder(w, o, m)
    \/ PostEarnings(w)
    \/ \E o \in Orders : CancelBegin(w, o)
    \/ CancelTx(w)
    \/ CancelReverse(w)
    \/ LoseEarnings(w)

AssignStep(w) == AssignRider(w) \/ NoRider(w) \/ ConfirmAssigned(w)

CheckoutStep(w) ==
    \/ \E o \in Orders : CreateBegin(w, o)
    \/ \E r \in RzpOrders : CreateAtGateway(w, r)
    \/ CreateFails(w)
    \/ CreateUpsert(w)
    \/ \E p \in Attempts, o \in Orders : VerifyBegin(w, p, o)
    \/ VerifyTx(w)
    \/ VerifyNoRow(w)

CapturedStep(w) ==
    \/ CapturedCheckEvent(w)
    \/ CapturedNoRow(w)
    \/ \E o \in Orders : CapturedReadRow(w, o)
    \/ CapturedMark(w)
    \/ CapturedTx(w)

FailedStep(w) ==
    \/ FailedSkip(w)
    \/ \E o \in Orders : FailedReadRow(w, o)
    \/ FailedTx(w)
    \/ FailedRestore(w)

RefundedStep(w) ==
    \/ RefundedNoRow(w)
    \/ \E o \in Orders : RefundedReadRow(w, o)
    \/ RefundedPayment(w)
    \/ RefundedOrder(w)

RefundApiStep(w) ==
    \/ \E o \in Orders : RefundApiBegin(w, o)
    \/ RefundApiGateway(w)
    \/ RefundApiFails(w)
    \/ RefundApiTx(w)

GatewayStep ==
    \/ \E p \in Attempts, r \in RzpOrders, k \in {"captured", "failed"} : Pay(p, r, k)
    \/ \E p \in Attempts : DashboardRefund(p)

Next ==
    \/ \E w \in Workers :
          \/ OrdersStep(w) \/ AssignStep(w) \/ CheckoutStep(w)
          \/ \E o \in Orders : DispatchBegin(w, o)
          \/ CapturedStep(w) \/ FailedStep(w) \/ RefundedStep(w) \/ NotifyAndReply(w)
          \/ RefundApiStep(w) \/ Crash(w)
          \/ \E e \in Events : Deliver(w, e)
    \/ \E o \in Orders, s \in OrderStatus : AdminSetStatus(o, s)
    \/ GatewayStep

Spec == Init /\ [][Next]_vars

-----------------------------------------------------------------------------
(* Fairness: a request in flight goes on (the event loop and the database  *)
(* answer), and Razorpay delivers again what was not answered.             *)
Proceed(w) ==
    \/ PostEarnings(w) \/ CancelTx(w) \/ CancelReverse(w) \/ AssignStep(w)
    \/ (\E r \in RzpOrders : CreateAtGateway(w, r)) \/ CreateFails(w) \/ CreateUpsert(w)
    \/ VerifyTx(w) \/ VerifyNoRow(w) \/ NotifyAndReply(w)
    \/ CapturedStep(w) \/ FailedStep(w) \/ RefundedStep(w)
    \/ RefundApiGateway(w) \/ RefundApiFails(w) \/ RefundApiTx(w)

Redeliver(e) == e \in due /\ \E w \in Workers : Deliver(w, e)

FairSpec ==
    /\ Spec
    /\ \A w \in Workers : WF_vars(Proceed(w))
    /\ \A e \in Events : WF_vars(Redeliver(e))

-----------------------------------------------------------------------------
(* Properties.                                                             *)

(* Every row and every request in flight has its type; the tallies of      *)
(* postings and restorations are counts.                                   *)
TypeOK ==
    /\ order \in [Orders -> OrderRow]
    /\ payment \in [Orders -> PaymentRow]
    /\ delivery \in [Orders -> {"NONE", "OPEN", "ASSIGNED"}]
    /\ ledger \in [Orders -> BOOLEAN]
    /\ claims \in [Orders -> SUBSET Attempts]
    /\ earned \in [Orders -> Int]
    /\ restores \in [Orders -> Nat]
    /\ credits \in [Orders -> Nat]
    /\ demotions \in [Orders -> Nat]
    /\ rzpOwner \in [RzpOrders -> Orders \cup {None}]
    /\ offered \subseteq RzpOrders
    /\ attempt \in [Attempts -> AttemptRow]
    /\ due \subseteq Events
    /\ sent \in [Events -> Nat]
    /\ call \in [Workers -> Calls]
    /\ calls \in Nat
    /\ crashes \in Nat

(* Attempt p captured money for order o.                                   *)
PaidFor(p, o) ==
    /\ p \in Attempts
    /\ attempt[p].outcome = "captured"
    /\ attempt[p].rzp \in RzpOrders
    /\ rzpOwner[attempt[p].rzp] = o

(* It captured money for o, or verifyPayment was told that it did.         *)
Backs(p, o) == PaidFor(p, o) \/ p \in claims[o]

(* What verifyPayment recorded on o, if not money for o, is for another.   *)
ClaimsOK == \A o \in Orders : \A p \in claims[o] : \E q \in Orders \ {o} : PaidFor(p, q)

(* An order or a Payment row that says PAID or REFUNDED names an attempt   *)
(* which captured money for this very order, or which verifyPayment        *)
(* recorded on it, whatever cancellations, refunds and webhooks were       *)
(* interleaved (verify, captured, cancel, refund.created and processRefund *)
(* write these columns); and what verifyPayment recorded is an attempt     *)
(* that captured money, if for another order.                              *)
MoneyIsReal ==
    /\ ClaimsOK
    /\ \A o \in Orders :
          order[o].pay \in {"PAID", "REFUNDED"} \/ payment[o].status \in {"PAID", "REFUNDED"}
              => Backs(payment[o].payId, o)

(* order.paymentStatus and payment.status never differ (no row counts as   *)
(* PENDING) for an order unless Razorpay sent a refund.created about an    *)
(* attempt that paid for it, or that verifyPayment recorded on it: every   *)
(* other handler writes both in one transaction, refund.created does not.  *)
RowsAgree ==
    \A o \in Orders :
        (\A p \in Attempts : Backs(p, o) => sent[[kind |-> "refund", attempt |-> p]] = 0)
            => order[o].pay = (IF payment[o].status = "ABSENT" THEN "PENDING" ELSE payment[o].status)

(* Requests that read the row of o as not PAID and have yet to commit.     *)
Crediting(o) == {w \in Workers : IsAt(w, "captured", "tx") /\ call[w].order = o}

(* payment.captured credits the vendors at most once per request in        *)
(* flight, for each time the payment had to become PAID anew: the check of *)
(* payment.status outside the transaction bounds the duplicates, whatever  *)
(* is delivered, duplicated or retried, and makes it exactly once when     *)
(* webhooks are served one at a time.                                      *)
CreditBound ==
    \A o \in Orders : credits[o] <= Cardinality(Workers) * (demotions[o] + 1)

(* A rider is assigned only to a COD order or to one whose payment was      *)
(* recorded (createOrder, verifyPayment and the admin all assign).         *)
DispatchedIsPayable ==
    \A o \in Orders :
        delivery[o] = "ASSIGNED" => order[o].method = "COD" \/ payment[o].payId # None

(* The protocol, seen as the money of its orders.                          *)
Promise == INSTANCE OrderMoney WITH
    cash   <- {o \in Orders : order[o].status # "ABSENT" /\ order[o].method = "COD"},
    taken  <- [o \in Orders |-> {p \in Attempts : PaidFor(p, o)}],
    word   <- claims,
    book   <- [o \in Orders |-> payment[o].status],
    shown  <- [o \in Orders |-> order[o].pay],
    proof  <- [o \in Orders |-> payment[o].payId],
    riding <- {o \in Orders : delivery[o] = "ASSIGNED"}

(* Whatever is interleaved, repeated, reordered or lost in a crash, the    *)
(* handlers keep the promise of OrderMoney: they record only money taken,  *)
(* for that order unless verifyPayment is told so of money taken for       *)
(* another, in both rows at once, never take a row back to PENDING, mark   *)
(* returned only what was recorded, and hand over nothing unrecorded.      *)
KeepsPromise == Promise!Spec


(* A payment marked REFUNDED about which Razorpay awaits an answer is      *)
(* eventually shown so by its order, though a process may die between the  *)
(* two updates of refund.created: unless it is recorded anew, or the row   *)
(* of another order names the same attempt, which the repeated webhook may *)
(* find instead.                                                           *)
RefundShown ==
    \A o \in Orders :
        payment[o].status = "REFUNDED" /\ [kind |-> "refund", attempt |-> payment[o].payId] \in due ~>
            \/ order[o].pay = "REFUNDED" \/ payment[o].status # "REFUNDED"
            \/ \E q \in Orders \ {o} : payment[q].payId = payment[o].payId

-----------------------------------------------------------------------------
(* The inductive invariant behind them.                                    *)

Placed(o) == o \in Orders /\ order[o].status # "ABSENT"

(* What Razorpay knows is about orders that exist, and it emits no event   *)
(* about an attempt that did not end that way.                             *)
GatewayOK ==
    /\ \A r \in RzpOrders : rzpOwner[r] # None => Placed(rzpOwner[r])
    /\ \A r \in offered : rzpOwner[r] # None
    /\ \A p \in Attempts : attempt[p].outcome # "none" =>
          attempt[p].rzp \in RzpOrders /\ rzpOwner[attempt[p].rzp] # None
    /\ \A e \in Events : sent[e] > 0 =>
          attempt[e.attempt].outcome = (IF e.kind = "failed" THEN "failed" ELSE "captured")

(* A Payment row belongs to an order that exists, holds a Razorpay order   *)
(* of it, and names an attempt that backs it from its first payment on.    *)
RowOK(o) ==
    /\ order[o].status = "ABSENT" =>
          /\ payment[o].status = "ABSENT" /\ payment[o].rzp = None
          /\ order[o].pay = "PENDING" /\ delivery[o] = "NONE"
    /\ payment[o].rzp # None => rzpOwner[payment[o].rzp] = o
    /\ payment[o].payId # None => Backs(payment[o].payId, o)
    /\ payment[o].status \in {"ABSENT", "PENDING"} => payment[o].payId = None
    /\ payment[o].status \in {"PAID", "REFUNDED"} => payment[o].payId # None
    /\ order[o].pay \in {"PAID", "REFUNDED"} => payment[o].payId # None
    /\ delivery[o] = "ASSIGNED" => order[o].method = "COD" \/ payment[o].payId # None

RowsOK == \A o \in Orders : RowOK(o)

(* A webhook that has yet to find its Payment row.                         *)
Searching(w) == call[w].op \in EventKinds /\ call[w].pc \in {"event", "row"}

(* What a request in flight read is still true of the rows it will write.  *)
FrameOK(w) ==
    LET c == call[w] IN
    /\ c.op # "idle" /\ ~Searching(w) => Placed(c.order)
    /\ c.op = "create" /\ c.pc = "upsert" => c.rzp \in RzpOrders /\ rzpOwner[c.rzp] = c.order
    /\ c.op \in {"captured", "refund", "verify"} =>
          c.attempt \in Attempts /\ attempt[c.attempt].outcome = "captured"
    /\ c.op = "failed" => c.attempt \in Attempts /\ attempt[c.attempt].outcome = "failed"
    /\ IsAt(w, "captured", "tx") => PaidFor(c.attempt, c.order)
    /\ c.op = "refundApi" \/ (c.op = "refund" /\ ~Searching(w)) \/ (c.op = "cancel" /\ c.sawPaid)
          => payment[c.order].payId # None
    /\ c.op = "refundApi" => c.attempt \in Attempts /\ attempt[c.attempt].outcome = "captured"
    /\ c.op \in Assigning /\ c.pc = "assign" =>
          order[c.order].method = "COD" \/ payment[c.order].payId # None

FramesOK == \A w \in Workers : FrameOK(w)

(* Requests about to credit an order count against the bound while it is   *)
(* PAID; while it is not, every credit so far was paid for by a demotion.  *)
Covered(o) ==
    LET n == Cardinality(Workers) IN
    IF payment[o].status = "PAID"
    THEN credits[o] + Cardinality(Crediting(o)) <= n * (demotions[o] + 1)
    ELSE credits[o] <= n * demotions[o]

CreditsCovered == \A o \in Orders : Covered(o)

Inv == TypeOK /\ GatewayOK /\ RowsOK /\ FramesOK /\ ClaimsOK

-----------------------------------------------------------------------------
(* What the documentation says and the code does not do.                   *)

(* README.md:650: the payment of an order cancelled after payment is       *)
(* REFUNDED: cancelOrder never leaves behind an order that is PAID.        *)
CancelRefunds ==
    [][\A w \in Workers : CancelTx(w) => order'[call[w].order].pay # "PAID"]_vars

(* README.md:1148: the stock of an order whose payment failed is restored, *)
(* which prevents permanent inventory loss.                                *)
FailureRestocks ==
    \A o \in Orders : payment[o].status = "FAILED" ~> restores[o] > 0
=============================================================================
