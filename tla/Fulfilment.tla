----------------------------- MODULE Fulfilment -----------------------------
(***************************************************************************)
(* From a confirmed order to the money that is owed for it: the rider a    *)
(* handler or the admin assigns, pick-up and delivery, the settlement that *)
(* delivery.service.ts writes afterwards, and the other carrier            *)
(* (Shiprocket), to which the admin may move the order.                    *)
(*                                                                         *)
(* A request in flight occupies a worker and each await is a step.  The    *)
(* settlement is not a transaction: a dozen awaits in a try block whose    *)
(* catch only logs.  Nothing in it looks at what an earlier one wrote.     *)
(*                                                                         *)
(* Abstracted: amounts (a row or an increment is counted); the choice of   *)
(* the nearest or least loaded rider (any eligible one); the OTP (a wrong  *)
(* one is answered 400 before anything is written); payment status (the    *)
(* orders here are COD or paid).                                           *)
(***************************************************************************)
EXTENDS Integers, FiniteSets, FiniteSetsExt

CONSTANTS
    Orders, Riders, Vendors, Workers, None,
    VendorsOf,    \* VendorsOf[o]: the vendors with items in order o
    MaxCalls,     \* bound: requests of riders and admins
    MaxCrashes,   \* bound: processes killed, database or notification calls that throw
    MaxUnnamed    \* bound: answers of Shiprocket that name no order

ASSUME VendorsOfAssumption == VendorsOf \in [Orders -> SUBSET Vendors]
ASSUME FiniteAssumption == IsFiniteSet(Workers) /\ IsFiniteSet(Orders) /\ IsFiniteSet(Riders)
ASSUME NoneAssumption == None \notin Orders \cup Riders \cup Vendors
ASSUME BoundsAssumption == MaxCalls \in Nat /\ MaxCrashes \in Nat /\ MaxUnnamed \in Nat

OrderStatus == {"CONFIRMED", "PACKED", "OUT_FOR_DELIVERY", "SHIPPED", "DELIVERED", "CANCELLED"}
DeliveryType == {"LOCAL", "SHIPROCKET"}
Ops == {"idle", "auto", "admin", "pick", "deliver", "type", "ship", "toggle"}
Labels == {"idle", "assign", "status", "count", "tx", "gst", "commission", "settlement", "vendor",
           "payout", "boy", "ledger", "gateway", "record", "unnamed", "mock", "toggle"}

(* An OrderDelivery row; id 0 is no row.                                   *)
DeliveryRow == [id : Nat, rider : Riders \cup {None}, delivered : BOOLEAN]
NoRow == [id |-> 0, rider |-> None, delivered |-> FALSE]

Calls == [op : Ops, pc : Labels, order : Orders \cup {None}, rider : Riders \cup {None},
          row : Nat, to : DeliveryType, saw : BOOLEAN,
          todo : SUBSET Vendors, vendor : Vendors \cup {None}]
Idle == [op |-> "idle", pc |-> "idle", order |-> None, rider |-> None, row |-> 0,
         to |-> "LOCAL", saw |-> FALSE, todo |-> {}, vendor |-> None]

VARIABLES
    status, carrier,  \* order.status, order.deliveryType
    overridden,   \* history: order.status was written by someone else than this module's requests
    shipment,     \* order.shiprocketOrderId: "none", "blank" (''), "real" or "mock"
    shipped,      \* Shiprocket: orders created there for order o
    unnamed,      \* history: answers about o that named no order
    delivery,     \* delivery[o]: the OrderDelivery row
    issued,       \* OrderDelivery rows created so far for o: the ids
    approved, available,  \* riders: approvalStatus is APPROVED, isAvailable
    vetted,       \* history: riders an admin approved at some time
    deliveries,   \* deliveryBoy.totalDeliveries
    riderEarned,  \* increments of deliveryBoy.totalEarnings
    completed,    \* history: times the transaction of DELIVERED committed for o
    gst,          \* a GstTransaction row of o exists
    commissions, settlements,  \* Commission and VendorSettlement rows of o and v
    vendorEarned, \* increments of vendor.totalEarnings for o and v, by settlements
    payouts,      \* payouts[o][r]: DeliveryPayout rows of o to r
    ledger,       \* PaymentLedger row of o: "none", "captured" (no payout in it) or "settled"
    call, calls, crashes

orders == <<status, carrier, overridden, shipment, shipped, unnamed>>
rows == <<delivery, issued>>
fleet == <<approved, available, vetted>>
books == <<riderEarned, gst, commissions, settlements, vendorEarned, payouts, ledger>>
budget == <<calls, crashes>>
vars == <<orders, rows, fleet, deliveries, completed, books, call, budget>>

Init ==
    /\ status = [o \in Orders |-> "CONFIRMED"]
    /\ carrier \in [Orders -> DeliveryType]
    /\ overridden = [o \in Orders |-> FALSE]
    /\ shipment = [o \in Orders |-> "none"]
    /\ shipped = [o \in Orders |-> 0]
    /\ unnamed = [o \in Orders |-> 0]
    /\ delivery = [o \in Orders |-> [NoRow EXCEPT !.id = 1]]
    /\ issued = [o \in Orders |-> 1]
    /\ approved \in SUBSET Riders
    /\ available = Riders
    /\ vetted = approved
    /\ deliveries = [r \in Riders |-> 0]
    /\ riderEarned = [r \in Riders |-> 0]
    /\ completed = [o \in Orders |-> 0]
    /\ gst = [o \in Orders |-> FALSE]
    /\ commissions = [o \in Orders |-> [v \in Vendors |-> 0]]
    /\ settlements = [o \in Orders |-> [v \in Vendors |-> 0]]
    /\ vendorEarned = [o \in Orders |-> [v \in Vendors |-> 0]]
    /\ payouts = [o \in Orders |-> [r \in Riders |-> 0]]
    /\ ledger \in [Orders -> {"none", "captured"}]
    /\ call = [w \in Workers |-> Idle]
    /\ calls = 0
    /\ crashes = 0

IsAt(w, op, pc) == call[w].op = op /\ call[w].pc = pc
Accept(w, request) == call[w] = Idle /\ call' = [call EXCEPT ![w] = request]
Goto(w, pc) == call' = [call EXCEPT ![w].pc = pc]
Return(w) == call' = [call EXCEPT ![w] = Idle]
Spend == calls < MaxCalls /\ calls' = calls + 1 /\ UNCHANGED crashes
Fail == crashes < MaxCrashes /\ crashes' = crashes + 1 /\ UNCHANGED calls

-----------------------------------------------------------------------------
(* Riders: admin.service approveDeliveryBoy, delivery.service              *)
(* toggleAvailability (a read, then a write of the opposite).              *)

ApproveDeliveryBoy(r, yes) ==
    /\ approved' = IF yes THEN approved \cup {r} ELSE approved \ {r}
    /\ approved' # approved
    /\ vetted' = vetted \cup approved'
    /\ UNCHANGED <<orders, rows, available, deliveries, completed, books, call>>
    /\ Spend

ToggleBegin(w, r) ==
    /\ Accept(w, [Idle EXCEPT !.op = "toggle", !.pc = "toggle", !.rider = r,
                              !.saw = (r \in available)])
    /\ UNCHANGED <<orders, rows, fleet, deliveries, completed, books>>
    /\ Spend

ToggleWrite(w) ==
    /\ IsAt(w, "toggle", "toggle")
    /\ available' = IF call[w].saw THEN available \ {call[w].rider} ELSE available \cup {call[w].rider}
    /\ Return(w)
    /\ UNCHANGED <<orders, rows, approved, vetted, deliveries, completed, books, budget>>

-----------------------------------------------------------------------------
(* Assigning a rider.                                                      *)

(* The tail of createOrder (COD) and of verifyPayment.                     *)
AutoAssignBegin(w, o, r) ==
    /\ carrier[o] = "LOCAL"
    /\ r \in approved \cap available
    /\ Accept(w, [Idle EXCEPT !.op = "auto", !.pc = "assign", !.order = o, !.rider = r])
    /\ UNCHANGED <<orders, rows, fleet, deliveries, completed, books>>
    /\ Spend

(* admin.service assignDeliveryBoy.                                        *)
AssignBegin(w, o, r) ==
    /\ r \in approved
    /\ Accept(w, [Idle EXCEPT !.op = "admin", !.pc = "assign", !.order = o, !.rider = r])
    /\ UNCHANGED <<orders, rows, fleet, deliveries, completed, books>>
    /\ Spend

(* A fresh row where there is none.                                        *)
Upsert(o, rider) ==
    IF delivery[o].id = 0
    THEN /\ issued' = [issued EXCEPT ![o] = @ + 1]
         /\ delivery' = [delivery EXCEPT ![o] = [NoRow EXCEPT !.id = issued[o] + 1, !.rider = rider]]
    ELSE /\ delivery' = [delivery EXCEPT ![o].rider = IF rider = None THEN @ ELSE rider]
         /\ UNCHANGED issued

AssignRow(w) ==
    /\ call[w].op \in {"auto", "admin"} /\ call[w].pc = "assign"
    /\ Upsert(call[w].order, call[w].rider)
    /\ Goto(w, "status")
    /\ UNCHANGED <<orders, fleet, deliveries, completed, books, budget>>

(* Mutant: the status written is none of the enum's.                       *)
AssignStatusAssigned(w) ==
    /\ call[w].op \in {"auto", "admin"} /\ call[w].pc = "status"
    /\ status' = [status EXCEPT ![call[w].order] = "ASSIGNED"]
    /\ Return(w)
    /\ UNCHANGED <<carrier, overridden, shipment, shipped, unnamed, rows, fleet, deliveries, completed, books, budget>>

AssignStatus(w) ==
    /\ call[w].op \in {"auto", "admin"} /\ call[w].pc = "status"
    /\ status' = [status EXCEPT ![call[w].order] = IF call[w].op = "auto" THEN "CONFIRMED" ELSE "PACKED"]
    /\ Return(w)
    /\ UNCHANGED <<carrier, overridden, shipment, shipped, unnamed, rows, fleet, deliveries, completed, books, budget>>

-----------------------------------------------------------------------------
(* updateDeliveryStatus: the rider whose delivery it is picks it up or     *)
(* hands it over.  It may be called again for what is delivered already.   *)

DeliveryBegin(w, o, op) ==
    /\ delivery[o].id > 0
    /\ delivery[o].rider # None
    /\ Accept(w, [Idle EXCEPT !.op = op, !.pc = IF op = "deliver" THEN "count" ELSE "tx", !.order = o,
                              !.rider = delivery[o].rider, !.row = delivery[o].id])
    /\ UNCHANGED <<orders, rows, fleet, deliveries, completed, books>>
    /\ Spend

CountDelivery(w) ==
    /\ IsAt(w, "deliver", "count")
    /\ deliveries' = [deliveries EXCEPT ![call[w].rider] = @ + 1]
    /\ Goto(w, "tx")
    /\ UNCHANGED <<orders, rows, fleet, completed, books, budget>>

PickedUpTx(w) ==
    /\ IsAt(w, "pick", "tx")
    /\ delivery[call[w].order].id = call[w].row
    /\ status' = [status EXCEPT ![call[w].order] = "OUT_FOR_DELIVERY"]
    /\ Return(w)
    /\ UNCHANGED <<carrier, overridden, shipment, shipped, unnamed, rows, fleet, deliveries, completed, books, budget>>

(* Mutant: the rider is paid without a settlement being started.           *)
DeliveredTxSkips(w) ==
    /\ IsAt(w, "deliver", "tx")
    /\ delivery[call[w].order].id = call[w].row
    /\ delivery' = [delivery EXCEPT ![call[w].order].delivered = TRUE]
    /\ status' = [status EXCEPT ![call[w].order] = "DELIVERED"]
    /\ completed' = [completed EXCEPT ![call[w].order] = @ + 1]
    /\ Goto(w, "payout")
    /\ UNCHANGED <<carrier, overridden, shipment, shipped, unnamed, issued, fleet, deliveries, books, budget>>

DeliveredTx(w) ==
    /\ IsAt(w, "deliver", "tx")
    /\ delivery[call[w].order].id = call[w].row
    /\ delivery' = [delivery EXCEPT ![call[w].order].delivered = TRUE]
    /\ status' = [status EXCEPT ![call[w].order] = "DELIVERED"]
    /\ completed' = [completed EXCEPT ![call[w].order] = @ + 1]
    /\ Goto(w, "gst")
    /\ UNCHANGED <<carrier, overridden, shipment, shipped, unnamed, issued, fleet, deliveries, books, budget>>

(* The row read before was deleted meanwhile: the transaction throws.      *)
DeliveryGone(w) ==
    /\ call[w].op \in {"pick", "deliver"} /\ call[w].pc = "tx"
    /\ delivery[call[w].order].id # call[w].row
    /\ Return(w)
    /\ UNCHANGED <<orders, rows, fleet, deliveries, completed, books, budget>>

-----------------------------------------------------------------------------
(* processSettlementsAndPayouts, await by await.                           *)

(* The vendors of the order are done one after the other.                  *)
NextVendor(w, todo) ==
    \/ /\ todo = {}
       /\ call' = [call EXCEPT ![w] = [@ EXCEPT !.pc = "payout", !.todo = {}, !.vendor = None]]
    \/ \E v \in todo :
          call' = [call EXCEPT ![w] = [@ EXCEPT !.pc = "commission", !.todo = todo, !.vendor = v]]

SettleGst(w) ==
    /\ IsAt(w, "deliver", "gst")
    /\ gst' = [gst EXCEPT ![call[w].order] = TRUE]
    /\ NextVendor(w, VendorsOf[call[w].order])
    /\ UNCHANGED <<orders, rows, fleet, deliveries, completed, riderEarned, commissions, settlements,
                   vendorEarned, payouts, ledger, budget>>

SettleCommission(w) ==
    /\ IsAt(w, "deliver", "commission")
    /\ commissions' = [commissions EXCEPT ![call[w].order][call[w].vendor] = @ + 1]
    /\ Goto(w, "settlement")
    /\ UNCHANGED <<orders, rows, fleet, deliveries, completed, riderEarned, gst, settlements,
                   vendorEarned, payouts, ledger, budget>>

SettleVendor(w) ==
    /\ IsAt(w, "deliver", "settlement")
    /\ settlements' = [settlements EXCEPT ![call[w].order][call[w].vendor] = @ + 1]
    /\ Goto(w, "vendor")
    /\ UNCHANGED <<orders, rows, fleet, deliveries, completed, riderEarned, gst, commissions,
                   vendorEarned, payouts, ledger, budget>>

(* Mutant: the vendor's total is incremented once per vendor still to do.  *)
CreditVendorAgain(w) ==
    /\ IsAt(w, "deliver", "vendor")
    /\ vendorEarned' = [vendorEarned EXCEPT ![call[w].order][call[w].vendor] =
                           @ + 1 + Cardinality(call[w].todo)]
    /\ NextVendor(w, call[w].todo \ {call[w].vendor})
    /\ UNCHANGED <<orders, rows, fleet, deliveries, completed, riderEarned, gst, commissions,
                   settlements, payouts, ledger, budget>>

CreditVendor(w) ==
    /\ IsAt(w, "deliver", "vendor")
    /\ vendorEarned' = [vendorEarned EXCEPT ![call[w].order][call[w].vendor] = @ + 1]
    /\ NextVendor(w, call[w].todo \ {call[w].vendor})
    /\ UNCHANGED <<orders, rows, fleet, deliveries, completed, riderEarned, gst, commissions,
                   settlements, payouts, ledger, budget>>

(* Mutant: the payout goes to whom the row names now.                      *)
PayoutToCurrent(w) ==
    LET o == call[w].order
        r == IF delivery[o].rider = None THEN call[w].rider ELSE delivery[o].rider IN
    /\ IsAt(w, "deliver", "payout")
    /\ payouts' = [payouts EXCEPT ![o][r] = @ + 1]
    /\ Goto(w, "boy")
    /\ UNCHANGED <<orders, rows, fleet, deliveries, completed, riderEarned, gst, commissions,
                   settlements, vendorEarned, ledger, budget>>

Payout(w) ==
    /\ IsAt(w, "deliver", "payout")
    /\ payouts' = [payouts EXCEPT ![call[w].order][call[w].rider] = @ + 1]
    /\ Goto(w, "boy")
    /\ UNCHANGED <<orders, rows, fleet, deliveries, completed, riderEarned, gst, commissions,
                   settlements, vendorEarned, ledger, budget>>

CreditRider(w) ==
    /\ IsAt(w, "deliver", "boy")
    /\ riderEarned' = [riderEarned EXCEPT ![call[w].rider] = @ + 1]
    /\ Goto(w, "ledger")
    /\ UNCHANGED <<orders, rows, fleet, deliveries, completed, gst, commissions, settlements,
                   vendorEarned, payouts, ledger, budget>>

(* An upsert that updates nothing: a row that payment.captured wrote keeps *)
(* its deliveryPayout of 0.                                                *)
SettleLedger(w) ==
    /\ IsAt(w, "deliver", "ledger")
    /\ ledger' = [ledger EXCEPT ![call[w].order] = IF @ = "none" THEN "settled" ELSE @]
    /\ Return(w)
    /\ UNCHANGED <<orders, rows, fleet, deliveries, completed, riderEarned, gst, commissions,
                   settlements, vendorEarned, payouts, budget>>

-----------------------------------------------------------------------------
(* The other carrier: updateDeliveryType and shipWithShiprocket.           *)

TypeBegin(w, o, t) ==
    /\ Accept(w, [Idle EXCEPT !.op = "type", !.pc = "tx", !.order = o, !.to = t,
                              !.saw = (delivery[o].id > 0)])
    /\ UNCHANGED <<orders, rows, fleet, deliveries, completed, books>>
    /\ Spend

TypeTx(w) ==
    LET o == call[w].order IN
    /\ IsAt(w, "type", "tx")
    /\ IF call[w].to = "LOCAL"
       THEN Upsert(o, None)
       ELSE /\ delivery' = [delivery EXCEPT ![o] = IF call[w].saw THEN NoRow ELSE @]
            /\ UNCHANGED issued
    /\ carrier' = [carrier EXCEPT ![o] = call[w].to]
    /\ Return(w)
    /\ UNCHANGED <<status, overridden, shipment, shipped, unnamed, fleet, deliveries, completed, books, budget>>

(* Mutant: an order shipped before may be shipped again.                   *)
ShipBeginAgain(w, o) ==
    /\ carrier[o] = "SHIPROCKET"
    /\ Accept(w, [Idle EXCEPT !.op = "ship", !.pc = "gateway", !.order = o])
    /\ UNCHANGED <<orders, rows, fleet, deliveries, completed, books>>
    /\ Spend

(* An empty shiprocketOrderId counts as none.                              *)
ShipBegin(w, o) ==
    /\ carrier[o] = "SHIPROCKET"
    /\ shipment[o] \in {"none", "blank"}
    /\ Accept(w, [Idle EXCEPT !.op = "ship", !.pc = "gateway", !.order = o])
    /\ UNCHANGED <<orders, rows, fleet, deliveries, completed, books>>
    /\ Spend

ShipAtGateway(w) ==
    /\ IsAt(w, "ship", "gateway")
    /\ shipped' = [shipped EXCEPT ![call[w].order] = @ + 1]
    /\ Goto(w, "record")
    /\ UNCHANGED <<status, carrier, overridden, shipment, unnamed, rows, fleet, deliveries, completed, books, budget>>

(* An answer without order_id, whether an order was created or not.        *)
ShipUnnamed(w, created) ==
    LET o == call[w].order IN
    /\ IsAt(w, "ship", "gateway")
    /\ unnamed[o] < MaxUnnamed
    /\ unnamed' = [unnamed EXCEPT ![o] = @ + 1]
    /\ shipped' = [shipped EXCEPT ![o] = IF created THEN @ + 1 ELSE @]
    /\ Goto(w, "unnamed")
    /\ UNCHANGED <<status, carrier, overridden, shipment, rows, fleet, deliveries, completed, books, budget>>

ShipRefused(w) ==
    /\ IsAt(w, "ship", "gateway")
    /\ Goto(w, "mock")
    /\ UNCHANGED <<orders, rows, fleet, deliveries, completed, books, budget>>

(* What is stored as the shipment number: what the answer names, the empty *)
(* string if it names nothing, a made-up one after an error.               *)
NumberAt == [record |-> "real", unnamed |-> "blank", mock |-> "mock"]

(* Mutant: no number is made up after an error.                            *)
ShipRecordNoMock(w) ==
    LET o == call[w].order IN
    /\ call[w].op = "ship" /\ call[w].pc \in DOMAIN NumberAt
    /\ shipment' = [shipment EXCEPT ![o] = IF call[w].pc = "mock" THEN @ ELSE NumberAt[call[w].pc]]
    /\ status' = [status EXCEPT ![o] = "SHIPPED"]
    /\ Return(w)
    /\ UNCHANGED <<carrier, overridden, shipped, unnamed, rows, fleet, deliveries, completed, books, budget>>

ShipRecord(w) ==
    LET o == call[w].order IN
    /\ call[w].op = "ship" /\ call[w].pc \in DOMAIN NumberAt
    /\ shipment' = [shipment EXCEPT ![o] = NumberAt[call[w].pc]]
    /\ status' = [status EXCEPT ![o] = "SHIPPED"]
    /\ Return(w)
    /\ UNCHANGED <<carrier, overridden, shipped, unnamed, rows, fleet, deliveries, completed, books, budget>>

(* The number cannot be stored, or can but the customer is not notified:   *)
(* the catch of the gateway's errors catches this as well.                 *)
ShipRecordThrows(w, stored) ==
    LET o == call[w].order IN
    /\ call[w].op = "ship" /\ call[w].pc \in {"record", "unnamed"}
    /\ shipment' = [shipment EXCEPT ![o] = IF stored THEN NumberAt[call[w].pc] ELSE @]
    /\ status' = [status EXCEPT ![o] = IF stored THEN "SHIPPED" ELSE @]
    /\ Goto(w, "mock")
    /\ UNCHANGED <<carrier, overridden, shipped, unnamed, rows, fleet, deliveries, completed, books>>
    /\ Fail

-----------------------------------------------------------------------------
(* Around these handlers.                                                  *)

(* The admin's status override, cancelOrder, verifyPayment and webhooks.   *)
SetStatus(o, s) ==
    /\ status' = [status EXCEPT ![o] = s]
    /\ overridden' = [overridden EXCEPT ![o] = TRUE]
    /\ UNCHANGED <<carrier, shipment, shipped, unnamed, rows, fleet, deliveries, completed, books, call>>
    /\ Spend

(* payment.captured comes late.                                            *)
CapturedLedger(o) ==
    /\ ledger[o] = "none"
    /\ ledger' = [ledger EXCEPT ![o] = "captured"]
    /\ UNCHANGED <<orders, rows, fleet, deliveries, completed, riderEarned, gst, commissions,
                   settlements, vendorEarned, payouts, call>>
    /\ Spend

(* A process dies, or an await throws: in the settlement that is logged    *)
(* and the rider is told the order is delivered.                           *)
Crash(w) ==
    /\ call[w] # Idle
    /\ Return(w)
    /\ UNCHANGED <<orders, rows, fleet, deliveries, completed, books>>
    /\ Fail

-----------------------------------------------------------------------------
FleetStep ==
    \/ \E r \in Riders, yes \in BOOLEAN : ApproveDeliveryBoy(r, yes)
    \/ \E w \in Workers : ToggleWrite(w) \/ \E r \in Riders : ToggleBegin(w, r)

AssignStep(w) ==
    \/ \E o \in Orders, r \in Riders : AutoAssignBegin(w, o, r)
    \/ \E o \in Orders, r \in Riders : AssignBegin(w, o, r)
    \/ AssignRow(w)
    \/ AssignStatus(w)

DeliverStep(w) ==
    \/ \E o \in Orders, op \in {"pick", "deliver"} : DeliveryBegin(w, o, op)
    \/ CountDelivery(w)
    \/ PickedUpTx(w)
    \/ DeliveredTx(w)
    \/ DeliveryGone(w)

SettleStep(w) ==
    \/ SettleGst(w) \/ SettleCommission(w) \/ SettleVendor(w) \/ CreditVendor(w)
    \/ Payout(w) \/ CreditRider(w) \/ SettleLedger(w)

CarrierStep(w) ==
    \/ \E o \in Orders, t \in DeliveryType : TypeBegin(w, o, t)
    \/ TypeTx(w)
    \/ \E o \in Orders : ShipBegin(w, o)
    \/ ShipAtGateway(w) \/ ShipRefused(w) \/ ShipRecord(w)
    \/ \E created \in BOOLEAN : ShipUnnamed(w, created)
    \/ \E stored \in BOOLEAN : ShipRecordThrows(w, stored)

Next ==
    \/ FleetStep
    \/ \E w \in Workers : AssignStep(w) \/ DeliverStep(w) \/ SettleStep(w) \/ CarrierStep(w) \/ Crash(w)
    \/ \E o \in Orders, s \in OrderStatus : SetStatus(o, s)
    \/ \E o \in Orders : CapturedLedger(o)

Spec == Init /\ [][Next]_vars

-----------------------------------------------------------------------------
(* Properties.                                                             *)

(* Rows, tallies and requests have their types.                            *)
TypeOK ==
    /\ status \in [Orders -> OrderStatus]
    /\ carrier \in [Orders -> DeliveryType]
    /\ overridden \in [Orders -> BOOLEAN]
    /\ shipment \in [Orders -> {"none", "blank", "real", "mock"}]
    /\ shipped \in [Orders -> Nat] /\ unnamed \in [Orders -> Nat]
    /\ delivery \in [Orders -> DeliveryRow]
    /\ issued \in [Orders -> Nat]
    /\ approved \subseteq Riders /\ available \subseteq Riders /\ vetted \subseteq Riders
    /\ deliveries \in [Riders -> Nat]
    /\ riderEarned \in [Riders -> Nat]
    /\ completed \in [Orders -> Nat]
    /\ gst \in [Orders -> BOOLEAN]
    /\ commissions \in [Orders -> [Vendors -> Nat]]
    /\ settlements \in [Orders -> [Vendors -> Nat]]
    /\ vendorEarned \in [Orders -> [Vendors -> Nat]]
    /\ payouts \in [Orders -> [Riders -> Nat]]
    /\ ledger \in [Orders -> {"none", "captured", "settled"}]
    /\ call \in [Workers -> Calls]
    /\ calls \in Nat
    /\ crashes \in Nat

(* Every credit to a vendor is backed by a settlement row, every one of    *)
(* those by a commission row, every one of those by a committed delivery   *)
(* of an order with GST: failures and concurrent deliveries of one order   *)
(* may leave a row without its credit, never a credit without its row.     *)
CreditsBacked ==
    \A o \in Orders, v \in Vendors :
        /\ vendorEarned[o][v] <= settlements[o][v]
        /\ settlements[o][v] <= commissions[o][v]
        /\ commissions[o][v] <= completed[o]
        /\ commissions[o][v] > 0 => gst[o] /\ v \in VendorsOf[o]

PaidOut(r) == MapThenSumSet(LAMBDA o : payouts[o][r], Orders)

(* What a rider earned was paid out for orders this rider delivered: the   *)
(* total never exceeds the payout rows, nor these the deliveries counted,  *)
(* even when the order was given to another rider in the meantime.         *)
PayoutsBacked ==
    \A r \in Riders : riderEarned[r] <= PaidOut(r) /\ PaidOut(r) <= deliveries[r]

(* Requests that committed a delivery of o and have yet to do this step.   *)
Behind(o, labels) == {w \in Workers : call[w].op = "deliver" /\ call[w].order = o /\ call[w].pc \in labels}

(* The vendors' part is not over for v: a request before its commission.   *)
BehindVendor(o, v) ==
    {w \in Behind(o, {"gst", "commission", "settlement", "vendor"}) :
        \/ call[w].pc = "gst"
        \/ call[w].vendor = v /\ call[w].pc = "commission"
        \/ call[w].vendor # v /\ v \in call[w].todo}

(* A delivery leaves a commission row per vendor and a payout row, but for *)
(* requests that have not come so far or died before: n failures lose at   *)
(* most n of each, and nothing is lost or doubled without one.             *)
Reconciled ==
    \A o \in Orders :
        LET paid == MapThenSumSet(LAMBDA r : payouts[o][r], Riders)
            unpaid == Cardinality(Behind(o, {"gst", "commission", "settlement", "vendor", "payout"}))
        IN  /\ paid \in (completed[o] - unpaid - crashes)..(completed[o] - unpaid)
            /\ \A v \in VendorsOf[o] :
                  LET late == Cardinality(BehindVendor(o, v))
                  IN  commissions[o][v] \in (completed[o] - late - crashes)..(completed[o] - late)

(* shipWithShiprocket creates at most one order at Shiprocket per request  *)
(* in flight and per failure: its check of shiprocketOrderId precedes the  *)
(* call to the gateway and the write, and nothing serialises two admins.   *)
(* An answer that names no order, stored over a number another admin got,  *)
(* lets the requests in flight begin once more.                            *)
ShipBound == \A o \in Orders : shipped[o] <= Cardinality(Workers) * (1 + unnamed[o]) + crashes

(* No rider is ever named by a delivery, or paid for one, whom no admin    *)
(* approved, though approval is not looked at again after the choice.      *)
RiderVetted ==
    \A o \in Orders :
        /\ delivery[o].rider \in vetted \cup {None}
        /\ \A r \in Riders : payouts[o][r] > 0 => r \in vetted

(* DELIVERED and SHIPPED are true: unless someone else wrote the status,   *)
(* a rider's delivery was committed, or a shipment number stored; none is  *)
(* stored only after an answer of Shiprocket that named no order.          *)
StatusWitnessed ==
    \A o \in Orders :
        ~overridden[o] => /\ status[o] = "DELIVERED" => completed[o] > 0
                          /\ status[o] = "SHIPPED" => shipment[o] \in {"real", "mock"} \/ unnamed[o] > 0
=============================================================================
