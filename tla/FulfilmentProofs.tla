-------------------------- MODULE FulfilmentProofs --------------------------
(***************************************************************************)
(* Theorems about Fulfilment, for any vendors, bounds and finitely many    *)
(* orders, riders and workers.                                             *)
(***************************************************************************)
EXTENDS Fulfilment, Sums

USE DEF orders, rows, fleet, books, budget

-----------------------------------------------------------------------------
(* What a request carries.                                                 *)

VendorSteps == {"commission", "settlement", "vendor"}

(* Orders with a GST transaction.                                          *)
Billed == {o \in Orders : gst[o]}

(* Its order exists, its rider is one of the good, and while it settles    *)
(* with the vendors it is at one still to do, of an order billed before.   *)
Sound(c, good, billed) ==
    /\ c.op = "idle" => c = Idle
    /\ c.op \notin {"idle", "toggle"} => c.order \in Orders
    /\ c.op \in {"auto", "admin", "pick", "deliver"} => c.rider \in good
    /\ c.op = "toggle" => c.rider \in Riders
    /\ c.op = "deliver" /\ c.pc \in VendorSteps =>
          c.vendor \in c.todo /\ c.todo \subseteq VendorsOf[c.order] /\ c.order \in billed

Requests == \A w \in Workers : Sound(call[w], vetted, Billed)

Inv == TypeOK /\ approved \subseteq vetted /\ Requests /\ RiderVetted

LEMMA IdleType ==
    /\ Idle \in Calls /\ Idle.op = "idle" /\ Idle.pc = "idle"
    /\ \A good, billed : Sound(Idle, good, billed)
<1>1. Idle \in Calls /\ Idle.op = "idle" /\ Idle.pc = "idle"
  BY DEF Idle, Calls, Ops, Labels, DeliveryType
<1> QED BY <1>1 DEF Sound

(* Only worker w is written, and what it carries is a request.             *)
Only(w) == call' = [call EXCEPT ![w] = call'[w]] /\ call'[w] \in Calls

LEMMA ReturnOnly ==
    ASSUME TypeOK, NEW w \in Workers, Return(w)
    PROVE  Only(w) /\ call'[w] = Idle
  BY IdleType DEF TypeOK, Return, Only

LEMMA AcceptOnly ==
    ASSUME TypeOK, NEW w \in Workers, NEW request \in Calls, Accept(w, request)
    PROVE  Only(w) /\ call'[w] = request /\ call[w] = Idle
  BY DEF TypeOK, Accept, Only

LEMMA GotoOnly ==
    ASSUME TypeOK, NEW w \in Workers, NEW pc \in Labels, Goto(w, pc)
    PROVE  Only(w) /\ call'[w] = [call[w] EXCEPT !.pc = pc]
<1>1. call[w] \in Calls
  BY DEF TypeOK
<1>2. [call[w] EXCEPT !.pc = pc] \in Calls
  BY <1>1 DEF Calls
<1>3. call' = [call EXCEPT ![w] = [call[w] EXCEPT !.pc = pc]]
  BY DEF Goto
<1> QED BY <1>2, <1>3 DEF TypeOK, Only

LEMMA NextVendorOnly ==
    ASSUME TypeOK, NEW w \in Workers, NEW todo \in SUBSET Vendors, NextVendor(w, todo)
    PROVE  /\ Only(w)
           /\ \/ todo = {} /\ call'[w] = [call[w] EXCEPT !.pc = "payout", !.todo = {}, !.vendor = None]
              \/ \E v \in todo :
                    call'[w] = [call[w] EXCEPT !.pc = "commission", !.todo = todo, !.vendor = v]
<1>1. call[w] \in Calls
  BY DEF TypeOK
<1>2. CASE todo = {} /\ call' = [call EXCEPT ![w] = [@ EXCEPT !.pc = "payout", !.todo = {}, !.vendor = None]]
  <2>1. [call[w] EXCEPT !.pc = "payout", !.todo = {}, !.vendor = None] \in Calls
    BY <1>1 DEF Calls, Labels
  <2> QED BY <1>2, <2>1 DEF TypeOK, Only
<1>3. ASSUME NEW v \in todo,
             call' = [call EXCEPT ![w] = [@ EXCEPT !.pc = "commission", !.todo = todo, !.vendor = v]]
      PROVE  Only(w) /\ call'[w] = [call[w] EXCEPT !.pc = "commission", !.todo = todo, !.vendor = v]
  <2>1. [call[w] EXCEPT !.pc = "commission", !.todo = todo, !.vendor = v] \in Calls
    BY <1>1 DEF Calls, Labels
  <2> QED BY <1>3, <2>1 DEF TypeOK, Only
<1> QED BY <1>2, <1>3 DEF NextVendor

-----------------------------------------------------------------------------
(* Types, step by step.                                                    *)

(* A step of a request that writes nothing but itself, and the budgets.    *)
Quiet(w) ==
    /\ Only(w)
    /\ UNCHANGED <<orders, rows, fleet, deliveries, completed, books>>
    /\ Spend \/ Fail \/ UNCHANGED budget

LEMMA QuietType ==
    ASSUME TypeOK, RiderVetted, NEW w \in Workers, Quiet(w)
    PROVE  TypeOK' /\ RiderVetted' /\ UNCHANGED <<approved, vetted, gst>> /\ Billed' = Billed
<1>1. call' \in [Workers -> Calls]
  BY DEF TypeOK, Quiet, Only
<1>2. calls' \in Nat /\ crashes' \in Nat
  BY BoundsAssumption DEF TypeOK, Quiet, Spend, Fail
<1>3. UNCHANGED <<orders, rows, fleet, deliveries, completed, books>>
  BY DEF Quiet
<1>4. TypeOK'
  BY <1>1, <1>2, <1>3 DEF TypeOK
<1> QED BY <1>3, <1>4 DEF RiderVetted, Billed

Kept(w) == TypeOK' /\ Only(w) /\ Sound(call'[w], vetted', Billed') /\ RiderVetted'

LEMMA FleetKept ==
    ASSUME Inv, NEW w \in Workers, ToggleWrite(w) \/ \E r \in Riders : ToggleBegin(w, r)
    PROVE  Kept(w) /\ UNCHANGED <<approved, vetted, gst>>
<1> USE BoundsAssumption DEF Inv, TypeOK, Kept, Spend
<1>1. ASSUME NEW r \in Riders, ToggleBegin(w, r)
      PROVE  Kept(w) /\ UNCHANGED <<approved, vetted, gst>>
  <2> DEFINE saw == r \in available
             request == [Idle EXCEPT !.op = "toggle", !.pc = "toggle", !.rider = r, !.saw = saw]
  <2>2. Accept(w, request)
    BY <1>1 DEF ToggleBegin
  <2>1. request \in Calls
    <3>1. saw \in BOOLEAN
      OBVIOUS
    <3> HIDE DEF saw
    <3> QED BY <3>1, IdleType DEF Calls, Ops, Labels
  <2>3. request.op = "toggle" /\ request.rider = r
    BY IdleType DEF Calls
  <2> HIDE DEF request
  <2>4. Only(w) /\ call'[w] = request
    BY <2>1, <2>2, AcceptOnly
  <2>5. Sound(call'[w], vetted', Billed')
    BY <2>3, <2>4 DEF Sound
  <2>6. Quiet(w)
    BY <1>1, <2>4 DEF ToggleBegin, Quiet
  <2> QED BY <2>4, <2>5, <2>6, QuietType
<1>2. CASE ToggleWrite(w)
  <2>1. Only(w) /\ Sound(call'[w], vetted', Billed')
    BY <1>2, ReturnOnly, IdleType DEF ToggleWrite
  <2>2. call[w].rider \in Riders
    BY <1>2 DEF ToggleWrite, IsAt, Requests, Sound
  <2> QED BY <1>2, <2>1, <2>2 DEF ToggleWrite, Only, RiderVetted
<1> QED BY <1>1, <1>2

LEMMA NewRow ==
    ASSUME NEW id \in Nat, NEW r \in Riders \cup {None}
    PROVE  [NoRow EXCEPT !.id = id, !.rider = r] \in DeliveryRow
           /\ [NoRow EXCEPT !.id = id, !.rider = r].rider = r
  BY DEF NoRow, DeliveryRow

(* Rows of orders keep their type where a rider is put in.                 *)
LEMMA UpsertType ==
    ASSUME Inv, NEW o \in Orders, NEW r \in vetted \cup {None}, Upsert(o, r)
    PROVE  /\ delivery' \in [Orders -> DeliveryRow] /\ issued' \in [Orders -> Nat]
           /\ \A q \in Orders : delivery'[q].rider \in vetted \cup {None}
<1> USE DEF Inv, TypeOK
<1>1. delivery[o] \in DeliveryRow /\ r \in Riders \cup {None}
      /\ \A q \in Orders : delivery[q].rider \in vetted \cup {None}
  BY DEF RiderVetted
<1>2. CASE delivery[o].id = 0
  <2> DEFINE id == issued[o] + 1
             new == [NoRow EXCEPT !.id = id, !.rider = r]
  <2>1. new \in DeliveryRow /\ new.rider = r
    <3>1. id \in Nat
      OBVIOUS
    <3> HIDE DEF id
    <3>2. r \in Riders \cup {None}
      BY <1>1
    <3> QED BY <3>1, <3>2, NewRow
  <2>2. delivery' = [delivery EXCEPT ![o] = new] /\ issued' = [issued EXCEPT ![o] = @ + 1]
    BY <1>2 DEF Upsert
  <2> HIDE DEF new
  <2> QED BY <1>1, <2>1, <2>2
<1>3. CASE delivery[o].id # 0
  <2> DEFINE new == [delivery[o] EXCEPT !.rider = IF r = None THEN @ ELSE r]
  <2>1. new \in DeliveryRow /\ new.rider \in vetted \cup {None}
    BY <1>1 DEF DeliveryRow
  <2>2. delivery' = [delivery EXCEPT ![o] = new] /\ UNCHANGED issued
    BY <1>3 DEF Upsert
  <2> HIDE DEF new
  <2> QED BY <1>1, <2>1, <2>2
<1> QED BY <1>2, <1>3

LEMMA AssignKept ==
    ASSUME Inv, NEW w \in Workers, AssignStep(w)
    PROVE  Kept(w) /\ UNCHANGED <<approved, vetted, gst>>
<1> USE BoundsAssumption DEF Inv, TypeOK, Kept, Spend
<1>0. call[w] \in Calls
  OBVIOUS
<1>1. ASSUME NEW o \in Orders, NEW r \in Riders, AutoAssignBegin(w, o, r) \/ AssignBegin(w, o, r)
      PROVE  Kept(w) /\ UNCHANGED <<approved, vetted, gst>>
  <2>1. PICK op \in {"auto", "admin"} :
           Accept(w, [Idle EXCEPT !.op = op, !.pc = "assign", !.order = o, !.rider = r])
    BY <1>1 DEF AutoAssignBegin, AssignBegin
  <2> DEFINE request == [Idle EXCEPT !.op = op, !.pc = "assign", !.order = o, !.rider = r]
  <2>2. request \in Calls /\ request.op = op /\ request.order = o /\ request.rider = r
    BY IdleType DEF Calls, Ops, Labels
  <2> HIDE DEF request
  <2>3. Only(w) /\ call'[w] = request
    BY <2>1, <2>2, AcceptOnly DEF request
  <2>4. r \in vetted
    BY <1>1 DEF AutoAssignBegin, AssignBegin
  <2>5. Sound(call'[w], vetted, Billed)
    BY <2>2, <2>3, <2>4 DEF Sound
  <2>6. Quiet(w)
    BY <1>1, <2>3 DEF AutoAssignBegin, AssignBegin, Quiet
  <2>7. TypeOK' /\ RiderVetted' /\ UNCHANGED <<approved, vetted, gst>> /\ Billed' = Billed
    BY <2>6, QuietType
  <2> QED BY <2>3, <2>5, <2>7
<1>2. CASE AssignRow(w)
  <2>1. /\ call[w].order \in Orders /\ call[w].rider \in vetted
        /\ Sound(call[w], vetted, Billed) /\ call[w].op \in {"auto", "admin"}
    BY <1>2 DEF AssignRow, Requests, Sound
  <2>2. Only(w) /\ call'[w] = [call[w] EXCEPT !.pc = "status"]
    BY <1>2, GotoOnly DEF AssignRow, Labels
  <2>3. Sound(call'[w], vetted, Billed)
    BY <1>0, <2>1, <2>2 DEF Sound, Calls, Idle
  <2>4. /\ delivery' \in [Orders -> DeliveryRow] /\ issued' \in [Orders -> Nat]
        /\ \A q \in Orders : delivery'[q].rider \in vetted \cup {None}
    BY <1>2, <2>1, UpsertType DEF AssignRow
  <2> QED BY <1>2, <2>2, <2>3, <2>4 DEF AssignRow, Only, RiderVetted, Billed
<1>3. CASE AssignStatus(w)
  <2>1. Only(w) /\ Sound(call'[w], vetted', Billed')
    BY <1>3, ReturnOnly, IdleType DEF AssignStatus
  <2>2. call[w].order \in Orders
    BY <1>3 DEF AssignStatus, Requests, Sound
  <2>3. status' \in [Orders -> OrderStatus]
    BY <1>3, <2>2 DEF AssignStatus, OrderStatus
  <2> QED BY <1>3, <2>1, <2>3 DEF AssignStatus, Only, RiderVetted
<1> QED BY <1>1, <1>2, <1>3 DEF AssignStep

(* A tally of an order and a rider or vendor that goes up by one.          *)
LEMMA Bump ==
    ASSUME NEW A, NEW B, NEW f \in [A -> [B -> Nat]], NEW a \in A, NEW b \in B
    PROVE  LET g == [f EXCEPT ![a][b] = @ + 1] IN
           /\ g \in [A -> [B -> Nat]]
           /\ g[a][b] = f[a][b] + 1
           /\ \A x \in A, y \in B : x # a \/ y # b => g[x][y] = f[x][y]
<1> DEFINE g == [f EXCEPT ![a][b] = @ + 1]
           h == [f[a] EXCEPT ![b] = @ + 1]
<1>1. f[a] \in [B -> Nat]
  OBVIOUS
<1>2. h \in [B -> Nat] /\ h[b] = f[a][b] + 1 /\ \A y \in B : y # b => h[y] = f[a][y]
  BY <1>1
<1>3. g = [f EXCEPT ![a] = h]
  OBVIOUS
<1> HIDE DEF h, g
<1>4. g \in [A -> [B -> Nat]] /\ g[a] = h /\ \A x \in A : x # a => g[x] = f[x]
  BY <1>2, <1>3
<1>5. g[a][b] = f[a][b] + 1 /\ \A x \in A, y \in B : x # a \/ y # b => g[x][y] = f[x][y]
  BY <1>2, <1>4
<1> QED BY <1>4, <1>5 DEF g

LEMMA DeliverKept ==
    ASSUME Inv, NEW w \in Workers, DeliverStep(w)
    PROVE  Kept(w) /\ UNCHANGED <<approved, vetted, gst>>
<1> USE DEF Inv, Kept
<1>0. call[w] \in Calls /\ Sound(call[w], vetted, Billed)
  BY DEF TypeOK, Requests
<1>1. ASSUME NEW o \in Orders, NEW op \in {"pick", "deliver"}, DeliveryBegin(w, o, op)
      PROVE  Kept(w) /\ UNCHANGED <<approved, vetted, gst>>
  <2> DEFINE pc == IF op = "deliver" THEN "count" ELSE "tx"
             rider == delivery[o].rider
             row == delivery[o].id
             request == [Idle EXCEPT !.op = op, !.pc = pc, !.order = o, !.rider = rider, !.row = row]
  <2>1. delivery[o] \in DeliveryRow /\ rider \in vetted /\ vetted \subseteq Riders /\ pc \in {"count", "tx"}
    BY <1>1 DEF DeliveryBegin, RiderVetted, TypeOK
  <2>2. row \in Nat /\ rider \in Riders
    BY <2>1 DEF DeliveryRow
  <2>3. Accept(w, request)
    BY <1>1 DEF DeliveryBegin
  <2> HIDE DEF pc, rider, row
  <2>4. request \in Calls /\ request.op = op /\ request.order = o /\ request.rider = rider /\ request.pc = pc
    BY <2>1, <2>2, IdleType DEF Calls, Ops, Labels
  <2> HIDE DEF request
  <2>5. Only(w) /\ call'[w] = request
    BY <2>3, <2>4, AcceptOnly
  <2>6. Sound(call'[w], vetted, Billed)
    BY <2>1, <2>4, <2>5 DEF Sound, VendorSteps
  <2>7. Quiet(w)
    BY <1>1, <2>5 DEF DeliveryBegin, Quiet
  <2> QED BY <2>5, <2>6, <2>7, QuietType
<1>2. CASE CountDelivery(w)
  <2>1. call[w].op = "deliver" /\ call[w].rider \in vetted /\ vetted \subseteq Riders
    BY <1>0, <1>2 DEF CountDelivery, IsAt, Sound, TypeOK
  <2>2. Only(w) /\ call'[w] = [call[w] EXCEPT !.pc = "tx"]
    BY <1>2, GotoOnly DEF CountDelivery, Labels
  <2>3. Sound(call'[w], vetted, Billed)
    BY <1>0, <2>1, <2>2 DEF Sound, VendorSteps, Calls, Idle
  <2>4. deliveries' \in [Riders -> Nat]
    BY <1>2, <2>1 DEF CountDelivery, TypeOK
  <2> QED BY <1>2, <2>2, <2>3, <2>4 DEF CountDelivery, TypeOK, Only, RiderVetted, Billed
<1>3. CASE PickedUpTx(w)
  <2>1. Only(w) /\ Sound(call'[w], vetted', Billed')
    BY <1>3, ReturnOnly, IdleType DEF PickedUpTx
  <2>2. call[w].order \in Orders
    BY <1>0, <1>3 DEF PickedUpTx, IsAt, Sound
  <2>3. status' \in [Orders -> OrderStatus]
    BY <1>3, <2>2 DEF PickedUpTx, OrderStatus, TypeOK
  <2> QED BY <1>3, <2>1, <2>3 DEF PickedUpTx, TypeOK, Only, RiderVetted
<1>4. CASE DeliveredTx(w)
  <2>1. call[w].op = "deliver" /\ call[w].order \in Orders
    BY <1>0, <1>4 DEF DeliveredTx, IsAt, Sound
  <2>2. Only(w) /\ call'[w] = [call[w] EXCEPT !.pc = "gst"]
    BY <1>4, GotoOnly DEF DeliveredTx, Labels
  <2>3. Sound(call'[w], vetted, Billed)
    BY <1>0, <2>1, <2>2 DEF Sound, VendorSteps, Calls, Idle
  <2>4. status' \in [Orders -> OrderStatus] /\ completed' \in [Orders -> Nat]
    BY <1>4, <2>1 DEF DeliveredTx, OrderStatus, TypeOK
  <2>5. delivery' \in [Orders -> DeliveryRow] /\ \A q \in Orders : delivery'[q].rider = delivery[q].rider
    <3> DEFINE new == [delivery[call[w].order] EXCEPT !.delivered = TRUE]
    <3>1. new \in DeliveryRow /\ new.rider = delivery[call[w].order].rider
      BY <2>1 DEF TypeOK, DeliveryRow
    <3>2. delivery' = [delivery EXCEPT ![call[w].order] = new]
      BY <1>4 DEF DeliveredTx
    <3> HIDE DEF new
    <3> QED BY <2>1, <3>1, <3>2 DEF TypeOK
  <2>6. RiderVetted' /\ Billed' = Billed
    BY <1>4, <2>5 DEF DeliveredTx, RiderVetted, Billed
  <2>7. TypeOK'
    BY <1>4, <2>2, <2>4, <2>5 DEF DeliveredTx, TypeOK, Only
  <2> QED BY <1>4, <2>2, <2>3, <2>6, <2>7 DEF DeliveredTx
<1>5. CASE DeliveryGone(w)
  <2>1. Only(w) /\ Sound(call'[w], vetted', Billed')
    BY <1>5, ReturnOnly, IdleType DEF DeliveryGone
  <2>2. Quiet(w)
    BY <1>5, <2>1 DEF DeliveryGone, Quiet
  <2> QED BY <2>1, <2>2, QuietType
<1> QED BY <1>1, <1>2, <1>3, <1>4, <1>5 DEF DeliverStep

(* A request in the settlement, and where it goes on to.                   *)
LEMMA SettlementSound ==
    ASSUME TypeOK, NEW w \in Workers, Sound(call[w], vetted, Billed), call[w].op = "deliver"
    PROVE  /\ call[w].order \in Orders /\ call[w].rider \in vetted /\ call[w].rider \in Riders
           /\ VendorsOf[call[w].order] \in SUBSET Vendors
           /\ call[w].pc \in VendorSteps =>
                 /\ call[w].vendor \in VendorsOf[call[w].order] /\ call[w].vendor \in Vendors
                 /\ call[w].todo \in SUBSET VendorsOf[call[w].order] /\ call[w].todo \in SUBSET Vendors
                 /\ call[w].order \in Billed
  BY VendorsOfAssumption DEF Sound, TypeOK

(* A settlement that goes on to the next vendor, or past the last, is a    *)
(* request.                                                                *)
LEMMA NextVendorSound ==
    ASSUME TypeOK, NEW w \in Workers, Sound(call[w], vetted, Billed), call[w].op = "deliver",
           NEW todo \in SUBSET VendorsOf[call[w].order], NextVendor(w, todo),
           NEW billed, call[w].order \in billed
    PROVE  Only(w) /\ Sound(call'[w], vetted, billed)
<1>1. call[w] \in Calls /\ todo \in SUBSET Vendors
  BY SettlementSound DEF TypeOK
<1>2. /\ Only(w)
      /\ \/ todo = {} /\ call'[w] = [call[w] EXCEPT !.pc = "payout", !.todo = {}, !.vendor = None]
         \/ \E v \in todo :
               call'[w] = [call[w] EXCEPT !.pc = "commission", !.todo = todo, !.vendor = v]
  BY <1>1, NextVendorOnly
<1>3. CASE call'[w] = [call[w] EXCEPT !.pc = "payout", !.todo = {}, !.vendor = None]
  BY <1>1, <1>2, <1>3 DEF Sound, VendorSteps, Calls, Idle
<1>4. ASSUME NEW v \in todo, call'[w] = [call[w] EXCEPT !.pc = "commission", !.todo = todo, !.vendor = v]
      PROVE  Sound(call'[w], vetted, billed)
  BY <1>1, <1>4 DEF Sound, VendorSteps, Calls, Idle
<1> QED BY <1>2, <1>3, <1>4

LEMMA SettleKept ==
    ASSUME Inv, NEW w \in Workers, SettleStep(w)
    PROVE  Kept(w) /\ UNCHANGED <<approved, vetted>> /\ Billed \subseteq Billed'
<1> USE DEF Inv, Kept
<1>0. call[w] \in Calls /\ Sound(call[w], vetted, Billed) /\ call[w].op = "deliver"
  BY DEF TypeOK, Requests, SettleStep, SettleGst, SettleCommission, SettleVendor, CreditVendor, Payout,
         CreditRider, SettleLedger, IsAt
<1> DEFINE o == call[w].order
           v == call[w].vendor
           r == call[w].rider
<1>1. o \in Orders /\ r \in vetted /\ r \in Riders
  BY <1>0, SettlementSound
<1>2. call[w].pc \in VendorSteps => v \in Vendors /\ o \in Billed
  BY <1>0, SettlementSound
<1>3. ASSUME NEW pc \in Labels, pc \notin VendorSteps \/ call[w].pc \in VendorSteps, Goto(w, pc), Billed' = Billed
      PROVE  Only(w) /\ Sound(call'[w], vetted, Billed')
  <2>1. Only(w) /\ call'[w] = [call[w] EXCEPT !.pc = pc]
    BY <1>3, GotoOnly
  <2> QED BY <1>0, <1>3, <2>1 DEF Sound, Calls, Idle
<1>4. CASE SettleGst(w)
  <2>1. gst' \in [Orders -> BOOLEAN] /\ gst' = [gst EXCEPT ![o] = TRUE]
    BY <1>1, <1>4 DEF SettleGst, TypeOK
  <2>2. Billed \subseteq Billed' /\ o \in Billed'
    BY <1>1, <2>1 DEF Billed, TypeOK
  <2>3. Only(w) /\ Sound(call'[w], vetted, Billed')
    BY <1>0, <1>4, <2>2, NextVendorSound DEF SettleGst
  <2> QED BY <1>4, <2>1, <2>2, <2>3 DEF SettleGst, TypeOK, Only, RiderVetted
<1>5. CASE SettleCommission(w)
  <2>1. commissions' \in [Orders -> [Vendors -> Nat]]
    BY <1>1, <1>2, <1>5, Bump DEF SettleCommission, TypeOK, IsAt, VendorSteps
  <2>2. Only(w) /\ Sound(call'[w], vetted, Billed') /\ Billed' = Billed
    BY <1>3, <1>5 DEF SettleCommission, IsAt, VendorSteps, Labels, Billed
  <2> QED BY <1>5, <2>1, <2>2 DEF SettleCommission, TypeOK, Only, RiderVetted
<1>6. CASE SettleVendor(w)
  <2>1. settlements' \in [Orders -> [Vendors -> Nat]]
    BY <1>1, <1>2, <1>6, Bump DEF SettleVendor, TypeOK, IsAt, VendorSteps
  <2>2. Only(w) /\ Sound(call'[w], vetted, Billed') /\ Billed' = Billed
    BY <1>3, <1>6 DEF SettleVendor, IsAt, VendorSteps, Labels, Billed
  <2> QED BY <1>6, <2>1, <2>2 DEF SettleVendor, TypeOK, Only, RiderVetted
<1>7. CASE CreditVendor(w)
  <2>1. vendorEarned' \in [Orders -> [Vendors -> Nat]]
    BY <1>1, <1>2, <1>7, Bump DEF CreditVendor, TypeOK, IsAt, VendorSteps
  <2>2. call[w].todo \ {v} \in SUBSET VendorsOf[o] /\ o \in Billed
    BY <1>0, <1>7, SettlementSound DEF CreditVendor, IsAt, VendorSteps
  <2>3. Billed' = Billed
    BY <1>7 DEF CreditVendor, Billed
  <2>4. Only(w) /\ Sound(call'[w], vetted, Billed')
    BY <1>0, <1>7, <2>2, <2>3, NextVendorSound DEF CreditVendor
  <2> QED BY <1>7, <2>1, <2>3, <2>4 DEF CreditVendor, TypeOK, Only, RiderVetted
<1>8. CASE Payout(w)
  <2>1. /\ payouts' \in [Orders -> [Riders -> Nat]]
        /\ \A q \in Orders, x \in Riders : payouts'[q][x] = payouts[q][x] \/ x = r
    BY <1>1, <1>8, Bump DEF Payout, TypeOK
  <2>2. Only(w) /\ Sound(call'[w], vetted, Billed') /\ Billed' = Billed
    BY <1>3, <1>8 DEF Payout, VendorSteps, Labels, Billed
  <2>3. RiderVetted'
    BY <1>1, <1>8, <2>1 DEF Payout, RiderVetted
  <2> QED BY <1>8, <2>1, <2>2, <2>3 DEF Payout, TypeOK, Only
<1>9. CASE CreditRider(w)
  <2>1. riderEarned' \in [Riders -> Nat]
    BY <1>1, <1>9 DEF CreditRider, TypeOK
  <2>2. Only(w) /\ Sound(call'[w], vetted, Billed') /\ Billed' = Billed
    BY <1>3, <1>9 DEF CreditRider, VendorSteps, Labels, Billed
  <2> QED BY <1>9, <2>1, <2>2 DEF CreditRider, TypeOK, Only, RiderVetted
<1>10. CASE SettleLedger(w)
  <2>1. ledger' \in [Orders -> {"none", "captured", "settled"}]
    BY <1>1, <1>10 DEF SettleLedger, TypeOK
  <2>2. Only(w) /\ Sound(call'[w], vetted', Billed') /\ Billed' = Billed
    BY <1>10, ReturnOnly, IdleType DEF SettleLedger, Billed
  <2> QED BY <1>10, <2>1, <2>2 DEF SettleLedger, TypeOK, Only, RiderVetted
<1> QED BY <1>4, <1>5, <1>6, <1>7, <1>8, <1>9, <1>10 DEF SettleStep

LEMMA CrashKept ==
    ASSUME Inv, NEW w \in Workers, Crash(w)
    PROVE  Kept(w) /\ UNCHANGED <<approved, vetted, gst>>
<1>1. Only(w) /\ Sound(call'[w], vetted', Billed')
  BY ReturnOnly, IdleType DEF Crash, Inv
<1>2. Quiet(w)
  BY <1>1 DEF Crash, Quiet
<1> QED BY <1>1, <1>2, QuietType DEF Kept, Inv

LEMMA CarrierKept ==
    ASSUME Inv, NEW w \in Workers, CarrierStep(w)
    PROVE  Kept(w) /\ UNCHANGED <<approved, vetted, gst>>
<1> USE DEF Inv, Kept
<1>0. call[w] \in Calls /\ Sound(call[w], vetted, Billed)
      /\ (call[w].op \in {"type", "ship"} => call[w].order \in Orders)
  BY DEF TypeOK, Requests, Sound
<1>1. ASSUME NEW pc \in Labels, call[w].op = "ship", Goto(w, pc), Billed' = Billed, UNCHANGED vetted
      PROVE  Only(w) /\ Sound(call'[w], vetted', Billed')
  <2>1. Only(w) /\ call'[w] = [call[w] EXCEPT !.pc = pc]
    BY <1>1, GotoOnly
  <2> QED BY <1>0, <1>1, <2>1 DEF Sound, Calls, Idle
<1>2. ASSUME NEW o \in Orders, NEW t \in DeliveryType, TypeBegin(w, o, t)
      PROVE  Kept(w) /\ UNCHANGED <<approved, vetted, gst>>
  <2> DEFINE saw == delivery[o].id > 0
             request == [Idle EXCEPT !.op = "type", !.pc = "tx", !.order = o, !.to = t, !.saw = saw]
  <2>1. Accept(w, request)
    BY <1>2 DEF TypeBegin
  <2>2. request \in Calls /\ request.op = "type" /\ request.order = o
    <3>1. saw \in BOOLEAN
      OBVIOUS
    <3> HIDE DEF saw
    <3> QED BY <3>1, IdleType DEF Calls, Ops, Labels
  <2> HIDE DEF request
  <2>3. Only(w) /\ call'[w] = request
    BY <2>1, <2>2, AcceptOnly
  <2>4. Sound(call'[w], vetted, Billed)
    BY <2>2, <2>3 DEF Sound
  <2>5. Quiet(w)
    BY <1>2, <2>3 DEF TypeBegin, Quiet
  <2> QED BY <2>3, <2>4, <2>5, QuietType
<1>3. CASE TypeTx(w)
  <2>1. call[w].order \in Orders /\ call[w].to \in DeliveryType
    BY <1>0, <1>3 DEF TypeTx, IsAt, Calls
  <2>2. Only(w) /\ Sound(call'[w], vetted', Billed')
    BY <1>3, ReturnOnly, IdleType DEF TypeTx
  <2>3. carrier' \in [Orders -> DeliveryType]
    BY <1>3, <2>1 DEF TypeTx, TypeOK
  <2>4. /\ delivery' \in [Orders -> DeliveryRow] /\ issued' \in [Orders -> Nat]
        /\ \A q \in Orders : delivery'[q].rider \in vetted \cup {None}
    <3>1. CASE call[w].to = "LOCAL"
      BY <1>3, <2>1, <3>1, UpsertType DEF TypeTx
    <3>2. CASE call[w].to # "LOCAL"
      <4>1. NoRow \in DeliveryRow /\ NoRow.rider = None
        BY DEF NoRow, DeliveryRow
      <4>2. /\ delivery' = [delivery EXCEPT ![call[w].order] = IF call[w].saw THEN NoRow ELSE @]
            /\ UNCHANGED issued
        BY <1>3, <3>2 DEF TypeTx
      <4> QED BY <2>1, <4>1, <4>2 DEF TypeOK, RiderVetted
    <3> QED BY <3>1, <3>2
  <2>5. TypeOK'
    BY <1>3, <2>2, <2>3, <2>4 DEF TypeTx, TypeOK, Only
  <2>6. RiderVetted'
    BY <1>3, <2>4 DEF TypeTx, RiderVetted
  <2> QED BY <1>3, <2>2, <2>5, <2>6 DEF TypeTx
<1>4. ASSUME NEW o \in Orders, ShipBegin(w, o)
      PROVE  Kept(w) /\ UNCHANGED <<approved, vetted, gst>>
  <2> DEFINE request == [Idle EXCEPT !.op = "ship", !.pc = "gateway", !.order = o]
  <2>1. Accept(w, request)
    BY <1>4 DEF ShipBegin
  <2>2. request \in Calls /\ request.op = "ship" /\ request.order = o
    BY IdleType DEF Calls, Ops, Labels
  <2> HIDE DEF request
  <2>3. Only(w) /\ call'[w] = request
    BY <2>1, <2>2, AcceptOnly
  <2>4. Sound(call'[w], vetted, Billed)
    BY <2>2, <2>3 DEF Sound
  <2>5. Quiet(w)
    BY <1>4, <2>3 DEF ShipBegin, Quiet
  <2> QED BY <2>3, <2>4, <2>5, QuietType
<1>5. CASE ShipAtGateway(w)
  <2>1. call[w].order \in Orders
    BY <1>0, <1>5 DEF ShipAtGateway, IsAt
  <2>2. Only(w) /\ Sound(call'[w], vetted', Billed')
    BY <1>1, <1>5 DEF ShipAtGateway, IsAt, Labels, Billed
  <2>3. shipped' \in [Orders -> Nat]
    BY <1>5, <2>1 DEF ShipAtGateway, TypeOK
  <2> QED BY <1>5, <2>2, <2>3 DEF ShipAtGateway, TypeOK, Only, RiderVetted
<1>9. ASSUME NEW created \in BOOLEAN, ShipUnnamed(w, created)
      PROVE  Kept(w) /\ UNCHANGED <<approved, vetted, gst>>
  <2>1. call[w].order \in Orders
    BY <1>0, <1>9 DEF ShipUnnamed, IsAt
  <2>2. Only(w) /\ Sound(call'[w], vetted', Billed')
    BY <1>1, <1>9 DEF ShipUnnamed, IsAt, Labels, Billed
  <2>3. unnamed' \in [Orders -> Nat] /\ shipped' \in [Orders -> Nat]
    BY <1>9, <2>1 DEF ShipUnnamed, TypeOK
  <2> QED BY <1>9, <2>2, <2>3 DEF ShipUnnamed, TypeOK, Only, RiderVetted
<1>6. CASE ShipRefused(w)
  <2>1. Only(w) /\ Sound(call'[w], vetted', Billed')
    BY <1>1, <1>6 DEF ShipRefused, IsAt, Labels, Billed
  <2>2. Quiet(w)
    BY <1>6, <2>1 DEF ShipRefused, Quiet
  <2> QED BY <2>1, <2>2, QuietType
<1>7. CASE ShipRecord(w)
  <2>1. call[w].order \in Orders
    BY <1>0, <1>7 DEF ShipRecord
  <2>2. Only(w) /\ Sound(call'[w], vetted', Billed')
    BY <1>7, ReturnOnly, IdleType DEF ShipRecord
  <2>3. shipment' \in [Orders -> {"none", "blank", "real", "mock"}] /\ status' \in [Orders -> OrderStatus]
    BY <1>7, <2>1 DEF ShipRecord, NumberAt, TypeOK, OrderStatus
  <2> QED BY <1>7, <2>2, <2>3 DEF ShipRecord, TypeOK, Only, RiderVetted
<1>8. ASSUME NEW stored \in BOOLEAN, ShipRecordThrows(w, stored)
      PROVE  Kept(w) /\ UNCHANGED <<approved, vetted, gst>>
  <2>1. call[w].order \in Orders
    BY <1>0, <1>8 DEF ShipRecordThrows, IsAt
  <2>2. Only(w) /\ Sound(call'[w], vetted', Billed')
    BY <1>1, <1>8 DEF ShipRecordThrows, IsAt, Labels, Billed
  <2>3. shipment' \in [Orders -> {"none", "blank", "real", "mock"}] /\ status' \in [Orders -> OrderStatus]
    BY <1>8, <2>1 DEF ShipRecordThrows, NumberAt, TypeOK, OrderStatus
  <2>4. calls' \in Nat /\ crashes' \in Nat
    BY <1>8, BoundsAssumption DEF ShipRecordThrows, Fail, TypeOK
  <2> QED BY <1>8, <2>2, <2>3, <2>4 DEF ShipRecordThrows, TypeOK, Only, RiderVetted
<1> QED BY <1>2, <1>3, <1>4, <1>5, <1>6, <1>7, <1>8, <1>9 DEF CarrierStep

-----------------------------------------------------------------------------
(* The invariant.                                                          *)

(* A step of one request leaves the others what they are.                  *)
LEMMA OthersSound ==
    ASSUME Inv, NEW w \in Workers, Kept(w), vetted \subseteq vetted', Billed \subseteq Billed',
           approved' \subseteq vetted'
    PROVE  Inv'
<1>1. \A v \in Workers \ {w} : call'[v] = call[v]
  BY DEF Kept, Only, Inv, TypeOK
<1>2. \A v \in Workers \ {w} : Sound(call'[v], vetted', Billed')
  BY <1>1 DEF Inv, Requests, Sound
<1> QED BY <1>2 DEF Kept, Inv, Requests

LEMMA InitInv == Init => Inv
<1> SUFFICES ASSUME Init PROVE Inv
  OBVIOUS
<1> DEFINE row == [NoRow EXCEPT !.id = 1]
<1>1. row \in DeliveryRow /\ row.rider = None
  BY DEF NoRow, DeliveryRow
<1>2. TypeOK
  BY <1>1, IdleType DEF Init, TypeOK, OrderStatus
<1>3. Requests
  BY IdleType DEF Init, Requests
<1>4. RiderVetted
  <2>1. \A o \in Orders : delivery[o] = row /\ \A r \in Riders : payouts[o][r] = 0
    BY DEF Init
  <2> HIDE DEF row
  <2> QED BY <1>1, <2>1 DEF RiderVetted
<1> QED BY <1>2, <1>3, <1>4 DEF Inv, Init

LEMMA NextInv == Inv /\ [Next]_vars => Inv'
<1> SUFFICES ASSUME Inv, [Next]_vars PROVE Inv'
  OBVIOUS
<1>1. CASE UNCHANGED vars
  BY <1>1 DEF vars, Inv, TypeOK, Requests, RiderVetted, Billed
<1>2. ASSUME NEW r \in Riders, NEW yes \in BOOLEAN, ApproveDeliveryBoy(r, yes)
      PROVE  Inv'
  <2>1. /\ approved' \subseteq Riders /\ vetted' = vetted \cup approved'
        /\ UNCHANGED <<orders, rows, available, deliveries, completed, books, call>> /\ Spend
    BY <1>2 DEF ApproveDeliveryBoy, Inv, TypeOK
  <2>2. TypeOK'
    BY <2>1, BoundsAssumption DEF Inv, TypeOK, Spend
  <2>3. Requests'
    BY <2>1 DEF Inv, Requests, Sound, Billed
  <2>4. RiderVetted'
    BY <2>1 DEF Inv, RiderVetted
  <2> QED BY <2>1, <2>2, <2>3, <2>4 DEF Inv
<1>3. ASSUME NEW o \in Orders, NEW s \in OrderStatus, SetStatus(o, s)
      PROVE  Inv'
  <2>1. /\ status' = [status EXCEPT ![o] = s] /\ overridden' = [overridden EXCEPT ![o] = TRUE] /\ Spend
        /\ UNCHANGED <<carrier, shipment, shipped, unnamed, rows, fleet, deliveries, completed, books, call>>
    BY <1>3 DEF SetStatus
  <2>2. TypeOK'
    BY <2>1, BoundsAssumption DEF Inv, TypeOK, Spend
  <2>3. Requests' /\ RiderVetted'
    BY <2>1 DEF Inv, Requests, Billed, RiderVetted
  <2> QED BY <2>1, <2>2, <2>3 DEF Inv
<1>4. ASSUME NEW o \in Orders, CapturedLedger(o)
      PROVE  Inv'
  <2>1. /\ ledger' = [ledger EXCEPT ![o] = "captured"] /\ Spend
        /\ UNCHANGED <<orders, rows, fleet, deliveries, completed, riderEarned, gst, commissions,
                       settlements, vendorEarned, payouts, call>>
    BY <1>4 DEF CapturedLedger
  <2>2. TypeOK'
    BY <2>1, BoundsAssumption DEF Inv, TypeOK, Spend
  <2>3. Requests' /\ RiderVetted'
    BY <2>1 DEF Inv, Requests, Billed, RiderVetted
  <2> QED BY <2>1, <2>2, <2>3 DEF Inv
<1>5. ASSUME NEW w \in Workers, Kept(w), UNCHANGED <<approved, vetted>>, Billed \subseteq Billed'
      PROVE  Inv'
  BY <1>5, OthersSound DEF Inv
<1>6. ASSUME NEW w \in Workers, Kept(w), UNCHANGED <<approved, vetted, gst>>
      PROVE  Inv'
  BY <1>5, <1>6 DEF Billed
<1> QED BY <1>1, <1>2, <1>3, <1>4, <1>5, <1>6, FleetKept, AssignKept, DeliverKept, SettleKept, CarrierKept,
        CrashKept DEF Next, FleetStep

(* Types, riders vetted, and requests that carry what their next await     *)
(* needs: an order that exists, a rider, a vendor of the order.            *)
THEOREM Invariance == Spec => []Inv
  BY InitInv, NextInv, PTL DEF Spec

(* Every row, tally and request has its type: a settlement always is at a  *)
(* vendor of its order, and every handler at an order and a rider.         *)
THEOREM TypeCorrect == Spec => []TypeOK
<1>1. Inv => TypeOK
  BY DEF Inv
<1> QED BY <1>1, Invariance, PTL

(* Nobody rides or is paid whom no admin ever approved.                    *)
THEOREM RidersVetted == Spec => []RiderVetted
<1>1. Inv => RiderVetted
  BY DEF Inv
<1> QED BY <1>1, Invariance, PTL

-----------------------------------------------------------------------------
(* Counting requests.                                                      *)

(* The workers whose request is one of F.                                  *)
In(F) == {w \in Workers : call[w] \in F}
Hit(c, F) == IF c \in F THEN 1 ELSE 0

LEMMA InSize ==
    ASSUME NEW F
    PROVE  IsFiniteSet(In(F)) /\ Cardinality(In(F)) \in Nat /\ Cardinality(In(F)) <= Cardinality(Workers)
           /\ Cardinality(Workers) \in Nat
  BY FiniteAssumption, FS_Subset, FS_CardinalityType DEF In

(* A step of one request.                                                  *)
LEMMA InChange ==
    ASSUME TypeOK, NEW w \in Workers, Only(w), NEW F
    PROVE  /\ Cardinality(In(F)') = Cardinality(In(F)) + Hit(call'[w], F) - Hit(call[w], F)
           /\ Cardinality(In(F)) \in Nat /\ Cardinality(In(F)') \in Nat
<1>1. \A v \in Workers \ {w} : call'[v] = call[v]
  BY DEF TypeOK, Only
<1>2. /\ IsFiniteSet(In(F)) /\ IsFiniteSet(In(F)')
      /\ Cardinality(In(F)) \in Nat /\ Cardinality(In(F)') \in Nat
  BY FiniteAssumption, FS_Subset, FS_CardinalityType DEF In
<1>3. CASE (call[w] \in F) = (call'[w] \in F)
  <2>1. In(F)' = In(F)
    BY <1>1, <1>3 DEF In
  <2> QED BY <1>2, <1>3, <2>1 DEF Hit
<1>4. CASE call[w] \in F /\ call'[w] \notin F
  <2>1. In(F)' = In(F) \ {w} /\ w \in In(F)
    BY <1>1, <1>4 DEF In
  <2>2. Cardinality(In(F)') = Cardinality(In(F)) - 1
    BY <1>2, <2>1, FS_RemoveElement
  <2> QED BY <1>2, <1>4, <2>2 DEF Hit
<1>5. CASE call[w] \notin F /\ call'[w] \in F
  <2>1. In(F)' = In(F) \cup {w} /\ w \notin In(F)
    BY <1>1, <1>5 DEF In
  <2>2. Cardinality(In(F)') = Cardinality(In(F)) + 1
    BY <1>2, <2>1, FS_AddElement
  <2> QED BY <1>2, <1>5, <2>2 DEF Hit
<1> QED BY <1>3, <1>4, <1>5

(* What is written where a request goes on.                                *)
LEMMA GoesOn ==
    ASSUME TypeOK, NEW w \in Workers, NEW pc \in Labels, Goto(w, pc)
    PROVE  /\ Only(w) /\ call'[w].pc = pc /\ call'[w].op = call[w].op
           /\ call'[w].order = call[w].order /\ call'[w].rider = call[w].rider
           /\ call'[w].vendor = call[w].vendor /\ call'[w].todo = call[w].todo
<1>1. call[w] \in Calls
  BY DEF TypeOK
<1> QED BY <1>1, GotoOnly DEF Calls

LEMMA Ended ==
    ASSUME TypeOK, NEW w \in Workers, Return(w)
    PROVE  Only(w) /\ call'[w].pc = "idle" /\ call'[w].op = "idle"
  BY ReturnOnly, IdleType

LEMMA NextVendorGoes ==
    ASSUME TypeOK, NEW w \in Workers, NEW todo \in SUBSET Vendors, NextVendor(w, todo)
    PROVE  /\ Only(w) /\ call'[w].op = call[w].op /\ call'[w].order = call[w].order
           /\ call'[w].rider = call[w].rider /\ call'[w].todo = todo
           /\ \/ todo = {} /\ call'[w].pc = "payout"
              \/ call'[w].pc = "commission" /\ call'[w].vendor \in todo
<1>1. call[w] \in Calls
  BY DEF TypeOK
<1>2. /\ Only(w)
      /\ \/ todo = {} /\ call'[w] = [call[w] EXCEPT !.pc = "payout", !.todo = {}, !.vendor = None]
         \/ \E v \in todo :
               call'[w] = [call[w] EXCEPT !.pc = "commission", !.todo = todo, !.vendor = v]
  BY NextVendorOnly
<1>3. CASE todo = {} /\ call'[w] = [call[w] EXCEPT !.pc = "payout", !.todo = {}, !.vendor = None]
  BY <1>1, <1>2, <1>3 DEF Calls
<1>4. ASSUME NEW v \in todo,
             call'[w] = [call[w] EXCEPT !.pc = "commission", !.todo = todo, !.vendor = v]
      PROVE  /\ call'[w].op = call[w].op /\ call'[w].order = call[w].order /\ call'[w].rider = call[w].rider
             /\ call'[w].todo = todo /\ call'[w].pc = "commission" /\ call'[w].vendor = v
  BY <1>1, <1>4 DEF Calls
<1> QED BY <1>2, <1>3, <1>4

(* Requests that neither settle nor ship.                                  *)
LEMMA Aside ==
    ASSUME Inv, NEW w \in Workers,
           \/ ToggleWrite(w) \/ \E r \in Riders : ToggleBegin(w, r)
           \/ AssignStep(w) \/ \E o \in Orders, op \in {"pick", "deliver"} : DeliveryBegin(w, o, op)
           \/ PickedUpTx(w) \/ TypeTx(w) \/ \E o \in Orders, t \in DeliveryType : TypeBegin(w, o, t)
    PROVE  /\ Only(w) /\ call[w].op # "deliver" /\ call[w].op # "ship" /\ call'[w].op # "ship"
           /\ call'[w].op = "deliver" => call'[w].pc = "count"
           /\ UNCHANGED <<shipped, shipment, unnamed, deliveries, completed, books, crashes>>
<1> USE DEF Inv
<1>1. ASSUME NEW r \in Riders, ToggleBegin(w, r)
      PROVE  call[w] = Idle /\ call'[w].op = "toggle"
  BY <1>1 DEF ToggleBegin, Accept, Idle, TypeOK
<1>2. ASSUME NEW o \in Orders, NEW r \in Riders, AutoAssignBegin(w, o, r) \/ AssignBegin(w, o, r)
      PROVE  call[w] = Idle /\ call'[w].op \in {"auto", "admin"}
  <2>1. PICK op \in {"auto", "admin"} :
           Accept(w, [Idle EXCEPT !.op = op, !.pc = "assign", !.order = o, !.rider = r])
    BY <1>2 DEF AutoAssignBegin, AssignBegin
  <2> QED BY <2>1 DEF Accept, Idle, TypeOK
<1>3. ASSUME NEW o \in Orders, NEW op \in {"pick", "deliver"}, DeliveryBegin(w, o, op)
      PROVE  call[w] = Idle /\ call'[w].op = op /\ (op = "deliver" => call'[w].pc = "count")
  BY <1>3 DEF DeliveryBegin, Accept, Idle, TypeOK
<1>4. ASSUME NEW o \in Orders, NEW t \in DeliveryType, TypeBegin(w, o, t)
      PROVE  call[w] = Idle /\ call'[w].op = "type"
  BY <1>4 DEF TypeBegin, Accept, Idle, TypeOK
<1>5. CASE ToggleWrite(w) \/ AssignStatus(w) \/ PickedUpTx(w) \/ TypeTx(w)
  <2>1. Return(w) /\ call[w].op \in {"toggle", "auto", "admin", "pick", "type"}
    BY <1>5 DEF ToggleWrite, AssignStatus, PickedUpTx, TypeTx, IsAt
  <2> QED BY <1>5, <2>1, Ended DEF ToggleWrite, AssignStatus, PickedUpTx, TypeTx
<1>6. CASE AssignRow(w)
  <2>1. Goto(w, "status") /\ call[w].op \in {"auto", "admin"} /\ "status" \in Labels
    BY <1>6 DEF AssignRow, Labels
  <2>2. Only(w) /\ call'[w].op = call[w].op
    BY <2>1, GoesOn
  <2> QED BY <1>6, <2>1, <2>2 DEF AssignRow
<1>7. Only(w)
  BY FleetKept, AssignKept, DeliverKept, CarrierKept DEF Kept, DeliverStep, CarrierStep
<1> QED BY <1>1, <1>2, <1>3, <1>4, <1>5, <1>6, <1>7, IdleType
        DEF AssignStep, ToggleBegin, AutoAssignBegin, AssignBegin, DeliveryBegin, TypeBegin, Spend

-----------------------------------------------------------------------------
(* Shiprocket.                                                             *)

Gate(o) == {c \in Calls : c.op = "ship" /\ c.pc = "gateway" /\ c.order = o}
Recording(o) == {c \in Calls : c.op = "ship" /\ c.pc \in {"record", "unnamed"} /\ c.order = o}
Unnamed(o) == {c \in Calls : c.op = "ship" /\ c.pc = "unnamed" /\ c.order = o}

(* Each order created at Shiprocket stands for a request that is still to  *)
(* record it or for a failure until the number is there, and no request    *)
(* begins after that, unless an answer without a number has been stored:   *)
(* then the requests in flight may begin anew.                             *)
ShipRoom ==
    \A o \in Orders :
        LET blanks == unnamed[o] - Cardinality(In(Unnamed(o))) IN
        /\ blanks >= 0
        /\ shipped[o] + Cardinality(In(Gate(o))) <= Cardinality(Workers) + Cardinality(Workers) * blanks + crashes
        /\ shipment[o] \in {"none", "blank"} =>
               shipped[o] <= Cardinality(In(Recording(o))) + Cardinality(Workers) * blanks + crashes

LEMMA Rounds ==
    ASSUME NEW n \in Nat, NEW b \in Nat
    PROVE  n * b \in Nat /\ n * (b + 1) = n * b + n
  OBVIOUS

LEMMA ShipRoomKept ==
    ASSUME Inv, Inv', [Next]_vars, ShipRoom
    PROVE  ShipRoom'
<1> SUFFICES ASSUME NEW o \in Orders
             PROVE  LET blanks == unnamed'[o] - Cardinality(In(Unnamed(o))') IN
                    /\ blanks >= 0
                    /\ shipped'[o] + Cardinality(In(Gate(o))') <=
                          Cardinality(Workers) + Cardinality(Workers) * blanks + crashes'
                    /\ shipment'[o] \in {"none", "blank"} =>
                          shipped'[o] <= Cardinality(In(Recording(o))') + Cardinality(Workers) * blanks + crashes'
  BY DEF ShipRoom, Gate, Recording, Unnamed
<1> DEFINE n == Cardinality(Workers)
           g == Cardinality(In(Gate(o)))
           h == Cardinality(In(Gate(o))')
           k == Cardinality(In(Recording(o)))
           l == Cardinality(In(Recording(o))')
           d == Cardinality(In(Unnamed(o)))
           e == Cardinality(In(Unnamed(o))')
           b == unnamed[o] - d
           f == unnamed'[o] - e
           m == n * b
           z == n * f
<1>0. /\ TypeOK /\ TypeOK' /\ shipped[o] \in Nat /\ shipped'[o] \in Nat /\ crashes \in Nat /\ crashes' \in Nat
      /\ unnamed[o] \in Nat /\ unnamed'[o] \in Nat /\ d \in Nat /\ b \in Nat
      /\ n \in Nat /\ shipped[o] + g <= n + m + crashes
      /\ shipment[o] \in {"none", "blank"} => shipped[o] <= k + m + crashes
  BY InSize DEF ShipRoom, Inv, TypeOK
<1>1. ASSUME NEW w \in Workers, Only(w)
      PROVE  /\ h = g + Hit(call'[w], Gate(o)) - Hit(call[w], Gate(o))
             /\ l = k + Hit(call'[w], Recording(o)) - Hit(call[w], Recording(o))
             /\ e = d + Hit(call'[w], Unnamed(o)) - Hit(call[w], Unnamed(o))
             /\ g \in Nat /\ h \in Nat /\ k \in Nat /\ l \in Nat
             /\ call[w] \in Calls /\ call'[w] \in Calls
  BY <1>0, <1>1, InChange DEF TypeOK
<1>16. (\E w \in Workers : TRUE) => n >= 1
  BY <1>0, FiniteAssumption, FS_EmptySet
<1>14. m \in Nat /\ (f = b => z = m) /\ (f = b + 1 => z = m + n)
  <2> HIDE DEF n, b, f
  <2> QED BY <1>0, Rounds
<1> DEFINE Goal == /\ f >= 0
                   /\ shipped'[o] + h <= n + z + crashes'
                   /\ shipment'[o] \in {"none", "blank"} => shipped'[o] <= l + z + crashes'
<1>2. ASSUME UNCHANGED <<shipped, shipment, unnamed, call, crashes>>
      PROVE  Goal
  <2>1. g = h /\ k = l /\ b = f
    BY <1>2 DEF In
  <2> HIDE DEF g, h, k, l, n, b, f, m, z
  <2> QED BY <1>0, <1>2, <1>14, <2>1
<1>3. ASSUME NEW w \in Workers, Only(w), call[w].op # "ship", call'[w].op # "ship",
             UNCHANGED <<shipped, shipment, unnamed>>, crashes' >= crashes
      PROVE  Goal
  <2>1. /\ Hit(call'[w], Gate(o)) = 0 /\ Hit(call[w], Gate(o)) = 0
        /\ Hit(call'[w], Recording(o)) = 0 /\ Hit(call[w], Recording(o)) = 0
        /\ Hit(call'[w], Unnamed(o)) = 0 /\ Hit(call[w], Unnamed(o)) = 0
    BY <1>3 DEF Hit, Gate, Recording, Unnamed
  <2>2. h = g /\ l = k /\ g \in Nat /\ k \in Nat /\ f = b
    BY <1>0, <1>1, <1>3, <2>1
  <2> HIDE DEF g, h, k, l, n, d, e, b, f, m, z
  <2> QED BY <1>0, <1>3, <1>14, <2>2
<1>4. ASSUME NEW w \in Workers, NEW q \in Orders, ShipBegin(w, q)
      PROVE  Goal
  <2>1. /\ Only(w) /\ call[w].op = "idle" /\ call'[w].op = "ship" /\ call'[w].pc = "gateway"
        /\ call'[w].order = q /\ shipment[q] \in {"none", "blank"}
        /\ UNCHANGED <<shipped, shipment, unnamed, crashes>>
    <3>1. Only(w)
      BY <1>4, CarrierKept DEF CarrierStep, Kept, Inv
    <3>2. call[w] = Idle /\ call'[w] = [Idle EXCEPT !.op = "ship", !.pc = "gateway", !.order = q]
      BY <1>0, <1>4 DEF ShipBegin, Accept, TypeOK
    <3>3. call'[w].op = "ship" /\ call'[w].pc = "gateway" /\ call'[w].order = q
      BY <3>2 DEF Idle
    <3> QED BY <1>4, <3>1, <3>2, <3>3, IdleType DEF ShipBegin, Spend
  <2>2. /\ Hit(call[w], Gate(o)) = 0 /\ Hit(call[w], Recording(o)) = 0 /\ Hit(call'[w], Recording(o)) = 0
        /\ Hit(call[w], Unnamed(o)) = 0 /\ Hit(call'[w], Unnamed(o)) = 0
    BY <2>1 DEF Hit, Gate, Recording, Unnamed
  <2>3. Hit(call'[w], Gate(o)) = IF o = q THEN 1 ELSE 0
    BY <1>1, <2>1 DEF Hit, Gate
  <2>4. h + l <= n
    <3>1. In(Gate(o))' \cap In(Recording(o))' = {}
      BY DEF In, Gate, Recording
    <3>2. IsFiniteSet(In(Gate(o))') /\ IsFiniteSet(In(Recording(o))')
          /\ In(Gate(o))' \cup In(Recording(o))' \subseteq Workers
      BY FiniteAssumption, FS_Subset DEF In
    <3>3. Cardinality(In(Gate(o))' \cup In(Recording(o))') = h + l - 0
      BY <3>1, <3>2, FS_Union, FS_EmptySet
    <3>4. Cardinality(In(Gate(o))' \cup In(Recording(o))') <= n
      BY <3>2, FiniteAssumption, FS_Subset
    <3> QED BY <1>1, <2>1, <3>3, <3>4
  <2>5. f = b
    BY <1>0, <1>1, <2>1, <2>2
  <2> HIDE DEF g, h, k, l, n, d, e, b, f, m, z
  <2> QED BY <1>0, <1>1, <1>14, <2>1, <2>2, <2>3, <2>4, <2>5
<1>5. ASSUME NEW w \in Workers, ShipAtGateway(w)
      PROVE  Goal
  <2>1. /\ Only(w) /\ call'[w].pc = "record" /\ call'[w].op = "ship" /\ call'[w].order = call[w].order
        /\ call[w].op = "ship" /\ call[w].pc = "gateway" /\ call[w].order \in Orders
        /\ shipped' = [shipped EXCEPT ![call[w].order] = @ + 1] /\ UNCHANGED <<shipment, unnamed, crashes>>
    BY <1>0, <1>5, GoesOn DEF ShipAtGateway, IsAt, Labels, Inv, Requests, Sound
  <2>2. shipped'[o] = IF call[w].order = o THEN shipped[o] + 1 ELSE shipped[o]
    BY <1>0, <2>1 DEF TypeOK
  <2>3. /\ Hit(call[w], Gate(o)) = IF call[w].order = o THEN 1 ELSE 0
        /\ Hit(call'[w], Recording(o)) = IF call[w].order = o THEN 1 ELSE 0
        /\ Hit(call'[w], Gate(o)) = 0 /\ Hit(call[w], Recording(o)) = 0
        /\ Hit(call'[w], Unnamed(o)) = 0 /\ Hit(call[w], Unnamed(o)) = 0
    BY <1>1, <2>1 DEF Hit, Gate, Recording, Unnamed
  <2>4. f = b
    BY <1>0, <1>1, <2>1, <2>3
  <2> HIDE DEF g, h, k, l, n, d, e, b, f, m, z
  <2> QED BY <1>0, <1>1, <1>14, <2>1, <2>2, <2>3, <2>4
<1>15. ASSUME NEW w \in Workers, NEW created \in BOOLEAN, ShipUnnamed(w, created)
       PROVE  Goal
  <2>1. /\ Only(w) /\ call'[w].pc = "unnamed" /\ call'[w].op = "ship" /\ call'[w].order = call[w].order
        /\ call[w].op = "ship" /\ call[w].pc = "gateway" /\ call[w].order \in Orders
        /\ unnamed' = [unnamed EXCEPT ![call[w].order] = @ + 1] /\ UNCHANGED <<shipment, crashes>>
        /\ shipped' = [shipped EXCEPT ![call[w].order] = IF created THEN @ + 1 ELSE @]
    BY <1>0, <1>15, GoesOn DEF ShipUnnamed, IsAt, Labels, Inv, Requests, Sound
  <2>2. /\ unnamed'[o] = IF call[w].order = o THEN unnamed[o] + 1 ELSE unnamed[o]
        /\ IF call[w].order = o THEN shipped'[o] \in {shipped[o], shipped[o] + 1} ELSE shipped'[o] = shipped[o]
    BY <1>0, <2>1 DEF TypeOK
  <2>3. /\ Hit(call'[w], Unnamed(o)) = IF call[w].order = o THEN 1 ELSE 0
        /\ Hit(call[w], Gate(o)) = IF call[w].order = o THEN 1 ELSE 0
        /\ Hit(call'[w], Recording(o)) = IF call[w].order = o THEN 1 ELSE 0
        /\ Hit(call'[w], Gate(o)) = 0 /\ Hit(call[w], Recording(o)) = 0 /\ Hit(call[w], Unnamed(o)) = 0
    BY <1>1, <2>1 DEF Hit, Gate, Recording, Unnamed
  <2>4. f = b
    BY <1>0, <1>1, <2>1, <2>2, <2>3
  <2> HIDE DEF g, h, k, l, n, d, e, b, f, m, z
  <2> QED BY <1>0, <1>1, <1>14, <2>1, <2>2, <2>3, <2>4
<1>6. ASSUME NEW w \in Workers, ShipRefused(w)
      PROVE  Goal
  <2>1. /\ Only(w) /\ call'[w].pc = "mock" /\ call[w].pc = "gateway"
        /\ UNCHANGED <<shipped, shipment, unnamed, crashes>>
    BY <1>0, <1>6, GoesOn DEF ShipRefused, IsAt, Labels
  <2>2. /\ Hit(call[w], Gate(o)) \in {0, 1} /\ Hit(call'[w], Gate(o)) = 0
        /\ Hit(call[w], Recording(o)) = 0 /\ Hit(call'[w], Recording(o)) = 0
        /\ Hit(call[w], Unnamed(o)) = 0 /\ Hit(call'[w], Unnamed(o)) = 0
    BY <2>1 DEF Hit, Gate, Recording, Unnamed
  <2>3. f = b
    BY <1>0, <1>1, <2>1, <2>2
  <2> HIDE DEF g, h, k, l, n, d, e, b, f, m, z
  <2> QED BY <1>0, <1>1, <1>14, <2>1, <2>2, <2>3
<1>7. ASSUME NEW w \in Workers, ShipRecord(w)
      PROVE  Goal
  <2>1. /\ Only(w) /\ call'[w].op = "idle" /\ call[w].pc \in {"record", "unnamed", "mock"} /\ call[w].op = "ship"
        /\ call[w].order \in Orders /\ UNCHANGED <<shipped, unnamed, crashes>>
        /\ shipment' = [shipment EXCEPT ![call[w].order] = NumberAt[call[w].pc]]
    BY <1>0, <1>7, Ended DEF ShipRecord, NumberAt, Inv, Requests, Sound
  <2>2. IF call[w].order # o THEN shipment'[o] = shipment[o]
        ELSE call[w].pc # "unnamed" => shipment'[o] \notin {"none", "blank"}
    BY <1>0, <2>1 DEF TypeOK, NumberAt
  <2>3. /\ Hit(call[w], Gate(o)) = 0 /\ Hit(call'[w], Gate(o)) = 0 /\ Hit(call'[w], Recording(o)) = 0
        /\ Hit(call[w], Recording(o)) \in {0, 1} /\ (call[w].order # o => Hit(call[w], Recording(o)) = 0)
        /\ Hit(call'[w], Unnamed(o)) = 0
        /\ Hit(call[w], Unnamed(o)) = IF call[w].order = o /\ call[w].pc = "unnamed" THEN 1 ELSE 0
    BY <1>1, <2>1 DEF Hit, Gate, Recording, Unnamed
  <2>4. f = IF call[w].order = o /\ call[w].pc = "unnamed" THEN b + 1 ELSE b
    BY <1>0, <1>1, <2>1, <2>3
  <2> HIDE DEF g, h, k, l, n, d, e, b, f, m, z
  <2> QED BY <1>0, <1>1, <1>14, <1>16, <2>1, <2>2, <2>3, <2>4
<1>8. ASSUME NEW w \in Workers, NEW stored \in BOOLEAN, ShipRecordThrows(w, stored)
      PROVE  Goal
  <2>1. /\ Only(w) /\ call'[w].pc = "mock" /\ call[w].pc \in {"record", "unnamed"} /\ call[w].op = "ship"
        /\ call[w].order \in Orders /\ UNCHANGED <<shipped, unnamed>> /\ crashes' = crashes + 1
        /\ shipment' = [shipment EXCEPT ![call[w].order] = IF stored THEN NumberAt[call[w].pc] ELSE @]
    BY <1>0, <1>8, GoesOn DEF ShipRecordThrows, NumberAt, Labels, Fail, Inv, Requests, Sound
  <2>2. shipment'[o] \in {"none", "blank"} =>
            shipment[o] \in {"none", "blank"} \/ (call[w].order = o /\ call[w].pc = "unnamed")
    BY <1>0, <2>1 DEF TypeOK, NumberAt
  <2>3. /\ Hit(call[w], Gate(o)) = 0 /\ Hit(call'[w], Gate(o)) = 0
        /\ Hit(call[w], Recording(o)) \in {0, 1} /\ Hit(call'[w], Recording(o)) = 0
        /\ Hit(call'[w], Unnamed(o)) = 0
        /\ Hit(call[w], Unnamed(o)) = IF call[w].order = o /\ call[w].pc = "unnamed" THEN 1 ELSE 0
    BY <1>1, <2>1 DEF Hit, Gate, Recording, Unnamed
  <2>4. f = IF call[w].order = o /\ call[w].pc = "unnamed" THEN b + 1 ELSE b
    BY <1>0, <1>1, <2>1, <2>3
  <2> HIDE DEF g, h, k, l, n, d, e, b, f, m, z
  <2> QED BY <1>0, <1>1, <1>14, <1>16, <2>1, <2>2, <2>3, <2>4
<1>9. ASSUME NEW w \in Workers, Crash(w)
      PROVE  Goal
  <2>1. Only(w) /\ call'[w].op = "idle" /\ UNCHANGED <<shipped, shipment, unnamed>> /\ crashes' = crashes + 1
    BY <1>0, <1>9, Ended DEF Crash, Fail
  <2>2. /\ Hit(call[w], Gate(o)) \in {0, 1} /\ Hit(call'[w], Gate(o)) = 0
        /\ Hit(call[w], Recording(o)) \in {0, 1} /\ Hit(call'[w], Recording(o)) = 0
        /\ Hit(call[w], Unnamed(o)) \in {0, 1} /\ Hit(call'[w], Unnamed(o)) = 0
    BY <2>1 DEF Hit, Gate, Recording, Unnamed
  <2>3. f \in {b, b + 1}
    BY <1>0, <1>1, <2>1, <2>2
  <2> HIDE DEF g, h, k, l, n, d, e, b, f, m, z
  <2> QED BY <1>0, <1>1, <1>14, <2>1, <2>2, <2>3
<1>10. ASSUME NEW w \in Workers, SettleStep(w) \/ CountDelivery(w) \/ DeliveredTx(w) \/ DeliveryGone(w)
       PROVE  Goal
  <2>1. /\ call[w].op # "ship" /\ UNCHANGED <<shipped, shipment, unnamed, crashes>>
        /\ Return(w) \/ (\E pc \in Labels : Goto(w, pc)) \/ (\E todo \in SUBSET Vendors : NextVendor(w, todo))
    <3>1. call[w].op \in {"pick", "deliver"} /\ UNCHANGED <<shipped, shipment, unnamed, crashes>>
      BY <1>10 DEF SettleStep, SettleGst, SettleCommission, SettleVendor, CreditVendor, Payout, CreditRider,
          SettleLedger, CountDelivery, DeliveredTx, DeliveryGone, IsAt
    <3>2. /\ call[w].op = "deliver" => VendorsOf[call[w].order] \in SUBSET Vendors
          /\ call[w].todo \ {call[w].vendor} \in SUBSET Vendors
      BY <1>0, SettlementSound DEF Inv, Requests, TypeOK, Calls
    <3> QED BY <1>10, <3>1, <3>2 DEF SettleStep, SettleGst, SettleCommission, SettleVendor, CreditVendor, Payout,
            CreditRider, SettleLedger, CountDelivery, DeliveredTx, DeliveryGone, IsAt, Labels
  <2>2. Only(w) /\ call'[w].op # "ship"
    BY <1>0, <2>1, Ended, GoesOn, NextVendorGoes
  <2>3. crashes' >= crashes
    BY <1>0, <2>1
  <2> QED BY <1>3, <2>1, <2>2, <2>3
<1>11. ASSUME NEW w \in Workers,
              \/ ToggleWrite(w) \/ \E r \in Riders : ToggleBegin(w, r)
              \/ AssignStep(w) \/ \E q \in Orders, op \in {"pick", "deliver"} : DeliveryBegin(w, q, op)
              \/ PickedUpTx(w) \/ TypeTx(w) \/ \E q \in Orders, t \in DeliveryType : TypeBegin(w, q, t)
       PROVE  Goal
  BY <1>0, <1>3, <1>11, Aside
<1>12. ASSUME \/ \E r \in Riders, yes \in BOOLEAN : ApproveDeliveryBoy(r, yes)
              \/ \E q \in Orders, s \in OrderStatus : SetStatus(q, s)
              \/ \E q \in Orders : CapturedLedger(q)
              \/ UNCHANGED vars
       PROVE  Goal
  BY <1>2, <1>12 DEF ApproveDeliveryBoy, SetStatus, CapturedLedger, Spend, vars
<1> HIDE DEF Goal
<1>13. Goal
  BY <1>4, <1>5, <1>6, <1>7, <1>8, <1>9, <1>10, <1>11, <1>12, <1>15
     DEF Next, FleetStep, DeliverStep, CarrierStep
<1> QED BY <1>13 DEF Goal

LEMMA RoomInvariant == Spec => [](Inv /\ ShipRoom)
<1>1. Init => ShipRoom
  <2> SUFFICES ASSUME Init PROVE ShipRoom
    OBVIOUS
  <2>1. ASSUME NEW o \in Orders
        PROVE  /\ Cardinality(In(Gate(o))) = 0 /\ Cardinality(In(Unnamed(o))) = 0 /\ shipped[o] = 0 /\ unnamed[o] = 0
               /\ Cardinality(In(Recording(o))) \in Nat /\ crashes = 0
               /\ Cardinality(Workers) \in Nat /\ Cardinality(Workers) * 0 = 0
    <3>1. In(Gate(o)) = {} /\ In(Unnamed(o)) = {}
      BY IdleType DEF Init, In, Gate, Unnamed
    <3>2. shipped[o] = 0 /\ unnamed[o] = 0 /\ crashes = 0
      BY DEF Init
    <3>3. Cardinality(In(Recording(o))) \in Nat /\ Cardinality(Workers) \in Nat
      BY InSize
    <3> QED BY <3>1, <3>2, <3>3, FS_EmptySet
  <2> QED BY <2>1 DEF ShipRoom
<1> QED BY <1>1, InitInv, NextInv, ShipRoomKept, PTL DEF Spec

(* At most one order per request in flight and per failure is created at   *)
(* Shiprocket for an order, and again for each answer without a number.    *)
THEOREM ShipBounded == Spec => []ShipBound
<1>1. Inv /\ ShipRoom => ShipBound
  <2> SUFFICES ASSUME Inv, ShipRoom, NEW o \in Orders
               PROVE  shipped[o] <= Cardinality(Workers) * (1 + unnamed[o]) + crashes
    BY DEF ShipBound
  <2> DEFINE n == Cardinality(Workers)
             u == unnamed[o]
             p == Cardinality(In(Unnamed(o)))
             g == Cardinality(In(Gate(o)))
  <2>1. shipped[o] + g <= n + n * (u - p) + crashes
    BY DEF ShipRoom
  <2>2. n \in Nat /\ p \in Nat /\ g \in Nat
    BY InSize
  <2>3. shipped[o] \in Nat /\ crashes \in Nat /\ u \in Nat
    BY DEF Inv, TypeOK
  <2> HIDE DEF n, u, p, g
  <2>4. n * (1 + u) = n + n * (u - p) + n * p /\ n * p \in Nat /\ n * (u - p) \in Int
    BY <2>2, <2>3
  <2>5. shipped[o] <= n * (1 + u) + crashes
    <3> DEFINE x == n * (u - p)
               y == n * p
               z == n * (1 + u)
    <3> HIDE DEF x, y, z
    <3>1. z = n + x + y /\ y \in Nat /\ x \in Int /\ shipped[o] + g <= n + x + crashes
      BY <2>1, <2>4 DEF x, y, z
    <3>2. shipped[o] <= z + crashes
      BY <2>2, <2>3, <3>1
    <3> QED BY <3>2 DEF z
  <2> QED BY <2>5 DEF n, u
<1> QED BY <1>1, RoomInvariant, PTL

-----------------------------------------------------------------------------
(* Statuses.                                                               *)

(* Who holds an answer that names no order counts among those answers.     *)
LEMMA Answered ==
    ASSUME Inv, ShipRoom, NEW w \in Workers, call[w].op = "ship", call[w].pc = "unnamed"
    PROVE  unnamed[call[w].order] > 0
<1> DEFINE q == call[w].order
<1>1. call[w] \in Calls /\ q \in Orders /\ unnamed[q] \in Nat
  BY DEF Inv, TypeOK, Requests, Sound
<1>2. w \in In(Unnamed(q))
  BY <1>1 DEF In, Unnamed
<1>3. Cardinality(In(Unnamed(q))) # 0 /\ Cardinality(In(Unnamed(q))) \in Nat
  BY <1>2, InSize, FS_EmptySet
<1>4. unnamed[q] - Cardinality(In(Unnamed(q))) >= 0
  BY <1>1 DEF ShipRoom
<1> QED BY <1>1, <1>3, <1>4

LEMMA WitnessKept ==
    ASSUME Inv, [Next]_vars, StatusWitnessed, ShipRoom
    PROVE  StatusWitnessed'
<1> USE DEF Inv, TypeOK
<1>1. CASE UNCHANGED <<status, overridden, completed, shipment, unnamed>>
  BY <1>1 DEF StatusWitnessed
<1>2. ASSUME NEW w \in Workers, AssignStatus(w) \/ PickedUpTx(w)
      PROVE  StatusWitnessed'
  BY <1>2 DEF AssignStatus, PickedUpTx, StatusWitnessed
<1>3. ASSUME NEW w \in Workers, DeliveredTx(w)
      PROVE  StatusWitnessed'
  <2>1. call[w].order \in Orders
    BY <1>3 DEF DeliveredTx, IsAt, Requests, Sound
  <2> QED BY <1>3, <2>1 DEF DeliveredTx, StatusWitnessed
<1>4. ASSUME NEW w \in Workers, ShipRecord(w)
      PROVE  StatusWitnessed'
  <2>1. call[w].pc = "unnamed" => unnamed[call[w].order] > 0
    BY <1>4, Answered DEF ShipRecord
  <2> QED BY <1>4, <2>1 DEF ShipRecord, NumberAt, StatusWitnessed
<1>5. ASSUME NEW w \in Workers, NEW stored \in BOOLEAN, ShipRecordThrows(w, stored)
      PROVE  StatusWitnessed'
  <2>1. call[w].pc = "unnamed" => unnamed[call[w].order] > 0
    BY <1>5, Answered DEF ShipRecordThrows
  <2> QED BY <1>5, <2>1 DEF ShipRecordThrows, NumberAt, StatusWitnessed
<1>11. ASSUME NEW w \in Workers, NEW created \in BOOLEAN, ShipUnnamed(w, created)
      PROVE  StatusWitnessed'
  <2>1. unnamed' = [unnamed EXCEPT ![call[w].order] = @ + 1] /\ UNCHANGED <<status, overridden, completed, shipment>>
    BY <1>11 DEF ShipUnnamed
  <2>2. \A o \in Orders : unnamed[o] > 0 => unnamed'[o] > 0
    BY <2>1
  <2> QED BY <2>1, <2>2 DEF StatusWitnessed
<1>6. ASSUME NEW o \in Orders, NEW s \in OrderStatus, SetStatus(o, s)
      PROVE  StatusWitnessed'
  BY <1>6 DEF SetStatus, StatusWitnessed
<1>7. ASSUME NEW w \in Workers, CarrierStep(w)
      PROVE  StatusWitnessed'
  BY <1>1, <1>4, <1>5, <1>7, <1>11 DEF CarrierStep, TypeBegin, TypeTx, ShipBegin, ShipAtGateway, ShipRefused
<1>8. ASSUME NEW w \in Workers, AssignStep(w) \/ DeliverStep(w)
      PROVE  StatusWitnessed'
  BY <1>1, <1>2, <1>3, <1>8 DEF AssignStep, DeliverStep, AutoAssignBegin, AssignBegin, AssignRow,
      DeliveryBegin, CountDelivery, DeliveryGone
<1>9. ASSUME NEW w \in Workers, SettleStep(w) \/ Crash(w)
      PROVE  StatusWitnessed'
  BY <1>1, <1>9 DEF SettleStep, SettleGst, SettleCommission, SettleVendor, CreditVendor, Payout, CreditRider,
      SettleLedger, Crash
<1>10. CASE FleetStep \/ \E o \in Orders : CapturedLedger(o)
  BY <1>1, <1>10 DEF FleetStep, ApproveDeliveryBoy, ToggleBegin, ToggleWrite, CapturedLedger
<1> QED BY <1>1, <1>6, <1>7, <1>8, <1>9, <1>10 DEF Next, vars

(* DELIVERED was delivered and SHIPPED has a number, real or made up, or   *)
(* an answer that named no order, unless someone else wrote the status.    *)
THEOREM StatusesWitnessed == Spec => []StatusWitnessed
<1>1. Init => StatusWitnessed
  BY DEF Init, StatusWitnessed
<1> QED BY <1>1, WitnessKept, RoomInvariant, PTL DEF Spec

-----------------------------------------------------------------------------
(* Payouts.                                                                *)

PaidTo(r) == [o \in Orders |-> payouts[o][r]]

LEMMA PaidOutTotal == \A r \in Riders : PaidOut(r) = Total(PaidTo(r), Orders)
  BY PickIn DEF PaidOut, PaidTo, Total, MapThenSumSet, MapThenFoldSet, Pick

LEMMA PaidForTotal ==
    ASSUME TypeOK
    PROVE  \A o \in Orders :
              /\ MapThenSumSet(LAMBDA r : payouts[o][r], Riders) = Total(payouts[o], Riders)
              /\ payouts[o] \in [Riders -> Nat]
<1> SUFFICES ASSUME NEW o \in Orders
             PROVE  MapThenSumSet(LAMBDA r : payouts[o][r], Riders) = Total([r \in Riders |-> payouts[o][r]], Riders)
  BY DEF TypeOK
<1> QED BY PickIn DEF Total, MapThenSumSet, MapThenFoldSet, Pick

(* A payout row more is one more of its order and one more to its rider.   *)
LEMMA OnePayout ==
    ASSUME TypeOK, TypeOK', NEW o \in Orders, NEW r \in Riders, payouts' = [payouts EXCEPT ![o][r] = @ + 1]
    PROVE  /\ Total(payouts'[o], Riders) = Total(payouts[o], Riders) + 1
           /\ \A q \in Orders : q # o => payouts'[q] = payouts[q]
           /\ Total(PaidTo(r)', Orders) = Total(PaidTo(r), Orders) + 1
           /\ \A x \in Riders : x # r => PaidTo(x)' = PaidTo(x)
<1>1. /\ payouts' \in [Orders -> [Riders -> Nat]] /\ payouts'[o][r] = payouts[o][r] + 1
      /\ \A q \in Orders, x \in Riders : q # o \/ x # r => payouts'[q][x] = payouts[q][x]
      /\ payouts \in [Orders -> [Riders -> Nat]]
  BY Bump DEF TypeOK
<1>2. Total(payouts'[o], Riders) = Total(payouts[o], Riders) + 1
  <2> DEFINE f == payouts[o]
             g == payouts'[o]
  <2>1. /\ f \in [Riders -> Nat] /\ g \in [Riders -> Nat] /\ g[r] = f[r] + 1
        /\ \A x \in Riders \ {r} : g[x] = f[x]
    BY <1>1
  <2> HIDE DEF f, g
  <2>2. Terms(f, Riders) /\ Terms(g, Riders) /\ IsFiniteSet(Riders) /\ f[r] \in Int /\ g[r] \in Int
    BY <2>1, FiniteAssumption DEF Terms
  <2>3. Total(g, Riders) = Total(f, Riders) + g[r] - f[r] /\ Total(f, Riders) \in Int
    BY <2>1, <2>2, TotalChange, TotalInt
  <2>4. Total(g, Riders) = Total(f, Riders) + 1
    BY <2>1, <2>2, <2>3
  <2> QED BY <2>4 DEF f, g
<1>3. Total(PaidTo(r)', Orders) = Total(PaidTo(r), Orders) + 1
  <2> DEFINE f == [q \in Orders |-> payouts[q][r]]
             g == [q \in Orders |-> payouts'[q][r]]
  <2>1. /\ f \in [Orders -> Nat] /\ g \in [Orders -> Nat] /\ g[o] = f[o] + 1
        /\ \A q \in Orders \ {o} : g[q] = f[q]
    BY <1>1
  <2> HIDE DEF f, g
  <2>2. Terms(f, Orders) /\ Terms(g, Orders) /\ IsFiniteSet(Orders) /\ f[o] \in Int /\ g[o] \in Int
    BY <2>1, FiniteAssumption DEF Terms
  <2>3. Total(g, Orders) = Total(f, Orders) + g[o] - f[o] /\ Total(f, Orders) \in Int
    BY <2>1, <2>2, TotalChange, TotalInt
  <2>4. Total(g, Orders) = Total(f, Orders) + 1
    BY <2>1, <2>2, <2>3
  <2> QED BY <2>4 DEF f, g, PaidTo
<1>4. \A q \in Orders : q # o => payouts'[q] = payouts[q]
  BY <1>1
<1>5. \A x \in Riders : x # r => PaidTo(x)' = PaidTo(x)
  BY <1>1 DEF PaidTo
<1> QED BY <1>2, <1>3, <1>4, <1>5

LEMMA TotalsType ==
    ASSUME TypeOK
    PROVE  /\ \A o \in Orders : Total(payouts[o], Riders) \in Nat
           /\ \A r \in Riders : Total(PaidTo(r), Orders) \in Nat
<1>1. ASSUME NEW o \in Orders
      PROVE  Total(payouts[o], Riders) \in Nat
  <2>1. \A r \in Riders : payouts[o][r] \in Nat
    BY DEF TypeOK
  <2> QED BY <2>1, FiniteAssumption, TotalNat
<1>2. ASSUME NEW r \in Riders
      PROVE  Total(PaidTo(r), Orders) \in Nat
  <2>1. \A o \in Orders : PaidTo(r)[o] \in Nat
    BY DEF TypeOK, PaidTo
  <2> QED BY <2>1, FiniteAssumption, TotalNat
<1> QED BY <1>1, <1>2

(* Where the settlement stands.                                            *)
LEMMA Settles ==
    ASSUME Inv, NEW w \in Workers
    PROVE  /\ call[w] \in Calls /\ (call[w].op = "deliver" => call[w].order \in Orders /\ call[w].rider \in Riders)
           /\ \A pc \in Labels :
                 Goto(w, pc) => /\ Only(w) /\ call'[w] \in Calls /\ call'[w].pc = pc /\ call'[w].op = call[w].op
                                /\ call'[w].order = call[w].order /\ call'[w].rider = call[w].rider
                                /\ call'[w].vendor = call[w].vendor /\ call'[w].todo = call[w].todo
           /\ Return(w) => Only(w) /\ call'[w] \in Calls /\ call'[w].op = "idle" /\ call'[w].pc = "idle"
           /\ \A todo \in SUBSET Vendors :
                 NextVendor(w, todo) =>
                    /\ Only(w) /\ call'[w] \in Calls /\ call'[w].op = call[w].op
                    /\ call'[w].order = call[w].order /\ call'[w].rider = call[w].rider /\ call'[w].todo = todo
                    /\ \/ todo = {} /\ call'[w].pc = "payout"
                       \/ call'[w].pc = "commission" /\ call'[w].vendor \in todo
           /\ call[w].op = "deliver" => VendorsOf[call[w].order] \in SUBSET Vendors
           /\ call[w].todo \ {call[w].vendor} \in SUBSET Vendors
<1>1. TypeOK /\ call[w] \in Calls /\ Sound(call[w], vetted, Billed)
  BY DEF Inv, TypeOK, Requests
<1>2. call[w].op = "deliver" =>
         /\ call[w].order \in Orders /\ call[w].rider \in Riders /\ VendorsOf[call[w].order] \in SUBSET Vendors
  BY <1>1, SettlementSound
<1>3. call[w].todo \ {call[w].vendor} \in SUBSET Vendors
  BY <1>1 DEF Calls
<1> QED BY <1>1, <1>2, <1>3, GoesOn, Ended, NextVendorGoes DEF Only

(* The steps of a delivery and its settlement, and who takes them.         *)
LEMMA Settling ==
    ASSUME Inv, Next
    PROVE  \/ UNCHANGED <<deliveries, completed, riderEarned, gst, commissions, settlements, vendorEarned,
                          payouts, call, crashes>>
           \/ \E w \in Workers :
                 /\ Only(w)
                 /\ \/ /\ call[w].op # "deliver" /\ (call'[w].op = "deliver" => call'[w].pc = "count")
                       /\ UNCHANGED <<deliveries, completed, books>> /\ crashes' \in {crashes, crashes + 1}
                    \/ CountDelivery(w) \/ DeliveredTx(w) \/ DeliveryGone(w) \/ SettleStep(w) \/ Crash(w)
<1>1. CASE \/ \E r \in Riders, yes \in BOOLEAN : ApproveDeliveryBoy(r, yes)
           \/ \E o \in Orders, s \in OrderStatus : SetStatus(o, s)
           \/ \E o \in Orders : CapturedLedger(o)
  BY <1>1 DEF ApproveDeliveryBoy, SetStatus, CapturedLedger, Spend
<1>2. ASSUME NEW w \in Workers,
             \/ ToggleWrite(w) \/ \E r \in Riders : ToggleBegin(w, r)
             \/ AssignStep(w) \/ \E o \in Orders, op \in {"pick", "deliver"} : DeliveryBegin(w, o, op)
             \/ PickedUpTx(w) \/ TypeTx(w) \/ \E o \in Orders, t \in DeliveryType : TypeBegin(w, o, t)
      PROVE  /\ Only(w) /\ call[w].op # "deliver" /\ (call'[w].op = "deliver" => call'[w].pc = "count")
             /\ UNCHANGED <<deliveries, completed, books>> /\ crashes' \in {crashes, crashes + 1}
  BY <1>2, Aside
<1>3. ASSUME NEW w \in Workers,
             \/ (\E o \in Orders : ShipBegin(w, o)) \/ ShipAtGateway(w)
             \/ (\E created \in BOOLEAN : ShipUnnamed(w, created)) \/ ShipRefused(w) \/ ShipRecord(w)
             \/ \E stored \in BOOLEAN : ShipRecordThrows(w, stored)
      PROVE  /\ Only(w) /\ call[w].op # "deliver" /\ (call'[w].op = "deliver" => call'[w].pc = "count")
             /\ UNCHANGED <<deliveries, completed, books>> /\ crashes' \in {crashes, crashes + 1}
  <2>1. CASE \E o \in Orders : ShipBegin(w, o)
    <3>1. PICK o \in Orders : ShipBegin(w, o)
      BY <2>1
    <3>2. Only(w)
      BY <3>1, CarrierKept DEF CarrierStep, Kept
    <3>3. call[w] = Idle /\ call'[w] = [Idle EXCEPT !.op = "ship", !.pc = "gateway", !.order = o]
      BY <3>1 DEF ShipBegin, Accept, Inv, TypeOK
    <3>4. call'[w].op = "ship"
      BY <3>3 DEF Idle
    <3> QED BY <3>1, <3>2, <3>3, <3>4, IdleType DEF ShipBegin, Spend
  <2>2. CASE \/ ShipAtGateway(w) \/ ShipRefused(w) \/ ShipRecord(w)
              \/ \E created \in BOOLEAN : ShipUnnamed(w, created)
              \/ \E stored \in BOOLEAN : ShipRecordThrows(w, stored)
    <3>1. /\ call[w].op = "ship" /\ UNCHANGED <<deliveries, completed, books>>
          /\ crashes' \in {crashes, crashes + 1} /\ (Return(w) \/ \E pc \in Labels : Goto(w, pc))
      BY <2>2 DEF ShipAtGateway, ShipUnnamed, ShipRefused, ShipRecord, ShipRecordThrows, IsAt, Labels, Fail
    <3> QED BY <3>1, Settles
  <2> QED BY <1>3, <2>1, <2>2
<1>4. ASSUME NEW w \in Workers,
             CountDelivery(w) \/ DeliveredTx(w) \/ DeliveryGone(w) \/ SettleStep(w) \/ Crash(w)
      PROVE  Only(w)
  BY <1>4, DeliverKept, SettleKept, CrashKept DEF DeliverStep, Kept
<1> QED BY <1>1, <1>2, <1>3, <1>4 DEF Next, FleetStep, DeliverStep, CarrierStep

Boy(r) == {c \in Calls : c.op = "deliver" /\ c.pc = "boy" /\ c.rider = r}
Due(r) == {c \in Calls : /\ c.op = "deliver" /\ c.rider = r
                         /\ c.pc \in {"tx", "gst", "commission", "settlement", "vendor", "payout"}}

(* The payout rows of a rider cover the earnings and those about to come,  *)
(* and the deliveries counted cover the rows and those about to come.      *)
PayRoom ==
    \A r \in Riders :
        /\ riderEarned[r] + Cardinality(In(Boy(r))) <= Total(PaidTo(r), Orders)
        /\ Total(PaidTo(r), Orders) + Cardinality(In(Due(r))) <= deliveries[r]

LEMMA PayRoomKept ==
    ASSUME Inv, Inv', [Next]_vars, PayRoom
    PROVE  PayRoom'
<1> SUFFICES ASSUME NEW r \in Riders
             PROVE  /\ riderEarned'[r] + Cardinality(In(Boy(r))') <= Total(PaidTo(r)', Orders)
                    /\ Total(PaidTo(r)', Orders) + Cardinality(In(Due(r))') <= deliveries'[r]
  BY DEF PayRoom, Boy, Due
<1> DEFINE b == Cardinality(In(Boy(r)))
           bb == Cardinality(In(Boy(r))')
           d == Cardinality(In(Due(r)))
           dd == Cardinality(In(Due(r))')
           p == Total(PaidTo(r), Orders)
           pp == Total(PaidTo(r)', Orders)
           Goal == riderEarned'[r] + bb <= pp /\ pp + dd <= deliveries'[r]
<1>0. /\ TypeOK /\ TypeOK' /\ riderEarned \in [Riders -> Nat] /\ deliveries \in [Riders -> Nat]
      /\ p \in Nat /\ riderEarned[r] + b <= p /\ p + d <= deliveries[r]
      /\ riderEarned[r] \in Nat /\ deliveries[r] \in Nat
  BY TotalsType DEF PayRoom, Inv, TypeOK
<1>1. ASSUME NEW w \in Workers, Only(w)
      PROVE  /\ bb = b + Hit(call'[w], Boy(r)) - Hit(call[w], Boy(r))
             /\ dd = d + Hit(call'[w], Due(r)) - Hit(call[w], Due(r))
             /\ b \in Nat /\ bb \in Nat /\ d \in Nat /\ dd \in Nat
  BY <1>0, <1>1, InChange
<1>2. UNCHANGED payouts => pp = p
  BY DEF PaidTo
<1>3. ASSUME UNCHANGED <<deliveries, riderEarned, payouts, call>>
      PROVE  Goal
  BY <1>0, <1>3 DEF In, PaidTo
<1>4. ASSUME NEW w \in Workers, Only(w), UNCHANGED <<deliveries, riderEarned, payouts>>,
             Hit(call'[w], Boy(r)) <= Hit(call[w], Boy(r)), Hit(call'[w], Due(r)) <= Hit(call[w], Due(r))
      PROVE  Goal
  <2>1. bb <= b /\ dd <= d /\ b \in Nat /\ bb \in Nat /\ d \in Nat /\ dd \in Nat
    <3>1. Hit(call'[w], Boy(r)) \in Int /\ Hit(call[w], Boy(r)) \in Int
          /\ Hit(call'[w], Due(r)) \in Int /\ Hit(call[w], Due(r)) \in Int
      BY DEF Hit
    <3> HIDE DEF b, bb, d, dd
    <3> QED BY <1>1, <1>4, <3>1
  <2> HIDE DEF b, bb, d, dd, p, pp
  <2> QED BY <1>0, <1>2, <1>4, <2>1
<1>5. ASSUME NEW w \in Workers, Only(w), call[w].op # "deliver", call'[w].op = "deliver" => call'[w].pc = "count",
             UNCHANGED <<deliveries, completed, books>>
      PROVE  Goal
  <2>1. Hit(call'[w], Boy(r)) = 0 /\ Hit(call[w], Boy(r)) = 0 /\ Hit(call'[w], Due(r)) = 0 /\ Hit(call[w], Due(r)) = 0
    BY <1>5 DEF Hit, Boy, Due
  <2> QED BY <1>4, <1>5, <2>1
<1>6. ASSUME NEW w \in Workers, Return(w), UNCHANGED <<deliveries, riderEarned, payouts>>
      PROVE  Goal
  <2>1. Only(w) /\ call'[w].op = "idle"
    BY <1>6, Settles
  <2>2. /\ Hit(call'[w], Boy(r)) = 0 /\ Hit(call[w], Boy(r)) \in {0, 1}
        /\ Hit(call'[w], Due(r)) = 0 /\ Hit(call[w], Due(r)) \in {0, 1}
    BY <2>1 DEF Hit, Boy, Due
  <2> QED BY <1>4, <1>6, <2>1, <2>2
<1>7. ASSUME NEW w \in Workers, CountDelivery(w)
      PROVE  Goal
  <2>1. /\ Only(w) /\ call'[w] \in Calls /\ call'[w].pc = "tx" /\ call'[w].op = "deliver" /\ call'[w].rider = call[w].rider
        /\ call[w].pc = "count" /\ call[w].op = "deliver" /\ call[w].rider \in Riders
        /\ deliveries' = [deliveries EXCEPT ![call[w].rider] = @ + 1] /\ UNCHANGED <<riderEarned, payouts>>
    BY <1>7, Settles DEF CountDelivery, IsAt, Labels
  <2>2. deliveries'[r] = IF call[w].rider = r THEN deliveries[r] + 1 ELSE deliveries[r]
    BY <1>0, <2>1
  <2>3. /\ Hit(call'[w], Due(r)) = (IF call[w].rider = r THEN 1 ELSE 0) /\ Hit(call[w], Due(r)) = 0
        /\ Hit(call'[w], Boy(r)) = 0 /\ Hit(call[w], Boy(r)) = 0
    BY <2>1 DEF Hit, Boy, Due
  <2> HIDE DEF b, bb, d, dd, p, pp
  <2> QED BY <1>0, <1>1, <1>2, <2>1, <2>2, <2>3
<1>8. ASSUME NEW w \in Workers, call[w].op = "deliver",
             call[w].pc \in {"tx", "gst", "commission", "settlement", "vendor", "payout"},
             UNCHANGED <<deliveries, riderEarned, payouts>>,
             \/ \E pc \in {"gst", "settlement", "vendor"} : Goto(w, pc)
             \/ \E todo \in SUBSET Vendors : NextVendor(w, todo)
      PROVE  Goal
  <2>1. /\ Only(w) /\ call'[w].rider = call[w].rider /\ call[w] \in Calls
        /\ call'[w].pc \in {"gst", "settlement", "vendor", "commission", "payout"}
    BY <1>8, Settles DEF Labels
  <2>2. /\ Hit(call'[w], Due(r)) <= Hit(call[w], Due(r))
        /\ Hit(call'[w], Boy(r)) = 0 /\ Hit(call[w], Boy(r)) = 0
    BY <1>8, <2>1 DEF Hit, Boy, Due
  <2> QED BY <1>4, <1>8, <2>1, <2>2
<1>9. ASSUME NEW w \in Workers, Payout(w)
      PROVE  Goal
  <2>1. /\ Only(w) /\ call'[w].pc = "boy" /\ call'[w].op = "deliver" /\ call'[w].rider = call[w].rider
        /\ call'[w] \in Calls /\ call[w] \in Calls
        /\ call[w].pc = "payout" /\ call[w].op = "deliver" /\ call[w].rider \in Riders /\ call[w].order \in Orders
        /\ payouts' = [payouts EXCEPT ![call[w].order][call[w].rider] = @ + 1]
        /\ UNCHANGED <<riderEarned, deliveries>>
    BY <1>9, Settles DEF Payout, IsAt, Labels
  <2>2. PICK x \in Riders : x = call[w].rider
    BY <2>1
  <2>3. /\ x = r => pp = p + 1
        /\ x # r => pp = p
    BY <1>0, <2>1, <2>2, OnePayout
  <2>4. /\ Hit(call'[w], Due(r)) = 0 /\ Hit(call[w], Due(r)) = (IF x = r THEN 1 ELSE 0)
        /\ Hit(call'[w], Boy(r)) = (IF x = r THEN 1 ELSE 0) /\ Hit(call[w], Boy(r)) = 0
    BY <2>1, <2>2 DEF Hit, Boy, Due
  <2> HIDE DEF b, bb, d, dd, p, pp
  <2> QED BY <1>0, <1>1, <2>1, <2>3, <2>4
<1>10. ASSUME NEW w \in Workers, CreditRider(w)
       PROVE  Goal
  <2>1. /\ Only(w) /\ call'[w].pc = "ledger" /\ call[w] \in Calls
        /\ call[w].pc = "boy" /\ call[w].op = "deliver" /\ call[w].rider \in Riders
        /\ riderEarned' = [riderEarned EXCEPT ![call[w].rider] = @ + 1] /\ UNCHANGED <<deliveries, payouts>>
    BY <1>10, Settles DEF CreditRider, IsAt, Labels
  <2>2. riderEarned'[r] = IF call[w].rider = r THEN riderEarned[r] + 1 ELSE riderEarned[r]
    BY <1>0, <2>1
  <2>3. /\ Hit(call'[w], Due(r)) = 0 /\ Hit(call[w], Due(r)) = 0
        /\ Hit(call'[w], Boy(r)) = 0 /\ Hit(call[w], Boy(r)) = (IF call[w].rider = r THEN 1 ELSE 0)
    BY <2>1 DEF Hit, Boy, Due
  <2> HIDE DEF b, bb, d, dd, p, pp
  <2> QED BY <1>0, <1>1, <1>2, <2>1, <2>2, <2>3
<1>11. ASSUME NEW w \in Workers, DeliveredTx(w) \/ DeliveryGone(w) \/ SettleStep(w) \/ Crash(w)
       PROVE  Goal
  <2>1. CASE DeliveryGone(w) \/ SettleLedger(w) \/ Crash(w)
    BY <1>6, <2>1 DEF DeliveryGone, SettleLedger, Crash
  <2>2. CASE DeliveredTx(w) \/ SettleCommission(w) \/ SettleVendor(w)
    BY <1>8, <2>2 DEF DeliveredTx, SettleCommission, SettleVendor, IsAt
  <2>3. CASE SettleGst(w) \/ CreditVendor(w)
    BY <1>8, <2>3, Settles DEF SettleGst, CreditVendor, IsAt
  <2> QED BY <1>9, <1>10, <1>11, <2>1, <2>2, <2>3 DEF SettleStep
<1>12. UNCHANGED vars => Goal
  BY <1>3 DEF vars
<1> HIDE DEF Goal
<1>13. ASSUME UNCHANGED <<deliveries, completed, riderEarned, gst, commissions, settlements, vendorEarned,
                          payouts, call, crashes>>
       PROVE  Goal
  BY <1>3, <1>13
<1>14. ASSUME NEW w \in Workers, Only(w),
              \/ /\ call[w].op # "deliver" /\ (call'[w].op = "deliver" => call'[w].pc = "count")
                 /\ UNCHANGED <<deliveries, completed, books>> /\ crashes' \in {crashes, crashes + 1}
              \/ CountDelivery(w) \/ DeliveredTx(w) \/ DeliveryGone(w) \/ SettleStep(w) \/ Crash(w)
       PROVE  Goal
  BY <1>5, <1>7, <1>11, <1>14
<1>15. Goal
  BY <1>12, <1>13, <1>14, Settling
<1> QED BY <1>15 DEF Goal

(* What a rider earned was paid out, and paid out for deliveries counted.  *)
THEOREM PayoutsAreBacked == Spec => []PayoutsBacked
<1>1. Init => PayRoom
  <2> SUFFICES ASSUME Init, NEW r \in Riders
               PROVE  /\ riderEarned[r] + Cardinality(In(Boy(r))) <= Total(PaidTo(r), Orders)
                      /\ Total(PaidTo(r), Orders) + Cardinality(In(Due(r))) <= deliveries[r]
    BY DEF PayRoom
  <2>1. In(Boy(r)) = {} /\ In(Due(r)) = {} /\ riderEarned[r] = 0 /\ deliveries[r] = 0
    BY IdleType DEF Init, In, Boy, Due
  <2>2. PaidTo(r) = [o \in Orders |-> 0]
    BY DEF Init, PaidTo
  <2> QED BY <2>1, <2>2, FS_EmptySet, FiniteAssumption, TotalZero
<1>2. Inv /\ PayRoom => PayoutsBacked
  <2> SUFFICES ASSUME Inv, PayRoom, NEW r \in Riders
               PROVE  riderEarned[r] <= PaidOut(r) /\ PaidOut(r) <= deliveries[r]
    BY DEF PayoutsBacked
  <2>1. /\ riderEarned[r] + Cardinality(In(Boy(r))) <= PaidOut(r)
        /\ PaidOut(r) + Cardinality(In(Due(r))) <= deliveries[r]
    BY PaidOutTotal DEF PayRoom
  <2>2. PaidOut(r) \in Nat /\ riderEarned[r] \in Nat /\ deliveries[r] \in Nat
    BY PaidOutTotal, TotalsType DEF Inv, TypeOK
  <2>3. Cardinality(In(Boy(r))) \in Nat /\ Cardinality(In(Due(r))) \in Nat
    BY InSize
  <2> QED BY <2>1, <2>2, <2>3
<1> QED BY <1>1, <1>2, InitInv, NextInv, PayRoomKept, PTL DEF Spec

-----------------------------------------------------------------------------
(* Reconciliation.                                                         *)

(* x is c but for the u that are to come and at most k that are lost.      *)
Balance(x, c, u, k) == c - u - k <= x /\ x <= c - u

Unpaid(o) == {c \in Calls : /\ c.op = "deliver" /\ c.order = o
                            /\ c.pc \in {"gst", "commission", "settlement", "vendor", "payout"}}
Late(o, v) == {c \in Calls : /\ c.op = "deliver" /\ c.order = o
                             /\ \/ c.pc = "gst"
                                \/ c.pc = "commission" /\ c.vendor = v
                                \/ /\ c.pc \in {"commission", "settlement", "vendor"}
                                   /\ c.vendor # v /\ v \in c.todo}

PaidInFull ==
    \A o \in Orders : Balance(Total(payouts[o], Riders), completed[o], Cardinality(In(Unpaid(o))), crashes)
ChargedInFull ==
    \A o \in Orders : \A v \in VendorsOf[o] :
        Balance(commissions[o][v], completed[o], Cardinality(In(Late(o, v))), crashes)

LEMMA BehindSizes ==
    ASSUME TypeOK
    PROVE  \A o \in Orders :
              /\ In(Unpaid(o)) = Behind(o, {"gst", "commission", "settlement", "vendor", "payout"})
              /\ \A v : In(Late(o, v)) = BehindVendor(o, v)
<1> SUFFICES ASSUME NEW o \in Orders, NEW v
             PROVE  /\ In(Unpaid(o)) = Behind(o, {"gst", "commission", "settlement", "vendor", "payout"})
                    /\ In(Late(o, v)) = BehindVendor(o, v)
  OBVIOUS
<1>1. \A w \in Workers : call[w] \in Calls
  BY DEF TypeOK
<1>2. In(Unpaid(o)) = Behind(o, {"gst", "commission", "settlement", "vendor", "payout"})
  BY <1>1 DEF In, Unpaid, Behind
<1>3. \A w \in Workers : call[w] \in Late(o, v) <=> w \in BehindVendor(o, v)
  BY <1>1 DEF Late, Behind, BehindVendor
<1>4. \A w \in BehindVendor(o, v) : w \in Workers
  BY DEF BehindVendor, Behind
<1>5. In(Late(o, v)) = BehindVendor(o, v)
  BY <1>3, <1>4 DEF In
<1> QED BY <1>2, <1>5

(* A step that is none of a delivery's keeps a balance.                    *)
LEMMA BalanceAside ==
    ASSUME NEW x \in Int, NEW c \in Int, NEW u \in Int, NEW k \in Int, Balance(x, c, u, k)
    PROVE  /\ \A h \in {k, k + 1} : Balance(x, c, u, h)
           /\ Balance(x, c + 1, u + 1, k) /\ Balance(x + 1, c, u - 1, k)
           /\ Balance(x, c, u, k + 1) /\ Balance(x, c, u - 1, k + 1)
  BY DEF Balance

LEMMA PaidInFullKept ==
    ASSUME Inv, Inv', [Next]_vars, PaidInFull
    PROVE  PaidInFull'
<1> SUFFICES ASSUME NEW o \in Orders
             PROVE  Balance(Total(payouts'[o], Riders), completed'[o], Cardinality(In(Unpaid(o))'), crashes')
  BY DEF PaidInFull, Unpaid, Balance
<1> DEFINE x == Total(payouts[o], Riders)
           xx == Total(payouts'[o], Riders)
           u == Cardinality(In(Unpaid(o)))
           uu == Cardinality(In(Unpaid(o))')
           Goal == Balance(xx, completed'[o], uu, crashes')
<1>0. /\ TypeOK /\ TypeOK' /\ completed \in [Orders -> Nat] /\ completed[o] \in Int /\ crashes \in Int /\ x \in Int
      /\ u \in Int /\ Balance(x, completed[o], u, crashes)
  BY TotalsType, InSize DEF PaidInFull, Inv, TypeOK
<1>1. ASSUME NEW w \in Workers, Only(w)
      PROVE  uu = u + Hit(call'[w], Unpaid(o)) - Hit(call[w], Unpaid(o))
  BY <1>0, <1>1, InChange
<1>2. UNCHANGED <<completed, payouts, call, crashes>> => Goal
  BY <1>0 DEF In
<1>3. ASSUME NEW w \in Workers, Only(w), call[w].op # "deliver", call'[w].op = "deliver" => call'[w].pc = "count",
             UNCHANGED <<completed, payouts>>, crashes' \in {crashes, crashes + 1}
      PROVE  Goal
  <2>1. Hit(call'[w], Unpaid(o)) = 0 /\ Hit(call[w], Unpaid(o)) = 0
    BY <1>3 DEF Hit, Unpaid
  <2>2. uu = u
    BY <1>0, <1>1, <1>3, <2>1
  <2> QED BY <1>0, <1>3, <2>2, BalanceAside
<1>4. ASSUME NEW w \in Workers, call[w].op = "deliver", UNCHANGED <<completed, payouts, crashes>>,
             \/ call[w].pc = "count" /\ Goto(w, "tx")
             \/ call[w].pc \in {"tx", "ledger"} /\ Return(w)
             \/ call[w].pc = "boy" /\ Goto(w, "ledger")
             \/ call[w].pc \in {"commission", "settlement"} /\ \E pc \in {"settlement", "vendor"} : Goto(w, pc)
             \/ call[w].pc \in {"gst", "vendor"} /\ \E todo \in SUBSET Vendors : NextVendor(w, todo)
      PROVE  Goal
  <2>1. /\ Only(w) /\ call[w] \in Calls /\ call'[w] \in Calls
        /\ \/ call[w].pc \in {"count", "tx", "ledger", "boy"} /\ call'[w].pc \in {"tx", "idle", "ledger"}
           \/ /\ call[w].pc \in {"gst", "commission", "settlement", "vendor"} /\ call'[w].op = "deliver"
              /\ call'[w].pc \in {"settlement", "vendor", "commission", "payout"} /\ call'[w].order = call[w].order
    BY <1>4, Settles DEF Labels
  <2>2. Hit(call'[w], Unpaid(o)) = Hit(call[w], Unpaid(o)) /\ Hit(call[w], Unpaid(o)) \in Int
    BY <1>4, <2>1 DEF Hit, Unpaid
  <2>3. uu = u
    BY <1>0, <1>1, <2>1, <2>2
  <2> QED BY <1>0, <1>4, <2>3
<1>5. ASSUME NEW w \in Workers, DeliveredTx(w)
      PROVE  Goal
  <2>1. /\ Only(w) /\ call'[w] \in Calls /\ call'[w].pc = "gst" /\ call'[w].op = "deliver"
        /\ call'[w].order = call[w].order /\ call[w].pc = "tx" /\ call[w].order \in Orders
        /\ completed' = [completed EXCEPT ![call[w].order] = @ + 1] /\ UNCHANGED <<payouts, crashes>>
    BY <1>5, Settles DEF DeliveredTx, IsAt, Labels
  <2>2. completed'[o] = IF call[w].order = o THEN completed[o] + 1 ELSE completed[o]
    BY <1>0, <2>1
  <2>3. Hit(call[w], Unpaid(o)) = 0 /\ Hit(call'[w], Unpaid(o)) = IF call[w].order = o THEN 1 ELSE 0
    BY <2>1 DEF Hit, Unpaid
  <2>4. uu = IF call[w].order = o THEN u + 1 ELSE u
    BY <1>0, <1>1, <2>1, <2>3
  <2> QED BY <1>0, <2>1, <2>2, <2>4, BalanceAside
<1>6. ASSUME NEW w \in Workers, Payout(w)
      PROVE  Goal
  <2>1. /\ Only(w) /\ call'[w].pc = "boy" /\ call[w] \in Calls
        /\ call[w].pc = "payout" /\ call[w].op = "deliver" /\ call[w].rider \in Riders /\ call[w].order \in Orders
        /\ payouts' = [payouts EXCEPT ![call[w].order][call[w].rider] = @ + 1]
        /\ UNCHANGED <<completed, crashes>>
    BY <1>6, Settles DEF Payout, IsAt, Labels
  <2>2. PICK q \in Orders : q = call[w].order
    BY <2>1
  <2>3. /\ q = o => xx = x + 1
        /\ q # o => xx = x
    BY <1>0, <2>1, <2>2, OnePayout
  <2>4. Hit(call'[w], Unpaid(o)) = 0 /\ Hit(call[w], Unpaid(o)) = IF q = o THEN 1 ELSE 0
    BY <2>1, <2>2 DEF Hit, Unpaid
  <2>5. uu = IF q = o THEN u - 1 ELSE u
    BY <1>0, <1>1, <2>1, <2>4
  <2> HIDE DEF x, xx, u, uu
  <2> QED BY <1>0, <2>1, <2>3, <2>5, BalanceAside
<1>7. ASSUME NEW w \in Workers, Crash(w)
      PROVE  Goal
  <2>1. Only(w) /\ call'[w].op = "idle" /\ crashes' = crashes + 1 /\ UNCHANGED <<completed, payouts>>
    BY <1>7, Settles DEF Crash, Fail
  <2>2. Hit(call'[w], Unpaid(o)) = 0 /\ Hit(call[w], Unpaid(o)) \in {0, 1}
    BY <2>1 DEF Hit, Unpaid
  <2>3. uu \in {u, u - 1}
    BY <1>0, <1>1, <2>1, <2>2
  <2> QED BY <1>0, <2>1, <2>3, BalanceAside
<1>8. ASSUME NEW w \in Workers, CountDelivery(w) \/ DeliveryGone(w) \/ SettleStep(w)
      PROVE  Goal
  <2>1. CASE CountDelivery(w) \/ (SettleStep(w) /\ ~Payout(w))
    BY <1>4, <2>1, Settles DEF CountDelivery, SettleStep, SettleGst, SettleCommission, SettleVendor, CreditVendor,
        CreditRider, SettleLedger, IsAt
  <2>2. CASE DeliveryGone(w) /\ call[w].op = "deliver"
    BY <1>4, <2>2 DEF DeliveryGone
  <2>3. CASE DeliveryGone(w) /\ call[w].op # "deliver"
    BY <1>0, <1>3, <2>3, Settles DEF DeliveryGone
  <2> QED BY <1>6, <1>8, <2>1, <2>2, <2>3
<1>9. UNCHANGED vars => Goal
  BY <1>2 DEF vars
<1>10. ASSUME NEW w \in Workers, Only(w),
              \/ /\ call[w].op # "deliver" /\ (call'[w].op = "deliver" => call'[w].pc = "count")
                 /\ UNCHANGED <<deliveries, completed, books>> /\ crashes' \in {crashes, crashes + 1}
              \/ CountDelivery(w) \/ DeliveredTx(w) \/ DeliveryGone(w) \/ SettleStep(w) \/ Crash(w)
       PROVE  Goal
  BY <1>3, <1>5, <1>7, <1>8, <1>10
<1> HIDE DEF Goal
<1>11. Goal
  BY <1>2, <1>9, <1>10, Settling
<1> QED BY <1>11 DEF Goal

LEMMA ChargedInFullKept ==
    ASSUME Inv, Inv', [Next]_vars, ChargedInFull
    PROVE  ChargedInFull'
<1> SUFFICES ASSUME NEW o \in Orders, NEW v \in VendorsOf[o]
             PROVE  Balance(commissions'[o][v], completed'[o], Cardinality(In(Late(o, v))'), crashes')
  BY DEF ChargedInFull, Late, Balance
<1> DEFINE x == commissions[o][v]
           u == Cardinality(In(Late(o, v)))
           uu == Cardinality(In(Late(o, v))')
           Goal == Balance(commissions'[o][v], completed'[o], uu, crashes')
<1>0. /\ TypeOK /\ TypeOK' /\ completed \in [Orders -> Nat] /\ completed[o] \in Int /\ crashes \in Int /\ x \in Int
      /\ u \in Int /\ Balance(x, completed[o], u, crashes) /\ v \in Vendors
      /\ commissions \in [Orders -> [Vendors -> Nat]]
  BY VendorsOfAssumption, InSize DEF ChargedInFull, Inv, TypeOK
<1>1. ASSUME NEW w \in Workers, Only(w)
      PROVE  uu = u + Hit(call'[w], Late(o, v)) - Hit(call[w], Late(o, v))
  BY <1>0, <1>1, InChange
<1>2. UNCHANGED <<completed, commissions, call, crashes>> => Goal
  BY <1>0 DEF In
<1>3. ASSUME NEW w \in Workers, Only(w), call[w].op # "deliver", call'[w].op = "deliver" => call'[w].pc = "count",
             UNCHANGED <<completed, commissions>>, crashes' \in {crashes, crashes + 1}
      PROVE  Goal
  <2>1. Hit(call'[w], Late(o, v)) = 0 /\ Hit(call[w], Late(o, v)) = 0
    BY <1>3 DEF Hit, Late
  <2>2. uu = u
    BY <1>0, <1>1, <1>3, <2>1
  <2>3. \A h \in {crashes, crashes + 1} : Balance(x, completed[o], u, h)
    <3> HIDE DEF x, u
    <3> QED BY <1>0, BalanceAside
  <2>4. commissions'[o][v] = x /\ completed'[o] = completed[o]
    BY <1>3
  <2> HIDE DEF x, u, uu
  <2> QED BY <1>3, <2>2, <2>3, <2>4
<1>4. ASSUME NEW w \in Workers, Only(w), UNCHANGED <<completed, commissions, crashes>>,
             Hit(call'[w], Late(o, v)) = Hit(call[w], Late(o, v))
      PROVE  Goal
  <2>1. uu = u
    BY <1>0, <1>1, <1>4 DEF Hit
  <2> QED BY <1>0, <1>4, <2>1
<1>5. ASSUME NEW w \in Workers, DeliveredTx(w)
      PROVE  Goal
  <2>1. /\ Only(w) /\ call'[w] \in Calls /\ call'[w].pc = "gst" /\ call'[w].op = "deliver"
        /\ call'[w].order = call[w].order /\ call[w].pc = "tx" /\ call[w].order \in Orders
        /\ completed' = [completed EXCEPT ![call[w].order] = @ + 1] /\ UNCHANGED <<commissions, crashes>>
    BY <1>5, Settles DEF DeliveredTx, IsAt, Labels
  <2>2. completed'[o] = IF call[w].order = o THEN completed[o] + 1 ELSE completed[o]
    BY <1>0, <2>1
  <2>3. Hit(call[w], Late(o, v)) = 0 /\ Hit(call'[w], Late(o, v)) = IF call[w].order = o THEN 1 ELSE 0
    BY <2>1 DEF Hit, Late
  <2>4. uu = IF call[w].order = o THEN u + 1 ELSE u
    BY <1>0, <1>1, <2>1, <2>3
  <2>5. Balance(x, completed[o], u, crashes) /\ Balance(x, completed[o] + 1, u + 1, crashes)
    <3> HIDE DEF x, u
    <3> QED BY <1>0, BalanceAside
  <2>6. commissions'[o][v] = x /\ crashes' = crashes
    BY <2>1
  <2> HIDE DEF x, u, uu
  <2> QED BY <2>2, <2>4, <2>5, <2>6
<1>6. ASSUME NEW w \in Workers, SettleCommission(w)
      PROVE  Goal
  <2>1. /\ Only(w) /\ call'[w].pc = "settlement" /\ call'[w].op = "deliver" /\ call'[w].order = call[w].order
        /\ call'[w].vendor = call[w].vendor /\ call'[w].todo = call[w].todo /\ call[w] \in Calls /\ call'[w] \in Calls
        /\ call[w].pc = "commission" /\ call[w].op = "deliver" /\ call[w].order \in Orders
        /\ commissions' = [commissions EXCEPT ![call[w].order][call[w].vendor] = @ + 1]
        /\ UNCHANGED <<completed, crashes>>
    BY <1>6, Settles DEF SettleCommission, IsAt, Labels
  <2>2. call[w].vendor \in Vendors
    BY <1>0, <2>1, SettlementSound DEF Inv, Requests, VendorSteps
  <2>3. commissions'[o][v] = IF call[w].order = o /\ call[w].vendor = v THEN x + 1 ELSE x
    BY <1>0, <2>1, <2>2, Bump
  <2>4. Hit(call'[w], Late(o, v)) = Hit(call[w], Late(o, v)) - IF call[w].order = o /\ call[w].vendor = v THEN 1 ELSE 0
    BY <2>1 DEF Hit, Late
  <2>5. uu = IF call[w].order = o /\ call[w].vendor = v THEN u - 1 ELSE u
    <3>1. Hit(call'[w], Late(o, v)) \in Int /\ Hit(call[w], Late(o, v)) \in Int
      BY DEF Hit
    <3> QED BY <1>0, <1>1, <2>1, <2>4, <3>1
  <2>6. completed'[o] = completed[o] /\ crashes' = crashes
    BY <2>1
  <2>7. CASE call[w].order = o /\ call[w].vendor = v
    BY <1>0, <2>3, <2>5, <2>6, <2>7, BalanceAside
  <2>8. CASE ~(call[w].order = o /\ call[w].vendor = v)
    BY <1>0, <2>3, <2>5, <2>6, <2>8
  <2> QED BY <2>7, <2>8
<1>7. ASSUME NEW w \in Workers, SettleGst(w) \/ CreditVendor(w)
      PROVE  Goal
  <2>1. /\ call[w].op = "deliver" /\ UNCHANGED <<completed, commissions, crashes>>
        /\ \/ call[w].pc = "gst" /\ NextVendor(w, VendorsOf[call[w].order])
           \/ call[w].pc = "vendor" /\ NextVendor(w, call[w].todo \ {call[w].vendor})
    BY <1>7 DEF SettleGst, CreditVendor, IsAt
  <2>2. /\ Only(w) /\ call[w] \in Calls /\ call'[w] \in Calls /\ call'[w].op = "deliver"
        /\ call'[w].order = call[w].order
        /\ \/ call'[w].todo = {} /\ call'[w].pc = "payout"
           \/ call'[w].pc = "commission" /\ call'[w].vendor \in call'[w].todo
        /\ \/ call[w].pc = "gst" /\ call'[w].todo = VendorsOf[call[w].order]
           \/ call[w].pc = "vendor" /\ call'[w].todo = call[w].todo \ {call[w].vendor}
    BY <2>1, Settles
  <2>3. (call'[w] \in Late(o, v)) = (call[w].order = o /\ v \in call'[w].todo)
    BY <2>2 DEF Late
  <2>4. (call[w] \in Late(o, v)) = (call[w].order = o /\ v \in call'[w].todo)
    BY <2>1, <2>2 DEF Late
  <2>5. Hit(call'[w], Late(o, v)) = Hit(call[w], Late(o, v))
    BY <2>3, <2>4 DEF Hit
  <2> QED BY <1>4, <2>1, <2>2, <2>5
<1>8. ASSUME NEW w \in Workers, call[w].op = "deliver", UNCHANGED <<completed, commissions, crashes>>,
             \/ call[w].pc = "count" /\ Goto(w, "tx")
             \/ call[w].pc \in {"tx", "ledger"} /\ Return(w)
             \/ call[w].pc = "boy" /\ Goto(w, "ledger")
             \/ call[w].pc = "payout" /\ Goto(w, "boy")
             \/ call[w].pc = "settlement" /\ Goto(w, "vendor")
      PROVE  Goal
  <2>1. /\ Only(w) /\ call[w] \in Calls /\ call'[w] \in Calls
        /\ \/ call[w].pc \in {"count", "tx", "ledger", "boy", "payout"} /\ call'[w].pc \in {"tx", "idle", "ledger", "boy"}
           \/ /\ call[w].pc = "settlement" /\ call'[w].pc = "vendor" /\ call'[w].op = "deliver"
              /\ call'[w].order = call[w].order /\ call'[w].vendor = call[w].vendor /\ call'[w].todo = call[w].todo
    BY <1>8, Settles DEF Labels
  <2>2. Hit(call'[w], Late(o, v)) = Hit(call[w], Late(o, v))
    BY <1>8, <2>1 DEF Hit, Late
  <2> QED BY <1>4, <1>8, <2>1, <2>2
<1>9. ASSUME NEW w \in Workers, Crash(w)
      PROVE  Goal
  <2>1. Only(w) /\ call'[w].op = "idle" /\ crashes' = crashes + 1 /\ UNCHANGED <<completed, commissions>>
    BY <1>9, Settles DEF Crash, Fail
  <2>2. Hit(call'[w], Late(o, v)) = 0 /\ Hit(call[w], Late(o, v)) \in {0, 1}
    BY <2>1 DEF Hit, Late
  <2>3. uu \in {u, u - 1}
    BY <1>0, <1>1, <2>1, <2>2
  <2> QED BY <1>0, <2>1, <2>3, BalanceAside
<1>10. ASSUME NEW w \in Workers, CountDelivery(w) \/ DeliveryGone(w) \/ SettleStep(w)
       PROVE  Goal
  <2>1. CASE CountDelivery(w) \/ SettleVendor(w) \/ Payout(w) \/ CreditRider(w) \/ SettleLedger(w)
    BY <1>8, <2>1 DEF CountDelivery, SettleVendor, Payout, CreditRider, SettleLedger, IsAt
  <2>2. CASE DeliveryGone(w) /\ call[w].op = "deliver"
    BY <1>8, <2>2 DEF DeliveryGone
  <2>3. CASE DeliveryGone(w) /\ call[w].op # "deliver"
    BY <1>0, <1>3, <2>3, Settles DEF DeliveryGone
  <2> QED BY <1>6, <1>7, <1>10, <2>1, <2>2, <2>3 DEF SettleStep
<1>11. UNCHANGED vars => Goal
  BY <1>2 DEF vars
<1>12. ASSUME NEW w \in Workers, Only(w),
              \/ /\ call[w].op # "deliver" /\ (call'[w].op = "deliver" => call'[w].pc = "count")
                 /\ UNCHANGED <<deliveries, completed, books>> /\ crashes' \in {crashes, crashes + 1}
              \/ CountDelivery(w) \/ DeliveredTx(w) \/ DeliveryGone(w) \/ SettleStep(w) \/ Crash(w)
       PROVE  Goal
  BY <1>3, <1>5, <1>9, <1>10, <1>12
<1> HIDE DEF Goal
<1>13. Goal
  BY <1>2, <1>11, <1>12, Settling
<1> QED BY <1>13 DEF Goal

Full == PaidInFull /\ ChargedInFull

LEMMA FullInvariant == Spec => [](Inv /\ Full)
<1>1. Init /\ Inv => Full
  <2> SUFFICES ASSUME Init, Inv PROVE Full
    OBVIOUS
  <2>1. ASSUME NEW o \in Orders
        PROVE  Balance(Total(payouts[o], Riders), completed[o], Cardinality(In(Unpaid(o))), crashes)
    <3>1. payouts[o] = [r \in Riders |-> 0] /\ completed[o] = 0 /\ crashes = 0 /\ In(Unpaid(o)) = {}
      BY <2>1, IdleType DEF Init, In, Unpaid
    <3> QED BY <3>1, FS_EmptySet, FiniteAssumption, TotalZero DEF Balance
  <2>2. ASSUME NEW o \in Orders, NEW v \in VendorsOf[o]
        PROVE  Balance(commissions[o][v], completed[o], Cardinality(In(Late(o, v))), crashes)
    <3>1. v \in Vendors
      BY VendorsOfAssumption
    <3>2. commissions[o][v] = 0 /\ completed[o] = 0 /\ crashes = 0 /\ In(Late(o, v)) = {}
      BY <3>1, IdleType DEF Init, In, Late
    <3> QED BY <3>2, FS_EmptySet DEF Balance
  <2> QED BY <2>1, <2>2 DEF Full, PaidInFull, ChargedInFull
<1>2. Inv /\ Full /\ [Next]_vars => Full'
  BY NextInv, PaidInFullKept, ChargedInFullKept DEF Full
<1> QED BY <1>1, <1>2, InitInv, NextInv, PTL DEF Spec

(* Each committed delivery leaves one payout row and a commission row per  *)
(* vendor: none twice, and without a failure none is missing when the      *)
(* requests in flight are through.                                         *)
THEOREM DeliveriesReconciled == Spec => []Reconciled
<1>1. Inv /\ Full => Reconciled
  <2> SUFFICES ASSUME Inv, Full, NEW o \in Orders
               PROVE  LET paid == MapThenSumSet(LAMBDA r : payouts[o][r], Riders)
                          unpaid == Cardinality(Behind(o, {"gst", "commission", "settlement", "vendor", "payout"}))
                      IN  /\ paid \in (completed[o] - unpaid - crashes)..(completed[o] - unpaid)
                          /\ \A v \in VendorsOf[o] :
                                LET late == Cardinality(BehindVendor(o, v))
                                IN  commissions[o][v] \in (completed[o] - late - crashes)..(completed[o] - late)
    BY DEF Reconciled
  <2>0. TypeOK /\ completed[o] \in Int /\ crashes \in Int
    BY DEF Inv, TypeOK
  <2>1. ASSUME NEW x \in Int, NEW u \in Int, Balance(x, completed[o], u, crashes)
        PROVE  x \in (completed[o] - u - crashes)..(completed[o] - u)
    BY <2>0, <2>1 DEF Balance
  <2>2. MapThenSumSet(LAMBDA r : payouts[o][r], Riders)
           \in (completed[o] - Cardinality(In(Unpaid(o))) - crashes)..(completed[o] - Cardinality(In(Unpaid(o))))
    <3>1. Total(payouts[o], Riders) \in Int /\ Cardinality(In(Unpaid(o))) \in Int
      BY <2>0, TotalsType, InSize
    <3>2. Balance(Total(payouts[o], Riders), completed[o], Cardinality(In(Unpaid(o))), crashes)
      BY DEF Full, PaidInFull
    <3>3. MapThenSumSet(LAMBDA r : payouts[o][r], Riders) = Total(payouts[o], Riders)
      BY <2>0, PaidForTotal
    <3> QED BY <2>1, <3>1, <3>2, <3>3
  <2>3. ASSUME NEW v \in VendorsOf[o]
        PROVE  commissions[o][v]
                  \in (completed[o] - Cardinality(In(Late(o, v))) - crashes)..(completed[o] - Cardinality(In(Late(o, v))))
    <3>1. v \in Vendors
      BY VendorsOfAssumption
    <3>2. commissions[o][v] \in Int
      BY <2>0, <3>1 DEF TypeOK
    <3> QED BY <2>1, <3>2, InSize DEF Full, ChargedInFull
  <2> QED BY <2>0, <2>2, <2>3, BehindSizes
<1> QED BY <1>1, FullInvariant, PTL

-----------------------------------------------------------------------------
(* Credits of vendors.                                                     *)

At(o, v, pc) == {c \in Calls : c.op = "deliver" /\ c.pc = pc /\ c.order = o /\ c.vendor = v}

(* Each row covers the rows after it, and those the requests are about to  *)
(* write; commissions are of orders billed, for vendors of theirs.         *)
Vouched ==
    \A o \in Orders, v \in Vendors :
        /\ vendorEarned[o][v] + Cardinality(In(At(o, v, "vendor"))) <= settlements[o][v]
        /\ settlements[o][v] + Cardinality(In(At(o, v, "settlement"))) <= commissions[o][v]
        /\ commissions[o][v] > 0 => o \in Billed /\ v \in VendorsOf[o]

LEMMA VouchedKept ==
    ASSUME Inv, Inv', [Next]_vars, Vouched
    PROVE  Vouched'
<1> SUFFICES ASSUME NEW o \in Orders, NEW v \in Vendors
             PROVE  /\ vendorEarned'[o][v] + Cardinality(In(At(o, v, "vendor"))') <= settlements'[o][v]
                    /\ settlements'[o][v] + Cardinality(In(At(o, v, "settlement"))') <= commissions'[o][v]
                    /\ commissions'[o][v] > 0 => o \in Billed' /\ v \in VendorsOf[o]
  BY DEF Vouched, At
<1> DEFINE e == Cardinality(In(At(o, v, "vendor")))
           ee == Cardinality(In(At(o, v, "vendor"))')
           s == Cardinality(In(At(o, v, "settlement")))
           ss == Cardinality(In(At(o, v, "settlement"))')
           Mine(w) == call[w].order = o /\ call[w].vendor = v
           Goal == /\ vendorEarned'[o][v] + ee <= settlements'[o][v]
                   /\ settlements'[o][v] + ss <= commissions'[o][v]
                   /\ commissions'[o][v] > 0 => o \in Billed' /\ v \in VendorsOf[o]
<1>0. /\ TypeOK /\ TypeOK'
      /\ commissions \in [Orders -> [Vendors -> Nat]] /\ settlements \in [Orders -> [Vendors -> Nat]]
      /\ vendorEarned \in [Orders -> [Vendors -> Nat]]
      /\ commissions[o][v] \in Nat /\ settlements[o][v] \in Nat /\ vendorEarned[o][v] \in Nat
      /\ vendorEarned[o][v] + e <= settlements[o][v] /\ settlements[o][v] + s <= commissions[o][v]
      /\ commissions[o][v] > 0 => o \in Billed /\ v \in VendorsOf[o]
  BY DEF Vouched, Inv, TypeOK
<1>1. ASSUME NEW w \in Workers, Only(w)
      PROVE  /\ ee = e + Hit(call'[w], At(o, v, "vendor")) - Hit(call[w], At(o, v, "vendor"))
             /\ ss = s + Hit(call'[w], At(o, v, "settlement")) - Hit(call[w], At(o, v, "settlement"))
             /\ e \in Nat /\ ee \in Nat /\ s \in Nat /\ ss \in Nat
  BY <1>0, <1>1, InChange
<1>2. UNCHANGED <<gst, commissions, settlements, vendorEarned, call>> => Goal
  BY <1>0 DEF In, Billed
<1>3. ASSUME NEW w \in Workers, Only(w), UNCHANGED <<commissions, settlements, vendorEarned>>, Billed \subseteq Billed',
             Hit(call'[w], At(o, v, "vendor")) = 0, Hit(call'[w], At(o, v, "settlement")) = 0
      PROVE  Goal
  <2>1. Hit(call[w], At(o, v, "vendor")) \in {0, 1} /\ Hit(call[w], At(o, v, "settlement")) \in {0, 1}
    BY DEF Hit
  <2>2. ee <= e /\ ss <= s /\ e \in Nat /\ ee \in Nat /\ s \in Nat /\ ss \in Nat
    <3> HIDE DEF e, ee, s, ss
    <3> QED BY <1>1, <1>3, <2>1
  <2> HIDE DEF e, ee, s, ss
  <2> QED BY <1>0, <1>3, <2>2
<1>4. ASSUME NEW w \in Workers, Only(w), Billed \subseteq Billed', UNCHANGED <<commissions, settlements, vendorEarned>>,
             call'[w].op = "deliver" => call'[w].pc \notin {"settlement", "vendor"}
      PROVE  Goal
  <2>1. Hit(call'[w], At(o, v, "vendor")) = 0 /\ Hit(call'[w], At(o, v, "settlement")) = 0
    BY <1>4 DEF Hit, At
  <2> QED BY <1>3, <1>4, <2>1
<1>5. ASSUME NEW w \in Workers, SettleCommission(w)
      PROVE  Goal
  <2>1. /\ Only(w) /\ call'[w] \in Calls /\ call'[w].pc = "settlement" /\ call'[w].op = "deliver"
        /\ call'[w].order = call[w].order /\ call'[w].vendor = call[w].vendor
        /\ call[w].pc = "commission" /\ call[w].op = "deliver"
        /\ commissions' = [commissions EXCEPT ![call[w].order][call[w].vendor] = @ + 1]
        /\ UNCHANGED <<gst, settlements, vendorEarned>>
    BY <1>5, Settles DEF SettleCommission, IsAt, Labels
  <2>2. /\ call[w].order \in Orders /\ call[w].vendor \in Vendors
        /\ call[w].vendor \in VendorsOf[call[w].order] /\ call[w].order \in Billed
    BY <1>0, <2>1, SettlementSound DEF Inv, Requests, VendorSteps
  <2>3. commissions'[o][v] = IF Mine(w) THEN commissions[o][v] + 1 ELSE commissions[o][v]
    BY <1>0, <2>1, <2>2, Bump
  <2>4. /\ Hit(call'[w], At(o, v, "settlement")) = (IF Mine(w) THEN 1 ELSE 0)
        /\ Hit(call[w], At(o, v, "settlement")) = 0
        /\ Hit(call'[w], At(o, v, "vendor")) = 0 /\ Hit(call[w], At(o, v, "vendor")) = 0
    BY <2>1 DEF Hit, At
  <2>5. Billed' = Billed
    BY <2>1 DEF Billed
  <2>6. Mine(w) => o \in Billed /\ v \in VendorsOf[o]
    BY <2>2
  <2>7. settlements'[o][v] = settlements[o][v] /\ vendorEarned'[o][v] = vendorEarned[o][v]
    BY <2>1
  <2> HIDE DEF e, ee, s, ss, Mine
  <2>8. ee = e /\ ss = (IF Mine(w) THEN s + 1 ELSE s)
    BY <1>1, <2>1, <2>4
  <2> QED BY <1>0, <1>1, <2>1, <2>3, <2>5, <2>6, <2>7, <2>8
<1>6. ASSUME NEW w \in Workers, SettleVendor(w)
      PROVE  Goal
  <2>1. /\ Only(w) /\ call'[w] \in Calls /\ call'[w].pc = "vendor" /\ call'[w].op = "deliver"
        /\ call'[w].order = call[w].order /\ call'[w].vendor = call[w].vendor
        /\ call[w] \in Calls /\ call[w].pc = "settlement" /\ call[w].op = "deliver"
        /\ settlements' = [settlements EXCEPT ![call[w].order][call[w].vendor] = @ + 1]
        /\ UNCHANGED <<gst, commissions, vendorEarned>>
    BY <1>6, Settles DEF SettleVendor, IsAt, Labels
  <2>2. call[w].order \in Orders /\ call[w].vendor \in Vendors
    BY <1>0, <2>1, SettlementSound DEF Inv, Requests, VendorSteps
  <2>3. settlements'[o][v] = IF Mine(w) THEN settlements[o][v] + 1 ELSE settlements[o][v]
    BY <1>0, <2>1, <2>2, Bump
  <2>4. /\ Hit(call'[w], At(o, v, "settlement")) = 0
        /\ Hit(call[w], At(o, v, "settlement")) = (IF Mine(w) THEN 1 ELSE 0)
        /\ Hit(call'[w], At(o, v, "vendor")) = (IF Mine(w) THEN 1 ELSE 0)
        /\ Hit(call[w], At(o, v, "vendor")) = 0
    BY <2>1 DEF Hit, At
  <2>5. Billed' = Billed /\ commissions'[o][v] = commissions[o][v] /\ vendorEarned'[o][v] = vendorEarned[o][v]
    BY <2>1 DEF Billed
  <2> HIDE DEF e, ee, s, ss, Mine
  <2>6. /\ ee = (IF Mine(w) THEN e + 1 ELSE e)
        /\ ss = (IF Mine(w) THEN s - 1 ELSE s)
    BY <1>1, <2>1, <2>4
  <2> QED BY <1>0, <1>1, <2>1, <2>3, <2>5, <2>6
<1>7. ASSUME NEW w \in Workers, CreditVendor(w)
      PROVE  Goal
  <2>1. /\ Only(w) /\ call'[w].pc \in {"payout", "commission"}
        /\ call[w] \in Calls /\ call[w].pc = "vendor" /\ call[w].op = "deliver"
        /\ vendorEarned' = [vendorEarned EXCEPT ![call[w].order][call[w].vendor] = @ + 1]
        /\ UNCHANGED <<gst, commissions, settlements>>
    BY <1>7, Settles DEF CreditVendor, IsAt
  <2>2. call[w].order \in Orders /\ call[w].vendor \in Vendors
    BY <1>0, <2>1, SettlementSound DEF Inv, Requests, VendorSteps
  <2>3. vendorEarned'[o][v] = IF Mine(w) THEN vendorEarned[o][v] + 1 ELSE vendorEarned[o][v]
    BY <1>0, <2>1, <2>2, Bump
  <2>4. /\ Hit(call'[w], At(o, v, "settlement")) = 0 /\ Hit(call[w], At(o, v, "settlement")) = 0
        /\ Hit(call'[w], At(o, v, "vendor")) = 0
        /\ Hit(call[w], At(o, v, "vendor")) = (IF Mine(w) THEN 1 ELSE 0)
    BY <2>1 DEF Hit, At
  <2>5. Billed' = Billed /\ commissions'[o][v] = commissions[o][v] /\ settlements'[o][v] = settlements[o][v]
    BY <2>1 DEF Billed
  <2> HIDE DEF e, ee, s, ss, Mine
  <2>6. ss = s /\ ee = (IF Mine(w) THEN e - 1 ELSE e)
    BY <1>1, <2>1, <2>4
  <2> QED BY <1>0, <1>1, <2>1, <2>3, <2>5, <2>6
<1>8. ASSUME NEW w \in Workers, SettleGst(w)
      PROVE  Goal
  <2>1. Only(w) /\ call'[w].pc \in {"payout", "commission"} /\ UNCHANGED <<commissions, settlements, vendorEarned>>
    BY <1>8, Settles DEF SettleGst, IsAt
  <2>2. Billed \subseteq Billed'
    BY <1>0, <1>8, SettleKept DEF SettleStep
  <2> QED BY <1>4, <2>1, <2>2
<1>9. ASSUME NEW w \in Workers,
             CountDelivery(w) \/ DeliveredTx(w) \/ DeliveryGone(w) \/ Payout(w) \/ CreditRider(w)
             \/ SettleLedger(w) \/ Crash(w)
      PROVE  Goal
  <2>1. /\ UNCHANGED <<gst, commissions, settlements, vendorEarned>>
        /\ Return(w) \/ \E pc \in {"tx", "gst", "boy", "ledger"} : Goto(w, pc)
    BY <1>9 DEF CountDelivery, DeliveredTx, DeliveryGone, Payout, CreditRider, SettleLedger, Crash
  <2>2. Only(w) /\ call'[w].pc \in {"idle", "tx", "gst", "boy", "ledger"}
    BY <2>1, Settles DEF Labels
  <2>3. Billed' = Billed
    BY <2>1 DEF Billed
  <2> QED BY <1>4, <2>1, <2>2, <2>3
<1>10. UNCHANGED vars => Goal
  BY <1>2 DEF vars
<1>11. ASSUME NEW w \in Workers, Only(w),
              \/ /\ call[w].op # "deliver" /\ (call'[w].op = "deliver" => call'[w].pc = "count")
                 /\ UNCHANGED <<deliveries, completed, books>> /\ crashes' \in {crashes, crashes + 1}
              \/ CountDelivery(w) \/ DeliveredTx(w) \/ DeliveryGone(w) \/ SettleStep(w) \/ Crash(w)
       PROVE  Goal
  <2>1. UNCHANGED gst => Billed' = Billed
    BY DEF Billed
  <2>2. CASE SettleStep(w)
    BY <1>5, <1>6, <1>7, <1>8, <1>9, <2>2 DEF SettleStep
  <2>3. CASE /\ call[w].op # "deliver" /\ (call'[w].op = "deliver" => call'[w].pc = "count")
             /\ UNCHANGED <<deliveries, completed, books>>
    BY <1>4, <1>11, <2>1, <2>3
  <2> QED BY <1>9, <1>11, <2>2, <2>3
<1> HIDE DEF Goal
<1>12. Goal
  BY <1>2, <1>10, <1>11, Settling
<1> QED BY <1>12 DEF Goal

(* No vendor is credited without a settlement row, which has a commission  *)
(* row, which has a delivery committed and GST charged: the chain of       *)
(* awaits holds for every interleaving and wherever it breaks.             *)
THEOREM CreditsAreBacked == Spec => []CreditsBacked
<1>1. Init => Vouched
  <2> SUFFICES ASSUME Init, NEW o \in Orders, NEW v \in Vendors
               PROVE  /\ vendorEarned[o][v] + Cardinality(In(At(o, v, "vendor"))) <= settlements[o][v]
                      /\ settlements[o][v] + Cardinality(In(At(o, v, "settlement"))) <= commissions[o][v]
                      /\ commissions[o][v] > 0 => o \in Billed /\ v \in VendorsOf[o]
    BY DEF Vouched
  <2>1. In(At(o, v, "vendor")) = {} /\ In(At(o, v, "settlement")) = {}
    BY IdleType DEF Init, In, At
  <2>2. vendorEarned[o][v] = 0 /\ settlements[o][v] = 0 /\ commissions[o][v] = 0
    BY DEF Init
  <2> QED BY <2>1, <2>2, FS_EmptySet
<1>2. Inv /\ Full /\ Vouched => CreditsBacked
  <2> SUFFICES ASSUME Inv, Full, Vouched, NEW o \in Orders, NEW v \in Vendors
               PROVE  /\ vendorEarned[o][v] <= settlements[o][v]
                      /\ settlements[o][v] <= commissions[o][v]
                      /\ commissions[o][v] <= completed[o]
                      /\ commissions[o][v] > 0 => gst[o] /\ v \in VendorsOf[o]
    BY DEF CreditsBacked
  <2>1. /\ vendorEarned[o][v] \in Nat /\ settlements[o][v] \in Nat /\ commissions[o][v] \in Nat
        /\ completed[o] \in Nat
    BY DEF Inv, TypeOK
  <2>2. /\ vendorEarned[o][v] + Cardinality(In(At(o, v, "vendor"))) <= settlements[o][v]
        /\ settlements[o][v] + Cardinality(In(At(o, v, "settlement"))) <= commissions[o][v]
        /\ commissions[o][v] > 0 => gst[o] /\ v \in VendorsOf[o]
    BY DEF Vouched, Billed
  <2>3. Cardinality(In(At(o, v, "vendor"))) \in Nat /\ Cardinality(In(At(o, v, "settlement"))) \in Nat
        /\ Cardinality(In(Late(o, v))) \in Nat
    BY InSize
  <2>4. v \in VendorsOf[o] => commissions[o][v] <= completed[o] - Cardinality(In(Late(o, v)))
    BY DEF Full, ChargedInFull, Balance
  <2> QED BY <2>1, <2>2, <2>3, <2>4
<1> QED BY <1>1, <1>2, FullInvariant, NextInv, VouchedKept, PTL DEF Spec
=============================================================================
