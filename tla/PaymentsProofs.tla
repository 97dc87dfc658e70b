--------------------------- MODULE PaymentsProofs ---------------------------
(***************************************************************************)
(* Theorems about Payments, for every set of orders, Razorpay orders and   *)
(* attempts, every finite set of workers and every bound: the types, Inv   *)
(* and what follows from it, the credits of payment.captured, and the      *)
(* refinement of OrderMoney.                                               *)
(***************************************************************************)
EXTENDS Payments, FiniteSetTheorems, TLAPS

USE DEF rows, tallies, gateway, budget, Spend

-----------------------------------------------------------------------------
(* Types.                                                                  *)

(* An idle worker is a well-typed one.                                     *)
LEMMA IdleType == Idle \in Calls
BY DEF Idle, Calls, Ops, Labels

(* The three ways a handler changes its own frame keep the frames typed.   *)
LEMMA FrameType ==
    ASSUME call \in [Workers -> Calls], NEW w \in Workers, NEW pc \in Labels
    PROVE  /\ Goto(w, pc) => call' \in [Workers -> Calls]
           /\ Return(w) => call' \in [Workers -> Calls]
           /\ Reply(w) => call' \in [Workers -> Calls]
           /\ \A o \in Orders : FoundRow(w, o, pc) => call' \in [Workers -> Calls]
<1>1. \A o \in Orders : [call[w] EXCEPT !.order = o, !.pc = pc] \in Calls
  BY DEF Calls
<1>2. [call[w] EXCEPT !.pc = pc] \in Calls
  BY DEF Calls
<1> QED
  BY <1>1, <1>2, IdleType DEF Goto, Return, Reply, FoundRow

(* Setting a status keeps a table of payments typed.                       *)
LEMMA StatusType ==
    ASSUME NEW f \in [Orders -> PaymentRow], NEW o, NEW s \in PaymentStatus \cup {"ABSENT"}
    PROVE  [f EXCEPT ![o].status = s] \in [Orders -> PaymentRow]
BY DEF PaymentRow

(* Emitting an event keeps the gateway typed.                              *)
LEMMA EmitType ==
    ASSUME due \subseteq Events, sent \in [Events -> Nat], NEW e \in Events, Emit(e)
    PROVE  due' \in SUBSET Events /\ sent' \in [Events -> Nat]
<1>1. CASE sent[e] = 0
  BY <1>1 DEF Emit
<1>2. CASE sent[e] # 0
  BY <1>2 DEF Emit
<1> QED
  BY <1>1, <1>2

(* Counting up and down keeps a tally typed, wherever the index lies.      *)
LEMMA CountType ==
    ASSUME NEW o
    PROVE  /\ \A f \in [Orders -> Int] : [f EXCEPT ![o] = f[o] + 1] \in [Orders -> Int]
           /\ \A f \in [Orders -> Int] : [f EXCEPT ![o] = f[o] - 1] \in [Orders -> Int]
           /\ \A f \in [Orders -> Nat] : [f EXCEPT ![o] = f[o] + 1] \in [Orders -> Nat]
<1>1. CASE o \in Orders
  BY <1>1
<1>2. CASE o \notin Orders
  <2>1. \A f, v : [f EXCEPT ![o] = v] = [y \in DOMAIN f |-> IF y = o THEN v ELSE f[y]]
    OBVIOUS
  <2> QED
    BY <1>2, <2>1
<1> QED
  BY <1>1, <1>2

(* Inv has the types for a part.                                           *)
LEMMA InvType == ASSUME Inv PROVE TypeOK
BY DEF Inv

(* The rows a request looks up, and what its own frame names.              *)
LEMMA TypeFacts ==
    ASSUME Inv
    PROVE  /\ \A w \in Workers : call[w] \in Calls
           /\ \A o \in Orders : payment[o] \in PaymentRow /\ order[o] \in OrderRow
           /\ \A p \in Attempts : attempt[p].outcome # "none" =>
                attempt[p].rzp \in RzpOrders /\ rzpOwner[attempt[p].rzp] \in Orders
BY InvType DEF TypeOK, Inv, GatewayOK, Placed

(* The types of what a request in flight has read.                         *)
LEMMA FrameFacts ==
    ASSUME Inv, NEW w \in Workers
    PROVE  LET c == call[w] IN
           /\ c.op # "idle" /\ ~Searching(w) => c.order \in Orders
           /\ c.op \in EventKinds => c.attempt \in Attempts /\ ThisEvent(w) \in Events
           /\ c.op \in {"verify", "refundApi"} => c.attempt \in Attempts
           /\ c.op = "create" /\ c.pc = "upsert" => c.rzp \in RzpOrders
BY DEF Inv, FramesOK, FrameOK, Placed, PaidFor, ThisEvent, Events, EventKinds, Searching

(* Refunding writes a typed row and counts a demotion.                     *)
LEMMA RefundRowsType ==
    ASSUME TypeOK, NEW o \in Orders, RefundRows(o)
    PROVE  payment' \in [Orders -> PaymentRow] /\ demotions' \in [Orders -> Nat]
<1>1. payment[o] \in PaymentRow
  BY DEF TypeOK
<1>2. [payment[o] EXCEPT !.status = "REFUNDED"] \in PaymentRow
  BY <1>1 DEF PaymentRow, PaymentStatus
<1>3. payment' \in [Orders -> PaymentRow]
  <2>1. CASE payment[o].status = "ABSENT"
    <3>1. payment' = [payment EXCEPT ![o].status = "ABSENT"]
      BY <2>1 DEF RefundRows
    <3>2. [payment[o] EXCEPT !.status = "ABSENT"] \in PaymentRow
      BY <1>1 DEF PaymentRow
    <3> QED
      BY <3>1, <3>2 DEF TypeOK
  <2>2. CASE payment[o].status # "ABSENT"
    <3>1. payment' = [payment EXCEPT ![o].status = "REFUNDED"]
      BY <2>2 DEF RefundRows
    <3> QED
      BY <1>2, <3>1 DEF TypeOK
  <2> QED
    BY <2>1, <2>2
<1>4. demotions' \in [Orders -> Nat]
  BY DEF RefundRows, Demote, TypeOK
<1> QED
  BY <1>3, <1>4

(* Initially every row is absent and every worker idle.                    *)
LEMMA TypeInit == Init => TypeOK
<1> SUFFICES ASSUME Init PROVE TypeOK
  OBVIOUS
<1>1. NoOrder \in OrderRow /\ NoPayment \in PaymentRow
  BY DEF NoOrder, NoPayment, OrderRow, PaymentRow, OrderStatus, PaymentStatus, Methods
<1> QED
  BY <1>1, IdleType DEF Init, TypeOK, AttemptRow

(* The steps of createOrder and cancelOrder keep the types.                *)
LEMMA OrdersStepType == ASSUME Inv, NEW w \in Workers, OrdersStep(w) PROVE TypeOK'
<1>1. ASSUME NEW o \in Orders, NEW m \in Methods, PlaceOrder(w, o, m)
      PROVE  TypeOK'
  <2>1. [payment[o] EXCEPT !.status = "PENDING"] \in PaymentRow
    BY <1>1, TypeFacts DEF PaymentRow, PaymentStatus
  <2>2. order' \in [Orders -> OrderRow]
    BY <1>1, <2>1, InvType DEF PlaceOrder, OrderRow, OrderStatus, PaymentStatus, Methods, TypeOK
  <2>3. payment' \in [Orders -> PaymentRow]
    BY <1>1, <2>1, InvType DEF PlaceOrder, PaymentRow, PaymentStatus, Events, EventKinds, ThisEvent, TypeOK
  <2>4. delivery' \in [Orders -> {"NONE", "OPEN", "ASSIGNED"}]
    BY <1>1, <2>1, InvType DEF PlaceOrder, TypeOK
  <2>5. [Idle EXCEPT !.op = "place", !.pc = "earnings", !.order = o] \in Calls
    BY <1>1, TypeFacts, InvType DEF PlaceOrder, TypeOK, Idle, Calls, Ops, Labels, Events, EventKinds, PaymentRow, AttemptRow
  <2>6. call' \in [Workers -> Calls]
    BY <1>1, <2>5, InvType DEF PlaceOrder, Accept, TypeOK
  <2> QED
    BY <1>1, <2>2, <2>3, <2>4, <2>6, InvType DEF PlaceOrder, TypeOK
<1>2. ASSUME PostEarnings(w)
      PROVE  TypeOK'
  <2>1. call[w].order \in Orders /\ order[call[w].order] \in OrderRow /\ payment[call[w].order] \in PaymentRow
    BY <1>2, FrameFacts, TypeFacts DEF PostEarnings, IsAt, Assigning, EventKinds, Searching
  <2>2. earned' \in [Orders -> Int]
    BY <1>2, <2>1, CountType, InvType DEF PostEarnings, TypeOK
  <2>3. call' \in [Workers -> Calls]
    BY <1>2, FrameType, InvType DEF PostEarnings, TypeOK, Labels
  <2> QED
    BY <1>2, <2>2, <2>3, InvType DEF PostEarnings, TypeOK
<1>3. ASSUME NEW o \in Orders, CancelBegin(w, o)
      PROVE  TypeOK'
  <2>1. [Idle EXCEPT !.op = "cancel", !.pc = "tx", !.order = o, !.sawPaid = (order[o].pay = "PAID")] \in Calls
    BY <1>3, TypeFacts, InvType DEF CancelBegin, TypeOK, Idle, Calls, Ops, Labels, Events, EventKinds, PaymentRow, AttemptRow
  <2>2. call' \in [Workers -> Calls]
    BY <1>3, <2>1, InvType DEF CancelBegin, Accept, TypeOK
  <2> QED
    BY <1>3, <2>2, InvType DEF CancelBegin, TypeOK
<1>4. ASSUME CancelTx(w)
      PROVE  TypeOK'
  <2> DEFINE o == call[w].order
  <2>1. o \in Orders /\ order[o] \in OrderRow /\ payment[o] \in PaymentRow
    BY <1>4, FrameFacts, TypeFacts DEF CancelTx, IsAt, EventKinds, Searching
  <2>2. order' \in [Orders -> OrderRow]
    <3>1. \A p \in PaymentStatus : [order[o] EXCEPT !.status = "CANCELLED", !.pay = p] \in OrderRow
      BY <2>1 DEF OrderRow, OrderStatus
    <3>2. order[o].pay \in PaymentStatus /\ "REFUNDED" \in PaymentStatus
      BY <2>1 DEF OrderRow, PaymentStatus
    <3> DEFINE r == [order[o] EXCEPT !.status = "CANCELLED",
                                     !.pay = IF call[w].sawPaid THEN "REFUNDED" ELSE order[o].pay]
    <3>3. r \in OrderRow
      <4>1. CASE call[w].sawPaid
        BY <3>1, <3>2, <4>1
      <4>2. CASE ~call[w].sawPaid
        BY <3>1, <3>2, <4>2
      <4> QED
        BY <4>1, <4>2
    <3>4. order' = [order EXCEPT ![o] = r]
      BY <1>4 DEF CancelTx
    <3> QED
      BY <3>3, <3>4, InvType DEF TypeOK
  <2>3. payment' \in [Orders -> PaymentRow] /\ demotions' \in [Orders -> Nat]
    <3>1. CASE call[w].sawPaid
      BY <1>4, <2>1, <3>1, RefundRowsType, InvType DEF CancelTx
    <3>2. CASE ~call[w].sawPaid
      BY <1>4, <3>2, InvType DEF CancelTx, TypeOK
    <3> QED
      BY <3>1, <3>2
  <2>4. restores' \in [Orders -> Nat]
    BY <1>4, <2>1, CountType, InvType DEF CancelTx, TypeOK
  <2>5. call' \in [Workers -> Calls]
    BY <1>4, FrameType, InvType DEF CancelTx, TypeOK, Labels
  <2> QED
    BY <1>4, <2>2, <2>3, <2>4, <2>5, InvType DEF CancelTx, TypeOK
<1>5. ASSUME CancelReverse(w)
      PROVE  TypeOK'
  <2>1. call[w].order \in Orders /\ order[call[w].order] \in OrderRow /\ payment[call[w].order] \in PaymentRow
    BY <1>5, FrameFacts, TypeFacts DEF CancelReverse, IsAt, Assigning, EventKinds, Searching
  <2>2. earned' \in [Orders -> Int]
    BY <1>5, <2>1, CountType, InvType DEF CancelReverse, TypeOK
  <2>3. call' \in [Workers -> Calls]
    BY <1>5, FrameType, InvType DEF CancelReverse, TypeOK, Labels
  <2> QED
    BY <1>5, <2>2, <2>3, InvType DEF CancelReverse, TypeOK
<1>6. ASSUME LoseEarnings(w)
      PROVE  TypeOK'
  <2>1. call' \in [Workers -> Calls]
    BY <1>6, FrameType, InvType DEF LoseEarnings, TypeOK, Labels
  <2>2. crashes' \in Nat
    BY <1>6, InvType DEF LoseEarnings, TypeOK
  <2> QED
    BY <1>6, <2>1, <2>2, InvType DEF LoseEarnings, TypeOK
<1> QED
  BY <1>1, <1>2, <1>3, <1>4, <1>5, <1>6 DEF OrdersStep

(* The steps of rider assignment and the confirmation after it keep the    *)
(* types.                                                                  *)
LEMMA AssignStepType == ASSUME Inv, NEW w \in Workers, AssignStep(w) PROVE TypeOK'
<1>1. ASSUME AssignRider(w)
      PROVE  TypeOK'
  <2>1. call[w].order \in Orders /\ order[call[w].order] \in OrderRow /\ payment[call[w].order] \in PaymentRow
    BY <1>1, FrameFacts, TypeFacts DEF AssignRider, IsAt, Assigning, EventKinds, Searching
  <2>2. delivery' \in [Orders -> {"NONE", "OPEN", "ASSIGNED"}]
    BY <1>1, <2>1, InvType DEF AssignRider, TypeOK
  <2>3. call' \in [Workers -> Calls]
    BY <1>1, FrameType, InvType DEF AssignRider, TypeOK, Labels
  <2> QED
    BY <1>1, <2>2, <2>3, InvType DEF AssignRider, TypeOK
<1>2. ASSUME NoRider(w)
      PROVE  TypeOK'
  <2>1. call' \in [Workers -> Calls]
    BY <1>2, FrameType, InvType DEF NoRider, TypeOK, Labels
  <2> QED
    BY <1>2, <2>1, InvType DEF NoRider, TypeOK
<1>3. ASSUME ConfirmAssigned(w)
      PROVE  TypeOK'
  <2>1. call[w].order \in Orders /\ order[call[w].order] \in OrderRow /\ payment[call[w].order] \in PaymentRow
    BY <1>3, FrameFacts, TypeFacts DEF ConfirmAssigned, IsAt, Assigning, EventKinds, Searching
  <2>2. order' \in [Orders -> OrderRow]
    BY <1>3, <2>1, InvType DEF ConfirmAssigned, OrderRow, OrderStatus, PaymentStatus, Methods, TypeOK
  <2>3. call' \in [Workers -> Calls]
    BY <1>3, FrameType, InvType DEF ConfirmAssigned, TypeOK, Labels
  <2> QED
    BY <1>3, <2>2, <2>3, InvType DEF ConfirmAssigned, TypeOK
<1> QED
  BY <1>1, <1>2, <1>3 DEF AssignStep

(* The steps of createRazorpayOrder and verifyPayment keep the types.      *)
LEMMA CheckoutStepType == ASSUME Inv, NEW w \in Workers, CheckoutStep(w) PROVE TypeOK'
<1>1. ASSUME NEW o \in Orders, CreateBegin(w, o)
      PROVE  TypeOK'
  <2>1. [Idle EXCEPT !.op = "create", !.pc = "gateway", !.order = o] \in Calls
    BY <1>1, TypeFacts, InvType DEF CreateBegin, TypeOK, Idle, Calls, Ops, Labels, Events, EventKinds, PaymentRow, AttemptRow
  <2>2. call' \in [Workers -> Calls]
    BY <1>1, <2>1, InvType DEF CreateBegin, Accept, TypeOK
  <2> QED
    BY <1>1, <2>2, InvType DEF CreateBegin, TypeOK
<1>2. ASSUME NEW r \in RzpOrders, CreateAtGateway(w, r)
      PROVE  TypeOK'
  <2>1. call[w].order \in Orders /\ order[call[w].order] \in OrderRow /\ payment[call[w].order] \in PaymentRow
    BY <1>2, FrameFacts, TypeFacts DEF CreateAtGateway, IsAt, Assigning, EventKinds, Searching
  <2>2. [call[w] EXCEPT !.pc = "upsert", !.rzp = r] \in Calls
    BY <1>2, <2>1, TypeFacts DEF Calls, Labels
  <2>3. rzpOwner' \in [RzpOrders -> Orders \cup {None}]
    BY <1>2, <2>1, <2>2, InvType DEF CreateAtGateway, TypeOK
  <2>4. call' \in [Workers -> Calls]
    BY <1>2, <2>1, <2>2, FrameType, InvType DEF CreateAtGateway, TypeOK, Labels
  <2> QED
    BY <1>2, <2>3, <2>4, InvType DEF CreateAtGateway, TypeOK
<1>3. ASSUME CreateFails(w)
      PROVE  TypeOK'
  <2>1. call' \in [Workers -> Calls]
    BY <1>3, FrameType, InvType DEF CreateFails, TypeOK, Labels
  <2> QED
    BY <1>3, <2>1, InvType DEF CreateFails, TypeOK
<1>4. ASSUME CreateUpsert(w)
      PROVE  TypeOK'
  <2>1. call[w].order \in Orders /\ order[call[w].order] \in OrderRow /\ payment[call[w].order] \in PaymentRow /\ call[w].rzp \in RzpOrders
    BY <1>4, FrameFacts, TypeFacts DEF CreateUpsert, IsAt, Assigning, EventKinds, Searching
  <2> DEFINE o == call[w].order
             r == [payment[o] EXCEPT !.rzp = call[w].rzp,
                      !.status = IF payment[o].status = "ABSENT" THEN "PENDING" ELSE payment[o].status]
  <2>2. r \in PaymentRow
    <3>1. CASE payment[o].status = "ABSENT"
      BY <2>1, <3>1 DEF PaymentRow, PaymentStatus
    <3>2. CASE payment[o].status # "ABSENT"
      BY <2>1, <3>2 DEF PaymentRow
    <3> QED
      BY <3>1, <3>2
  <2>3. payment' = [payment EXCEPT ![o] = r]
    BY <1>4 DEF CreateUpsert
  <2>4. payment' \in [Orders -> PaymentRow]
    BY <2>2, <2>3, InvType DEF TypeOK
  <2>5. offered' \in SUBSET RzpOrders
    BY <1>4, <2>1, <2>2, <2>3, InvType DEF CreateUpsert, TypeOK
  <2>6. call' \in [Workers -> Calls]
    BY <1>4, FrameType, InvType DEF CreateUpsert, TypeOK, Labels
  <2> QED
    BY <1>4, <2>4, <2>5, <2>6, InvType DEF CreateUpsert, TypeOK
<1>5. ASSUME NEW p \in Attempts, NEW o \in Orders, VerifyBegin(w, p, o)
      PROVE  TypeOK'
  <2>1. [Idle EXCEPT !.op = "verify", !.pc = "tx", !.attempt = p, !.order = o] \in Calls
    BY <1>5, TypeFacts, InvType DEF VerifyBegin, TypeOK, Idle, Calls, Ops, Labels, Events, EventKinds, PaymentRow, AttemptRow
  <2>2. call' \in [Workers -> Calls]
    BY <1>5, <2>1, InvType DEF VerifyBegin, Accept, TypeOK
  <2> QED
    BY <1>5, <2>2, InvType DEF VerifyBegin, TypeOK
<1>6. ASSUME VerifyTx(w)
      PROVE  TypeOK'
  <2>1. call[w].order \in Orders /\ order[call[w].order] \in OrderRow /\ payment[call[w].order] \in PaymentRow /\ call[w].attempt \in Attempts
    BY <1>6, FrameFacts, TypeFacts DEF VerifyTx, IsAt, Assigning, EventKinds, Searching
  <2>2. order' \in [Orders -> OrderRow]
    BY <1>6, <2>1, InvType DEF VerifyTx, MarkPaid, OrderRow, OrderStatus, PaymentStatus, Methods, TypeOK
  <2>3. payment' \in [Orders -> PaymentRow]
    BY <1>6, <2>1, InvType DEF VerifyTx, MarkPaid, PaymentRow, PaymentStatus, Events, EventKinds, ThisEvent, TypeOK
  <2>4. delivery' \in [Orders -> {"NONE", "OPEN", "ASSIGNED"}]
    BY <1>6, <2>1, InvType DEF VerifyTx, MarkPaid, TypeOK
  <2>5. call' \in [Workers -> Calls]
    BY <1>6, FrameType, InvType DEF VerifyTx, TypeOK, Labels
  <2>6. claims' \in [Orders -> SUBSET Attempts]
    BY <1>6, <2>1, InvType DEF VerifyTx, TypeOK
  <2> QED
    BY <1>6, <2>2, <2>3, <2>4, <2>5, <2>6, InvType DEF VerifyTx, MarkPaid, TypeOK
<1>7. ASSUME VerifyNoRow(w)
      PROVE  TypeOK'
  <2>1. call' \in [Workers -> Calls]
    BY <1>7, FrameType, InvType DEF VerifyNoRow, TypeOK, Labels
  <2> QED
    BY <1>7, <2>1, InvType DEF VerifyNoRow, TypeOK
<1> QED
  BY <1>1, <1>2, <1>3, <1>4, <1>5, <1>6, <1>7 DEF CheckoutStep

(* The steps of payment.captured keep the types.                           *)
LEMMA CapturedStepType == ASSUME Inv, NEW w \in Workers, CapturedStep(w) PROVE TypeOK'
<1>1. ASSUME CapturedCheckEvent(w)
      PROVE  TypeOK'
  <2>1. ThisEvent(w) \in Events
    BY <1>1, FrameFacts, TypeFacts DEF CapturedCheckEvent, IsAt, Assigning, EventKinds, Searching
  <2>2. due' \in SUBSET Events
    BY <1>1, <2>1, InvType DEF CapturedCheckEvent, Events, EventKinds, Emit, Reply, TypeOK
  <2>3. call' \in [Workers -> Calls]
    BY <1>1, FrameType, InvType DEF CapturedCheckEvent, TypeOK, Labels
  <2> QED
    BY <1>1, <2>2, <2>3, InvType DEF CapturedCheckEvent, Reply, TypeOK
<1>2. ASSUME CapturedNoRow(w)
      PROVE  TypeOK'
  <2>1. due' \in SUBSET Events
    BY <1>2, InvType DEF CapturedNoRow, Events, EventKinds, Emit, Reply, TypeOK
  <2>2. call' \in [Workers -> Calls]
    BY <1>2, FrameType, InvType DEF CapturedNoRow, TypeOK, Labels
  <2> QED
    BY <1>2, <2>1, <2>2, InvType DEF CapturedNoRow, Reply, TypeOK
<1>3. ASSUME NEW o \in Orders, CapturedReadRow(w, o)
      PROVE  TypeOK'
  <2>1. call' \in [Workers -> Calls]
    BY <1>3, FrameType, InvType DEF CapturedReadRow, TypeOK, Labels
  <2> QED
    BY <1>3, <2>1, InvType DEF CapturedReadRow, TypeOK
<1>4. ASSUME CapturedMark(w)
      PROVE  TypeOK'
  <2>1. call[w].order \in Orders /\ order[call[w].order] \in OrderRow /\ payment[call[w].order] \in PaymentRow /\ ThisEvent(w) \in Events
    BY <1>4, FrameFacts, TypeFacts DEF CapturedMark, IsAt, Assigning, EventKinds, Searching
  <2>2. payment' \in [Orders -> PaymentRow]
    BY <1>4, <2>1, InvType DEF CapturedMark, PaymentRow, PaymentStatus, Events, EventKinds, ThisEvent, TypeOK
  <2>3. due' \in SUBSET Events
    BY <1>4, <2>1, InvType DEF CapturedMark, Events, EventKinds, Emit, Reply, TypeOK
  <2>4. call' \in [Workers -> Calls]
    BY <1>4, FrameType, InvType DEF CapturedMark, TypeOK, Labels
  <2> QED
    BY <1>4, <2>2, <2>3, <2>4, InvType DEF CapturedMark, Reply, TypeOK
<1>5. ASSUME CapturedTx(w)
      PROVE  TypeOK'
  <2>1. call[w].order \in Orders /\ order[call[w].order] \in OrderRow /\ payment[call[w].order] \in PaymentRow /\ ThisEvent(w) \in Events /\ call[w].attempt \in Attempts
    BY <1>5, FrameFacts, TypeFacts DEF CapturedTx, IsAt, Assigning, EventKinds, Searching
  <2>2. order' \in [Orders -> OrderRow]
    BY <1>5, <2>1, InvType DEF CapturedTx, MarkPaid, OrderRow, OrderStatus, PaymentStatus, Methods, TypeOK
  <2>3. payment' \in [Orders -> PaymentRow]
    BY <1>5, <2>1, InvType DEF CapturedTx, MarkPaid, PaymentRow, PaymentStatus, Events, EventKinds, ThisEvent, TypeOK
  <2>4. delivery' \in [Orders -> {"NONE", "OPEN", "ASSIGNED"}]
    BY <1>5, <2>1, InvType DEF CapturedTx, MarkPaid, TypeOK
  <2>5. ledger' \in [Orders -> BOOLEAN]
    BY <1>5, <2>1, InvType DEF CapturedTx, MarkPaid, TypeOK
  <2>6. earned' \in [Orders -> Int]
    BY <1>5, <2>1, CountType, InvType DEF CapturedTx, MarkPaid, TypeOK
  <2>7. credits' \in [Orders -> Nat]
    BY <1>5, <2>1, CountType, InvType DEF CapturedTx, MarkPaid, TypeOK
  <2>8. call' \in [Workers -> Calls]
    BY <1>5, FrameType, InvType DEF CapturedTx, TypeOK, Labels
  <2> QED
    BY <1>5, <2>2, <2>3, <2>4, <2>5, <2>6, <2>7, <2>8, InvType DEF CapturedTx, MarkPaid, TypeOK
<1> QED
  BY <1>1, <1>2, <1>3, <1>4, <1>5 DEF CapturedStep

(* The steps of payment.failed keep the types.                             *)
LEMMA FailedStepType == ASSUME Inv, NEW w \in Workers, FailedStep(w) PROVE TypeOK'
<1>1. ASSUME FailedSkip(w)
      PROVE  TypeOK'
  <2>1. ThisEvent(w) \in Events
    BY <1>1, FrameFacts, TypeFacts DEF FailedSkip, IsAt, Assigning, EventKinds, Searching
  <2>2. due' \in SUBSET Events
    BY <1>1, <2>1, InvType DEF FailedSkip, Events, EventKinds, Emit, Reply, TypeOK
  <2>3. call' \in [Workers -> Calls]
    BY <1>1, FrameType, InvType DEF FailedSkip, TypeOK, Labels
  <2> QED
    BY <1>1, <2>2, <2>3, InvType DEF FailedSkip, Reply, TypeOK
<1>2. ASSUME NEW o \in Orders, FailedReadRow(w, o)
      PROVE  TypeOK'
  <2>1. ThisEvent(w) \in Events
    BY <1>2, FrameFacts, TypeFacts DEF FailedReadRow, IsAt, Assigning, EventKinds, Searching
  <2>2. call' \in [Workers -> Calls]
    BY <1>2, FrameType, InvType DEF FailedReadRow, TypeOK, Labels
  <2> QED
    BY <1>2, <2>2, InvType DEF FailedReadRow, TypeOK
<1>3. ASSUME FailedTx(w)
      PROVE  TypeOK'
  <2>1. call[w].order \in Orders /\ order[call[w].order] \in OrderRow /\ payment[call[w].order] \in PaymentRow /\ ThisEvent(w) \in Events
    BY <1>3, FrameFacts, TypeFacts DEF FailedTx, IsAt, Assigning, EventKinds, Searching
  <2>2. order' \in [Orders -> OrderRow]
    BY <1>3, <2>1, InvType DEF FailedTx, Demote, OrderRow, OrderStatus, PaymentStatus, Methods, TypeOK
  <2>3. payment' \in [Orders -> PaymentRow]
    BY <1>3, <2>1, InvType DEF FailedTx, Demote, PaymentRow, PaymentStatus, Events, EventKinds, ThisEvent, TypeOK
  <2>4. demotions' \in [Orders -> Nat]
    BY <1>3, <2>1, CountType, InvType DEF FailedTx, Demote, TypeOK
  <2>5. call' \in [Workers -> Calls]
    BY <1>3, FrameType, InvType DEF FailedTx, TypeOK, Labels
  <2> QED
    BY <1>3, <2>2, <2>3, <2>4, <2>5, InvType DEF FailedTx, Demote, TypeOK
<1>4. ASSUME FailedRestore(w)
      PROVE  TypeOK'
  <2>1. call[w].order \in Orders /\ order[call[w].order] \in OrderRow /\ payment[call[w].order] \in PaymentRow
    BY <1>4, FrameFacts, TypeFacts DEF FailedRestore, IsAt, Assigning, EventKinds, Searching
  <2>2. restores' \in [Orders -> Nat]
    BY <1>4, <2>1, CountType, InvType DEF FailedRestore, TypeOK
  <2>3. call' \in [Workers -> Calls]
    BY <1>4, FrameType, InvType DEF FailedRestore, TypeOK, Labels
  <2> QED
    BY <1>4, <2>2, <2>3, InvType DEF FailedRestore, TypeOK
<1> QED
  BY <1>1, <1>2, <1>3, <1>4 DEF FailedStep

(* The steps of the refund webhook keep the types.                         *)
LEMMA RefundedStepType == ASSUME Inv, NEW w \in Workers, RefundedStep(w) PROVE TypeOK'
<1>1. ASSUME RefundedNoRow(w)
      PROVE  TypeOK'
  <2>1. due' \in SUBSET Events
    BY <1>1, InvType DEF RefundedNoRow, Events, EventKinds, Emit, Reply, TypeOK
  <2>2. call' \in [Workers -> Calls]
    BY <1>1, FrameType, InvType DEF RefundedNoRow, TypeOK, Labels
  <2> QED
    BY <1>1, <2>1, <2>2, InvType DEF RefundedNoRow, Reply, TypeOK
<1>2. ASSUME NEW o \in Orders, RefundedReadRow(w, o)
      PROVE  TypeOK'
  <2>1. call' \in [Workers -> Calls]
    BY <1>2, FrameType, InvType DEF RefundedReadRow, TypeOK, Labels
  <2> QED
    BY <1>2, <2>1, InvType DEF RefundedReadRow, TypeOK
<1>3. ASSUME RefundedPayment(w)
      PROVE  TypeOK'
  <2>1. call[w].order \in Orders /\ order[call[w].order] \in OrderRow /\ payment[call[w].order] \in PaymentRow
    BY <1>3, FrameFacts, TypeFacts DEF RefundedPayment, IsAt, Assigning, EventKinds, Searching
  <2>2. payment' \in [Orders -> PaymentRow]
    BY <1>3, <2>1, InvType DEF RefundedPayment, Demote, PaymentRow, PaymentStatus, Events, EventKinds, ThisEvent, TypeOK
  <2>3. demotions' \in [Orders -> Nat]
    BY <1>3, <2>1, CountType, InvType DEF RefundedPayment, Demote, TypeOK
  <2>4. call' \in [Workers -> Calls]
    BY <1>3, FrameType, InvType DEF RefundedPayment, TypeOK, Labels
  <2> QED
    BY <1>3, <2>2, <2>3, <2>4, InvType DEF RefundedPayment, Demote, TypeOK
<1>4. ASSUME RefundedOrder(w)
      PROVE  TypeOK'
  <2>1. call[w].order \in Orders /\ order[call[w].order] \in OrderRow /\ payment[call[w].order] \in PaymentRow
    BY <1>4, FrameFacts, TypeFacts DEF RefundedOrder, IsAt, Assigning, EventKinds, Searching
  <2>2. order' \in [Orders -> OrderRow]
    BY <1>4, <2>1, InvType DEF RefundedOrder, OrderRow, OrderStatus, PaymentStatus, Methods, TypeOK
  <2>3. due' \in SUBSET Events
    BY <1>4, <2>1, InvType DEF RefundedOrder, Events, EventKinds, Emit, Reply, TypeOK
  <2>4. call' \in [Workers -> Calls]
    BY <1>4, FrameType, InvType DEF RefundedOrder, TypeOK, Labels
  <2> QED
    BY <1>4, <2>2, <2>3, <2>4, InvType DEF RefundedOrder, Reply, TypeOK
<1> QED
  BY <1>1, <1>2, <1>3, <1>4 DEF RefundedStep

(* The steps of the refund API keep the types.                             *)
LEMMA RefundApiStepType == ASSUME Inv, NEW w \in Workers, RefundApiStep(w) PROVE TypeOK'
<1>1. ASSUME NEW o \in Orders, RefundApiBegin(w, o)
      PROVE  TypeOK'
  <2>1. [Idle EXCEPT !.op = "refundApi", !.pc = "gateway", !.order = o, !.attempt = payment[o].payId] \in Calls
    BY <1>1, TypeFacts, InvType DEF RefundApiBegin, TypeOK, Idle, Calls, Ops, Labels, Events, EventKinds, PaymentRow, AttemptRow
  <2>2. call' \in [Workers -> Calls]
    BY <1>1, <2>1, InvType DEF RefundApiBegin, Accept, TypeOK
  <2> QED
    BY <1>1, <2>2, InvType DEF RefundApiBegin, TypeOK
<1>2. ASSUME RefundApiGateway(w)
      PROVE  TypeOK'
  <2>1. call[w].attempt \in Attempts
    BY <1>2, FrameFacts, TypeFacts DEF RefundApiGateway, IsAt, Assigning, EventKinds, Searching
  <2>2. [kind |-> "refund", attempt |-> call[w].attempt] \in Events
    BY <1>2, <2>1 DEF Events, EventKinds
  <2>3. due' \in SUBSET Events /\ sent' \in [Events -> Nat]
    BY <1>2, <2>2, EmitType, InvType DEF RefundApiGateway, TypeOK
  <2>4. call' \in [Workers -> Calls]
    BY <1>2, FrameType, InvType DEF RefundApiGateway, TypeOK, Labels
  <2> QED
    BY <1>2, <2>3, <2>4, InvType DEF RefundApiGateway, Emit, TypeOK
<1>3. ASSUME RefundApiFails(w)
      PROVE  TypeOK'
  <2>1. call' \in [Workers -> Calls]
    BY <1>3, FrameType, InvType DEF RefundApiFails, TypeOK, Labels
  <2> QED
    BY <1>3, <2>1, InvType DEF RefundApiFails, TypeOK
<1>4. ASSUME RefundApiTx(w)
      PROVE  TypeOK'
  <2>1. call[w].order \in Orders /\ order[call[w].order] \in OrderRow /\ payment[call[w].order] \in PaymentRow
    BY <1>4, FrameFacts, TypeFacts DEF RefundApiTx, IsAt, Assigning, EventKinds, Searching
  <2>2. order' \in [Orders -> OrderRow]
    BY <1>4, <2>1, InvType DEF RefundApiTx, RefundRows, Demote, OrderRow, OrderStatus, PaymentStatus, Methods, TypeOK
  <2>3. payment' \in [Orders -> PaymentRow]
    BY <1>4, <2>1, InvType DEF RefundApiTx, RefundRows, Demote, PaymentRow, PaymentStatus, Events, EventKinds, ThisEvent, TypeOK
  <2>4. demotions' \in [Orders -> Nat]
    BY <1>4, <2>1, CountType, InvType DEF RefundApiTx, RefundRows, Demote, TypeOK
  <2>5. call' \in [Workers -> Calls]
    BY <1>4, FrameType, InvType DEF RefundApiTx, TypeOK, Labels
  <2> QED
    BY <1>4, <2>2, <2>3, <2>4, <2>5, InvType DEF RefundApiTx, RefundRows, Demote, TypeOK
<1> QED
  BY <1>1, <1>2, <1>3, <1>4 DEF RefundApiStep

(* Dispatching, the final reply, a webhook's delivery and a crash keep     *)
(* the types.                                                              *)
LEMMA RequestType ==
    ASSUME Inv, NEW w \in Workers
    PROVE  (\E o \in Orders : DispatchBegin(w, o)) \/ NotifyAndReply(w)
              \/ (\E e \in Events : Deliver(w, e)) \/ Crash(w) => TypeOK'
<1>1. ASSUME NEW o \in Orders, DispatchBegin(w, o)
      PROVE  TypeOK'
  <2>1. [Idle EXCEPT !.op = "dispatch", !.pc = "assign", !.order = o] \in Calls
    BY <1>1, TypeFacts, InvType DEF DispatchBegin, TypeOK, Idle, Calls, Ops, Labels, Events, EventKinds, PaymentRow, AttemptRow
  <2>2. call' \in [Workers -> Calls]
    BY <1>1, <2>1, InvType DEF DispatchBegin, Accept, TypeOK
  <2> QED
    BY <1>1, <2>2, InvType DEF DispatchBegin, TypeOK
<1>2. ASSUME NotifyAndReply(w)
      PROVE  TypeOK'
  <2>1. due' \in SUBSET Events
    BY <1>2, InvType DEF NotifyAndReply, Events, EventKinds, Emit, Reply, TypeOK
  <2>2. call' \in [Workers -> Calls]
    BY <1>2, FrameType, InvType DEF NotifyAndReply, TypeOK, Labels
  <2> QED
    BY <1>2, <2>1, <2>2, InvType DEF NotifyAndReply, Reply, TypeOK
<1>3. ASSUME NEW e \in Events, Deliver(w, e)
      PROVE  TypeOK'
  <2>1. sent' \in [Events -> Nat]
    BY <1>3, InvType DEF Deliver, Events, EventKinds, Emit, TypeOK
  <2>2. [Idle EXCEPT !.op = e.kind, !.attempt = e.attempt, !.pc = IF e.kind = "captured" THEN "event" ELSE "row"] \in Calls
    BY <1>3, TypeFacts, InvType DEF Deliver, TypeOK, Idle, Calls, Ops, Labels, Events, EventKinds, PaymentRow, AttemptRow
  <2>3. call' \in [Workers -> Calls]
    BY <1>3, <2>2, InvType DEF Deliver, Accept, TypeOK
  <2> QED
    BY <1>3, <2>1, <2>3, InvType DEF Deliver, TypeOK
<1>4. ASSUME Crash(w)
      PROVE  TypeOK'
  <2>1. call' \in [Workers -> Calls]
    BY <1>4, FrameType, InvType DEF Crash, TypeOK, Labels
  <2>2. crashes' \in Nat
    BY <1>4, InvType DEF Crash, TypeOK
  <2> QED
    BY <1>4, <2>1, <2>2, InvType DEF Crash, TypeOK
<1> QED
  BY <1>1, <1>2, <1>3, <1>4

(* Razorpay's own steps and the admin's status override keep the types.    *)
LEMMA WorldType ==
    ASSUME Inv
    PROVE  GatewayStep \/ (\E o \in Orders, s \in OrderStatus : AdminSetStatus(o, s)) => TypeOK'
<1>1. ASSUME NEW p \in Attempts, NEW r \in RzpOrders, NEW k \in {"captured", "failed"}, Pay(p, r, k)
      PROVE  TypeOK'
  <2>1. attempt' \in [Attempts -> AttemptRow]
    BY <1>1, InvType DEF Pay, AttemptRow, TypeOK
  <2>2. [kind |-> k, attempt |-> p] \in Events
    BY <1>1 DEF Events, EventKinds
  <2>3. due' \in SUBSET Events /\ sent' \in [Events -> Nat]
    BY <1>1, <2>2, EmitType, InvType DEF Pay, TypeOK
  <2> QED
    BY <1>1, <2>1, <2>3, InvType DEF Pay, Emit, TypeOK
<1>2. ASSUME NEW p \in Attempts, DashboardRefund(p)
      PROVE  TypeOK'
  <2>1. [kind |-> "refund", attempt |-> p] \in Events
    BY <1>2 DEF Events, EventKinds
  <2>2. due' \in SUBSET Events /\ sent' \in [Events -> Nat]
    BY <1>2, <2>1, EmitType, InvType DEF DashboardRefund, TypeOK
  <2> QED
    BY <1>2, <2>2, InvType DEF DashboardRefund, Emit, TypeOK
<1>3. ASSUME NEW o \in Orders, NEW s \in OrderStatus, AdminSetStatus(o, s)
      PROVE  TypeOK'
  <2>1. order' \in [Orders -> OrderRow]
    BY <1>3, InvType DEF AdminSetStatus, OrderRow, OrderStatus, PaymentStatus, Methods, TypeOK
  <2> QED
    BY <1>3, <2>1, InvType DEF AdminSetStatus, TypeOK
<1> QED
  BY <1>1, <1>2, <1>3 DEF GatewayStep

(* Every step keeps the types.                                             *)
LEMMA NextType == ASSUME Inv, [Next]_vars PROVE TypeOK'
<1>1. CASE UNCHANGED vars
  BY <1>1, InvType DEF vars, TypeOK
<1>2. CASE Next
  <2>1. ASSUME NEW w \in Workers,
               OrdersStep(w) \/ AssignStep(w) \/ CheckoutStep(w) \/ CapturedStep(w)
                  \/ FailedStep(w) \/ RefundedStep(w) \/ RefundApiStep(w)
        PROVE  TypeOK'
    BY <2>1, OrdersStepType, AssignStepType, CheckoutStepType, CapturedStepType,
       FailedStepType, RefundedStepType, RefundApiStepType
  <2>2. ASSUME NEW w \in Workers,
               (\E o \in Orders : DispatchBegin(w, o)) \/ NotifyAndReply(w)
                  \/ (\E e \in Events : Deliver(w, e)) \/ Crash(w)
        PROVE  TypeOK'
    BY <2>2, RequestType
  <2> QED
    BY <1>2, <2>1, <2>2, WorldType DEF Next
<1> QED
  BY <1>1, <1>2

-----------------------------------------------------------------------------
(***************************************************************************)
(* The invariant.                                                          *)
(*                                                                         *)
(* Inv relates each row to what Razorpay knows and each request in flight  *)
(* to the rows it will write.  A step rewrites one order's rows and moves  *)
(* one request; Grows is all the other requests rely on, so that only the  *)
(* request that moves and the row it wrote need an argument per action.    *)
(***************************************************************************)

(* What no step undoes.                                                    *)

Grows ==
    /\ \A o \in Orders : Placed(o) => Placed(o)' /\ order'[o].method = order[o].method
    /\ \A o \in Orders : payment[o].payId # None => payment'[o].payId # None
    /\ \A r \in RzpOrders : rzpOwner[r] # None => rzpOwner'[r] = rzpOwner[r]
    /\ \A p \in Attempts : attempt[p].outcome # "none" => attempt'[p] = attempt[p]
    /\ \A o \in Orders : claims[o] \subseteq claims'[o]

(* Only orders that exist are paid for.                                    *)
LEMMA PaidForPlaced ==
    ASSUME Inv, NEW p, NEW o, PaidFor(p, o)
    PROVE  Placed(o)
BY DEF Inv, GatewayOK, PaidFor

(* A proof of payment is one for ever.                                     *)
LEMMA PaidForGrows ==
    ASSUME Inv, Grows, NEW p, NEW o, PaidFor(p, o)
    PROVE  PaidFor(p, o)'
BY PaidForPlaced, NoneAssumption DEF Grows, PaidFor, Placed

LEMMA BacksGrows ==
    ASSUME Inv, Grows, NEW p, NEW o \in Orders, Backs(p, o)
    PROVE  Backs(p, o)'
BY PaidForGrows DEF Backs, Grows

(* What backs an order is an attempt that captured money.                  *)
LEMMA BacksCaptured ==
    ASSUME Inv, NEW p, NEW o \in Orders, Backs(p, o)
    PROVE  p \in Attempts /\ attempt[p].outcome = "captured"
BY DEF Inv, ClaimsOK, Backs, PaidFor

(* A request that does not move stays right about the rows.                *)
LEMMA OtherFrame ==
    ASSUME Inv, Grows, NEW v \in Workers, call'[v] = call[v]
    PROVE  FrameOK(v)'
<1> DEFINE c == call[v]
<1>1. FrameOK(v) /\ (Searching(v)' <=> Searching(v))
  BY DEF Inv, FramesOK, Searching
<1>2. c.op # "idle" /\ ~Searching(v) => Placed(c.order) /\ Placed(c.order)'
  BY <1>1 DEF FrameOK, Grows, Placed
<1>3. c.op = "create" /\ c.pc = "upsert" => c.rzp \in RzpOrders /\ rzpOwner'[c.rzp] = c.order
  BY <1>1, <1>2, NoneAssumption DEF FrameOK, Grows, Placed, Searching, EventKinds
<1>4. IsAt(v, "captured", "tx") => PaidFor(c.attempt, c.order)'
  BY <1>1, PaidForGrows DEF FrameOK
<1>5. c.op = "refundApi" \/ (c.op = "refund" /\ ~Searching(v)) \/ (c.op = "cancel" /\ c.sawPaid)
         => payment'[c.order].payId # None
  BY <1>1, <1>2 DEF FrameOK, Grows, Placed, Searching, EventKinds
<1>6. c.op \in Assigning /\ c.pc = "assign" =>
         order'[c.order].method = "COD" \/ payment'[c.order].payId # None
  BY <1>1, <1>2 DEF FrameOK, Grows, Placed, Searching, EventKinds, Assigning
<1>7. c.op \in EventKinds \cup {"verify", "refundApi"} =>
         c.attempt \in Attempts /\ attempt'[c.attempt] = attempt[c.attempt]
  BY <1>1 DEF FrameOK, Grows, EventKinds
<1> QED
  BY <1>1, <1>2, <1>3, <1>4, <1>5, <1>6, <1>7 DEF FrameOK, IsAt, EventKinds

(* A row is right about Razorpay after a write that keeps its ids, or sets *)
(* them to ones of this very order.                                        *)
LEMMA WrittenRow ==
    ASSUME Inv, Grows, NEW o \in Orders,
           payment'[o].rzp = payment[o].rzp
              \/ (payment'[o].rzp \in RzpOrders /\ rzpOwner[payment'[o].rzp] = o),
           \/ payment'[o].payId = payment[o].payId
           \/ \E p \in Attempts : payment'[o].payId = p /\ Backs(p, o)',
           order'[o].status = "ABSENT" =>
              /\ payment'[o].status = "ABSENT" /\ payment'[o].rzp = None
              /\ order'[o].pay = "PENDING" /\ delivery'[o] = "NONE",
           payment'[o].status \in {"ABSENT", "PENDING"} => payment'[o].payId = None,
           payment'[o].status \in {"PAID", "REFUNDED"} \/ order'[o].pay \in {"PAID", "REFUNDED"}
              => payment'[o].payId # None,
           delivery'[o] = "ASSIGNED" => order'[o].method = "COD" \/ payment'[o].payId # None
    PROVE  RowOK(o)'
<1>1. RowOK(o)
  BY DEF Inv, RowsOK
<1>2. payment'[o].rzp # None => rzpOwner'[payment'[o].rzp] = o
  <2>1. payment[o].rzp \in RzpOrders \cup {None}
    BY TypeFacts DEF PaymentRow
  <2> QED
    BY <1>1, <2>1, NoneAssumption DEF RowOK, Grows
<1>3. payment'[o].payId # None => Backs(payment[o].payId, o)'
  <2>1. CASE payment'[o].payId = payment[o].payId
    <3>1. payment[o].payId # None => Backs(payment[o].payId, o)
      BY <1>1 DEF RowOK
    <3> QED
      BY <2>1, <3>1, BacksGrows DEF Backs, PaidFor
  <2>2. CASE \E p \in Attempts : payment'[o].payId = p /\ Backs(p, o)'
    BY <2>2 DEF Backs, PaidFor
  <2> QED
    BY <2>1, <2>2
<1> QED
  BY <1>2, <1>3 DEF RowOK

(* A row no request wrote stays right.                                     *)
LEMMA OtherRow ==
    ASSUME Inv, Grows, NEW o \in Orders,
           order'[o] = order[o], payment'[o] = payment[o], delivery'[o] = delivery[o]
    PROVE  RowOK(o)'
<1>1. RowOK(o)
  BY DEF Inv, RowsOK
<1> QED
  BY <1>1, WrittenRow DEF RowOK

(* Razorpay's side stays right while handlers write rows.                  *)
LEMMA GatewayStays ==
    ASSUME Inv, Grows, UNCHANGED <<rzpOwner, offered, attempt, sent>>
    PROVE  GatewayOK'
BY DEF Inv, GatewayOK, Grows, Placed

-----------------------------------------------------------------------------
(* How one request moves.                                                  *)

Moves(w) == \A v \in Workers \ {w} : call'[v] = call[v]

Parts == GatewayOK /\ RowsOK /\ FramesOK

(* Each way of moving leaves the other requests where they are.            *)
LEMMA MovesAlone ==
    ASSUME Inv, NEW w \in Workers, NEW x, NEW q,
           Goto(w, x) \/ Return(w) \/ FoundRow(w, q, x) \/ Accept(w, x)
    PROVE  Moves(w)
<1>1. call \in [Workers -> Calls]
  BY InvType DEF TypeOK
<1> QED
  BY <1>1 DEF Moves, Goto, Return, FoundRow, Accept

(* An ended request has read nothing.                                      *)
LEMMA ReturnFrame ==
    ASSUME Inv, NEW w \in Workers, Return(w)
    PROVE  Moves(w) /\ FrameOK(w)'
<1>1. call'[w] = Idle
  BY InvType DEF Return, TypeOK
<1> QED
  BY <1>1, MovesAlone DEF FrameOK, Idle, IsAt, Searching, EventKinds, Assigning

(* Going on within a handler, except to a step that relies on a check.     *)
LEMMA GotoFrame ==
    ASSUME Inv, Grows, NEW w \in Workers, NEW pc \in Labels \ {"event", "row", "upsert"},
           Goto(w, pc), call[w].op # "idle", ~Searching(w),
           pc = "tx" => call[w].op # "captured",
           pc = "assign" => order'[call[w].order].method = "COD"
                               \/ payment'[call[w].order].payId # None
    PROVE  Moves(w) /\ FrameOK(w)'
<1> DEFINE c == call[w]
<1>1. /\ call'[w].pc = pc
      /\ call'[w].op = c.op /\ call'[w].order = c.order /\ call'[w].rzp = c.rzp
      /\ call'[w].attempt = c.attempt /\ call'[w].sawPaid = c.sawPaid
  BY InvType DEF Goto, TypeOK, Calls
<1>2. FrameOK(w)
  BY DEF Inv, FramesOK
<1>3. c.order \in Orders /\ order[c.order].status # "ABSENT" /\ order'[c.order].status # "ABSENT"
  BY <1>2 DEF FrameOK, Grows, Placed
<1>5. c.op = "refundApi" \/ c.op = "refund" \/ (c.op = "cancel" /\ c.sawPaid)
         => payment'[c.order].payId # None
  BY <1>2, <1>3 DEF FrameOK, Grows
<1>6. c.op \in EventKinds \cup {"verify", "refundApi"} =>
         c.attempt \in Attempts /\ attempt'[c.attempt] = attempt[c.attempt]
  BY <1>2 DEF FrameOK, Grows, EventKinds
<1>7. Moves(w)
  BY MovesAlone
<1> QED
  BY <1>1, <1>2, <1>3, <1>5, <1>6, <1>7 DEF FrameOK, IsAt, EventKinds, Placed

(* What every request has read stays true when one moves on to a true      *)
(* frame and only what grows has grown.                                    *)
LEMMA FramesStay ==
    ASSUME Inv, Grows, NEW w \in Workers, Moves(w), FrameOK(w)'
    PROVE  FramesOK'
<1>1. ASSUME NEW v \in Workers
      PROVE  FrameOK(v)'
  <2>1. CASE v = w
    BY <2>1
  <2>2. CASE v # w
    BY <2>2, OtherFrame DEF Moves
  <2> QED
    BY <2>1, <2>2
<1> QED
  BY <1>1 DEF FramesOK

(* A step that writes neither rows nor what Razorpay knows.                *)
LEMMA QuietStep ==
    ASSUME Inv, NEW w \in Workers, Moves(w), FrameOK(w)',
           UNCHANGED <<order, payment, delivery, claims, rzpOwner, offered, attempt, sent>>
    PROVE  Parts'
<1>1. Grows
  BY DEF Grows, Placed
<1>2. RowsOK'
  BY <1>1, OtherRow DEF RowsOK
<1> QED
  BY <1>1, <1>2, GatewayStays, FramesStay DEF Parts

(* A step that rewrites the rows of one order.                             *)
LEMMA RowStep ==
    ASSUME Inv, Grows, NEW w \in Workers, NEW o \in Orders, Moves(w), FrameOK(w)', RowOK(o)',
           \A q \in Orders \ {o} : order'[q] = order[q] /\ payment'[q] = payment[q]
                                      /\ delivery'[q] = delivery[q]
    PROVE  RowsOK' /\ FramesOK'
<1>1. ASSUME NEW q \in Orders
      PROVE  RowOK(q)'
  <2>1. CASE q = o
    BY <2>1
  <2>2. CASE q # o
    BY <2>2, OtherRow
  <2> QED
    BY <2>1, <2>2
<1> QED
  BY <1>1, FramesStay DEF RowsOK

(* What a handler may assume of its order once it knows it.                *)
LEMMA FrameRow ==
    ASSUME Inv, NEW w \in Workers, call[w].op # "idle", ~Searching(w)
    PROVE  \E o \in Orders :
              /\ o = call[w].order /\ Placed(o) /\ FrameOK(w) /\ RowOK(o)
              /\ order[o] \in OrderRow /\ payment[o] \in PaymentRow
BY FrameFacts, TypeFacts DEF Inv, RowsOK, FramesOK, FrameOK

(* Recording a captured attempt, as verify and payment.captured do.        *)
LEMMA MarkedPaid ==
    ASSUME Inv, NEW o \in Orders, Placed(o), NEW p \in Attempts,
           PaidFor(p, o) \/ p \in claims'[o], \A q \in Orders : claims[q] \subseteq claims'[q],
           NEW e, MarkPaid(o, p, e), UNCHANGED <<rzpOwner, attempt>>
    PROVE  Grows /\ RowOK(o)' /\ \A q \in Orders \ {o} : order'[q] = order[q]
              /\ payment'[q] = payment[q] /\ delivery'[q] = delivery[q]
<1>1. order[o] \in OrderRow /\ payment[o] \in PaymentRow /\ RowOK(o)
  BY TypeFacts DEF Inv, RowsOK
<1>2. /\ order'[o].status = "CONFIRMED" /\ order'[o].pay = "PAID"
      /\ order'[o].method = order[o].method
      /\ payment'[o].status = "PAID" /\ payment'[o].payId = p /\ payment'[o].rzp = payment[o].rzp
  BY <1>1, InvType DEF MarkPaid, TypeOK, OrderRow, PaymentRow
<1>3. \A q \in Orders \ {o} : order'[q] = order[q] /\ payment'[q] = payment[q]
                                /\ delivery'[q] = delivery[q]
  BY InvType DEF MarkPaid, TypeOK
<1>4. p # None
  BY NoneAssumption
<1>5. Grows
  BY <1>2, <1>3, <1>4 DEF Grows, Placed
<1>6. Backs(p, o)'
  BY DEF Backs, PaidFor
<1> QED
  BY <1>2, <1>3, <1>4, <1>5, <1>6, WrittenRow

(* verifyPayment notes an attempt that was not made for the order.         *)
LEMMA VerifiedClaims ==
    ASSUME Inv, NEW w \in Workers, VerifyTx(w), NEW o \in Orders, o = call[w].order
    PROVE  /\ call[w].attempt \in Attempts
           /\ \/ PaidFor(call[w].attempt, o) /\ claims' = claims
              \/ /\ ~PaidFor(call[w].attempt, o)
                 /\ claims' = [claims EXCEPT ![o] = @ \cup {call[w].attempt}]
                 /\ \E q \in Orders \ {o} : PaidFor(call[w].attempt, q)
           /\ PaidFor(call[w].attempt, o) \/ call[w].attempt \in claims'[o]
           /\ \A q \in Orders : claims[q] \subseteq claims'[q]
<1> DEFINE p == call[w].attempt
<1>1. claims \in [Orders -> SUBSET Attempts]
  BY InvType DEF TypeOK
<1>2. p \in Attempts /\ attempt[p].outcome = "captured"
  BY DEF Inv, FramesOK, FrameOK, VerifyTx, IsAt
<1>3. attempt[p].rzp \in RzpOrders /\ rzpOwner[attempt[p].rzp] \in Orders
  BY <1>2, TypeFacts
<1>4. PaidFor(p, o) <=> rzpOwner[RzpOf(w)] = o
  BY <1>2, <1>3 DEF PaidFor, RzpOf
<1>5. PaidFor(p, rzpOwner[RzpOf(w)]) /\ rzpOwner[RzpOf(w)] \in Orders
  BY <1>2, <1>3 DEF PaidFor, RzpOf
<1>6. CASE rzpOwner[RzpOf(w)] = o
  <2>1. claims' = claims
    BY <1>1, <1>6 DEF VerifyTx
  <2> QED
    BY <1>2, <1>4, <1>6, <2>1
<1>7. CASE rzpOwner[RzpOf(w)] # o
  <2>1. claims' = [claims EXCEPT ![o] = @ \cup {p}]
    BY <1>7 DEF VerifyTx
  <2>2. p \in claims'[o] /\ \A q \in Orders : claims[q] \subseteq claims'[q]
    BY <1>1, <2>1
  <2>3. \E q \in Orders \ {o} : PaidFor(p, q)
    BY <1>5, <1>7
  <2> QED
    BY <1>2, <1>4, <1>7, <2>1, <2>2, <2>3
<1> QED
  BY <1>6, <1>7

-----------------------------------------------------------------------------
(* Every step keeps the parts of Inv.                                      *)

(* The steps of createOrder and cancelOrder keep the parts of Inv.         *)
LEMMA OrdersStepParts == ASSUME Inv, NEW w \in Workers, OrdersStep(w) PROVE Parts'
<1>1. ASSUME NEW o \in Orders, NEW m \in Methods, PlaceOrder(w, o, m)
      PROVE  Parts'
  <2>1. RowOK(o) /\ payment[o] \in PaymentRow /\ order[o] \in OrderRow
    BY TypeFacts DEF Inv, RowsOK
  <2>2. /\ order'[o].status \in {"PENDING", "CONFIRMED"} /\ order'[o].pay = "PENDING"
        /\ order'[o].method = m
    BY <1>1, InvType DEF PlaceOrder, TypeOK
  <2>3. /\ payment'[o].payId = payment[o].payId /\ payment'[o].rzp = payment[o].rzp
        /\ payment'[o].status \in {"ABSENT", "PENDING"} /\ delivery'[o] \in {delivery[o], "OPEN"}
    BY <1>1, <2>1, InvType DEF PlaceOrder, TypeOK, RowOK, PaymentRow
  <2>4. \A q \in Orders \ {o} : order'[q] = order[q] /\ payment'[q] = payment[q]
                                  /\ delivery'[q] = delivery[q]
    BY <1>1, InvType DEF PlaceOrder, TypeOK
  <2>5. Grows
    BY <1>1, <2>2, <2>3, <2>4 DEF PlaceOrder, Grows, Placed
  <2>6. RowOK(o)'
    BY <1>1, <2>1, <2>2, <2>3, <2>5, WrittenRow DEF PlaceOrder, RowOK
  <2>7. Moves(w) /\ FrameOK(w)'
    <3>1. call'[w] = [Idle EXCEPT !.op = "place", !.pc = "earnings", !.order = o]
      BY <1>1, InvType DEF PlaceOrder, Accept, TypeOK
    <3> QED
      BY <1>1, <2>2, <3>1, MovesAlone
      DEF PlaceOrder, FrameOK, Idle, IsAt, Searching, EventKinds, Assigning, Placed
  <2> QED
    BY <1>1, <2>4, <2>5, <2>6, <2>7, RowStep, GatewayStays DEF PlaceOrder, Parts
<1>2. ASSUME PostEarnings(w)
      PROVE  Parts'
  <2>1. Grows
    BY <1>2 DEF PostEarnings, Grows, Placed
  <2>2. CASE Goto(w, "assign") /\ order[call[w].order].method = "COD"
    BY <1>2, <2>1, <2>2, GotoFrame, QuietStep
    DEF PostEarnings, IsAt, Searching, EventKinds, Labels
  <2>3. CASE Return(w)
    BY <1>2, <2>3, ReturnFrame, QuietStep DEF PostEarnings
  <2> QED
    BY <1>2, <2>2, <2>3 DEF PostEarnings
<1>3. ASSUME NEW o \in Orders, CancelBegin(w, o)
      PROVE  Parts'
  <2>1. call'[w] = [Idle EXCEPT !.op = "cancel", !.pc = "tx", !.order = o,
                                !.sawPaid = (order[o].pay = "PAID")]
    BY <1>3, InvType DEF CancelBegin, Accept, TypeOK
  <2>2. RowOK(o)
    BY DEF Inv, RowsOK
  <2>3. FrameOK(w)'
    BY <1>3, <2>1, <2>2
    DEF CancelBegin, FrameOK, RowOK, Idle, IsAt, Searching, EventKinds, Assigning, Placed
  <2> QED
    BY <1>3, <2>3, MovesAlone, QuietStep DEF CancelBegin
<1>4. ASSUME CancelTx(w)
      PROVE  Parts'
  <2> PICK o \in Orders : o = call[w].order
    BY <1>4, FrameFacts DEF CancelTx, IsAt, EventKinds, Searching
  <2>1. /\ order[o] \in OrderRow /\ payment[o] \in PaymentRow
        /\ RowOK(o) /\ FrameOK(w) /\ Placed(o)
    BY <1>4, FrameFacts, TypeFacts
    DEF CancelTx, IsAt, EventKinds, Searching, Inv, RowsOK, FramesOK, FrameOK
  <2>2. call[w].sawPaid => payment[o].payId # None
    BY <1>4, <2>1 DEF CancelTx, IsAt, FrameOK
  <2>3. /\ order'[o].status = "CANCELLED" /\ order'[o].method = order[o].method
        /\ order'[o].pay = IF call[w].sawPaid THEN "REFUNDED" ELSE order[o].pay
    BY <1>4, <2>1, InvType DEF CancelTx, TypeOK, OrderRow
  <2>4. /\ payment'[o].payId = payment[o].payId /\ payment'[o].rzp = payment[o].rzp
        /\ payment'[o].status \in {payment[o].status, "REFUNDED"}
        /\ payment'[o].status # payment[o].status => call[w].sawPaid
    <3>1. CASE call[w].sawPaid
      BY <1>4, <2>1, <3>1, InvType DEF CancelTx, RefundRows, TypeOK, PaymentRow
    <3>2. CASE ~call[w].sawPaid
      BY <1>4, <3>2 DEF CancelTx
    <3> QED
      BY <3>1, <3>2
  <2>5. \A q \in Orders \ {o} : order'[q] = order[q] /\ payment'[q] = payment[q]
                                  /\ delivery'[q] = delivery[q]
    <3>1. CASE call[w].sawPaid
      BY <1>4, <3>1, InvType DEF CancelTx, RefundRows, TypeOK
    <3>2. CASE ~call[w].sawPaid
      BY <1>4, <3>2, InvType DEF CancelTx, TypeOK
    <3> QED
      BY <3>1, <3>2
  <2>6. Grows
    BY <1>4, <2>1, <2>3, <2>4, <2>5 DEF CancelTx, Grows, Placed
  <2>7. delivery' = delivery
    BY <1>4 DEF CancelTx
  <2>8. RowOK(o)'
    BY <2>1, <2>2, <2>3, <2>4, <2>6, <2>7, WrittenRow DEF RowOK, Placed
  <2>9. Moves(w) /\ FrameOK(w)'
    BY <1>4, <2>6, GotoFrame DEF CancelTx, IsAt, Searching, EventKinds, Labels
  <2> QED
    <3>1. RowsOK' /\ FramesOK'
      BY <2>1, <2>5, <2>6, <2>8, <2>9, RowStep
    <3>2. GatewayOK'
      BY <1>4, <2>6, GatewayStays DEF CancelTx
    <3> QED
      BY <3>1, <3>2 DEF Parts
<1>5. ASSUME CancelReverse(w)
      PROVE  Parts'
  BY <1>5, ReturnFrame, QuietStep DEF CancelReverse
<1>6. ASSUME LoseEarnings(w)
      PROVE  Parts'
  <2>1. Grows
    BY <1>6 DEF LoseEarnings, Grows, Placed
  <2>2. CASE Goto(w, "assign") /\ order[call[w].order].method = "COD"
    BY <1>6, <2>1, <2>2, GotoFrame, QuietStep
    DEF LoseEarnings, IsAt, Searching, EventKinds, Labels
  <2>3. CASE Return(w)
    BY <1>6, <2>3, ReturnFrame, QuietStep DEF LoseEarnings
  <2> QED
    BY <1>6, <2>2, <2>3 DEF LoseEarnings
<1> QED
  BY <1>1, <1>2, <1>3, <1>4, <1>5, <1>6 DEF OrdersStep

(* The steps of rider assignment and the confirmation after it keep the    *)
(* parts of Inv.                                                           *)
LEMMA AssignStepParts == ASSUME Inv, NEW w \in Workers, AssignStep(w) PROVE Parts'
<1>1. ASSUME AssignRider(w)
      PROVE  Parts'
  <2>1. PICK o \in Orders : /\ o = call[w].order /\ Placed(o) /\ FrameOK(w) /\ RowOK(o)
                            /\ order[o] \in OrderRow /\ payment[o] \in PaymentRow
    BY <1>1, FrameRow DEF AssignRider, Assigning, Searching
  <2>2. order[o].method = "COD" \/ payment[o].payId # None
    BY <1>1, <2>1 DEF AssignRider, FrameOK
  <2>3. Grows
    BY <1>1 DEF AssignRider, Grows, Placed
  <2>4. \A q \in Orders \ {o} : delivery'[q] = delivery[q]
    BY <1>1, <2>1, InvType DEF AssignRider, TypeOK
  <2>5. RowOK(o)'
    BY <1>1, <2>1, <2>2, <2>3, WrittenRow DEF AssignRider, RowOK, Placed
  <2>6. Moves(w) /\ FrameOK(w)'
    BY <1>1, <2>3, GotoFrame DEF AssignRider, Assigning, Searching, EventKinds, Labels
  <2>7. RowsOK' /\ FramesOK'
    BY <1>1, <2>3, <2>4, <2>5, <2>6, RowStep DEF AssignRider
  <2> QED
    BY <1>1, <2>3, <2>7, GatewayStays DEF AssignRider, Parts
<1>2. ASSUME NoRider(w)
      PROVE  Parts'
  BY <1>2, ReturnFrame, QuietStep DEF NoRider
<1>3. ASSUME ConfirmAssigned(w)
      PROVE  Parts'
  <2>1. PICK o \in Orders : /\ o = call[w].order /\ Placed(o) /\ FrameOK(w) /\ RowOK(o)
                            /\ order[o] \in OrderRow /\ payment[o] \in PaymentRow
    BY <1>3, FrameRow DEF ConfirmAssigned, Assigning, Searching
  <2>2. /\ order'[o].status \in {"PACKED", "CONFIRMED"}
        /\ order'[o].pay = order[o].pay /\ order'[o].method = order[o].method
    BY <1>3, <2>1, InvType DEF ConfirmAssigned, TypeOK, OrderRow
  <2>3. \A q \in Orders \ {o} : order'[q] = order[q]
    BY <1>3, <2>1, InvType DEF ConfirmAssigned, TypeOK
  <2>4. Grows
    BY <1>3, <2>1, <2>2, <2>3 DEF ConfirmAssigned, Grows, Placed
  <2>5. RowOK(o)'
    BY <1>3, <2>1, <2>2, <2>4, WrittenRow DEF ConfirmAssigned, RowOK
  <2>6. RowsOK' /\ FramesOK'
    BY <1>3, <2>3, <2>4, <2>5, ReturnFrame, RowStep DEF ConfirmAssigned
  <2> QED
    BY <1>3, <2>4, <2>6, GatewayStays DEF ConfirmAssigned, Parts
<1> QED
  BY <1>1, <1>2, <1>3 DEF AssignStep

(* The steps of createRazorpayOrder and verifyPayment keep the parts of    *)
(* Inv.                                                                    *)
LEMMA CheckoutStepParts == ASSUME Inv, NEW w \in Workers, CheckoutStep(w) PROVE Parts'
<1>1. ASSUME NEW o \in Orders, CreateBegin(w, o)
      PROVE  Parts'
  <2>1. call'[w] = [Idle EXCEPT !.op = "create", !.pc = "gateway", !.order = o]
    BY <1>1, InvType DEF CreateBegin, Accept, TypeOK
  <2>2. FrameOK(w)'
    BY <1>1, <2>1 DEF CreateBegin, FrameOK, Idle, IsAt, Searching, EventKinds, Assigning, Placed
  <2> QED
    BY <1>1, <2>2, MovesAlone, QuietStep DEF CreateBegin
<1>2. ASSUME NEW r \in RzpOrders, CreateAtGateway(w, r)
      PROVE  Parts'
  <2>1. PICK o \in Orders : /\ o = call[w].order /\ Placed(o) /\ FrameOK(w) /\ RowOK(o)
                            /\ order[o] \in OrderRow /\ payment[o] \in PaymentRow
    BY <1>2, FrameRow DEF CreateAtGateway, IsAt, Searching, EventKinds
  <2>2. rzpOwner'[r] = o /\ \A s \in RzpOrders \ {r} : rzpOwner'[s] = rzpOwner[s]
    BY <1>2, <2>1, InvType DEF CreateAtGateway, TypeOK
  <2>3. Grows
    BY <1>2, <2>2 DEF CreateAtGateway, Grows, Placed
  <2>4. GatewayOK'
    BY <1>2, <2>1, <2>2, NoneAssumption DEF CreateAtGateway, Inv, GatewayOK, Placed
  <2>5. RowsOK'
    BY <1>2, <2>3, OtherRow DEF CreateAtGateway, RowsOK
  <2>6. call'[w] = [call[w] EXCEPT !.pc = "upsert", !.rzp = r]
    BY <1>2, InvType DEF CreateAtGateway, TypeOK
  <2>7. call[w] \in Calls
    BY TypeFacts
  <2>8. FrameOK(w)'
    BY <1>2, <2>1, <2>2, <2>6, <2>7
    DEF CreateAtGateway, FrameOK, Calls, IsAt, Searching, EventKinds, Assigning, Placed
  <2>9. Moves(w)
    BY <1>2, InvType DEF CreateAtGateway, Moves, TypeOK
  <2> QED
    BY <2>3, <2>4, <2>5, <2>8, <2>9, FramesStay DEF Parts
<1>3. ASSUME CreateFails(w)
      PROVE  Parts'
  BY <1>3, ReturnFrame, QuietStep DEF CreateFails
<1>4. ASSUME CreateUpsert(w)
      PROVE  Parts'
  <2>1. PICK o \in Orders : /\ o = call[w].order /\ Placed(o) /\ FrameOK(w) /\ RowOK(o)
                            /\ order[o] \in OrderRow /\ payment[o] \in PaymentRow
    BY <1>4, FrameRow DEF CreateUpsert, IsAt, Searching, EventKinds
  <2>2. call[w].rzp \in RzpOrders /\ rzpOwner[call[w].rzp] = o
    BY <1>4, <2>1 DEF CreateUpsert, IsAt, FrameOK
  <2>3. /\ payment'[o].rzp = call[w].rzp /\ payment'[o].payId = payment[o].payId
        /\ payment'[o].status = IF payment[o].status = "ABSENT" THEN "PENDING" ELSE payment[o].status
    BY <1>4, <2>1, InvType DEF CreateUpsert, TypeOK, PaymentRow
  <2>4. \A q \in Orders \ {o} : payment'[q] = payment[q]
    BY <1>4, <2>1, InvType DEF CreateUpsert, TypeOK
  <2>5. Grows
    BY <1>4, <2>3, <2>4 DEF CreateUpsert, Grows, Placed
  <2>6. RowOK(o)'
    <3>1. order' = order /\ delivery' = delivery
      BY <1>4 DEF CreateUpsert
    <3>2. payment[o].status = "ABSENT" => payment'[o].status = "PENDING"
      BY <2>3
    <3>3. payment[o].status # "ABSENT" => payment'[o].status = payment[o].status
      BY <2>3
    <3> QED
      BY <2>1, <2>2, <2>3, <2>5, <3>1, <3>2, <3>3, WrittenRow DEF RowOK, Placed
  <2>7. RowsOK' /\ FramesOK'
    BY <1>4, <2>4, <2>5, <2>6, ReturnFrame, RowStep DEF CreateUpsert
  <2>8. GatewayOK'
    BY <1>4, <2>2, NoneAssumption DEF CreateUpsert, Inv, GatewayOK, Placed
  <2> QED
    BY <2>7, <2>8 DEF Parts
<1>5. ASSUME NEW p \in Attempts, NEW o \in Orders, VerifyBegin(w, p, o)
      PROVE  Parts'
  <2>1. call'[w] = [Idle EXCEPT !.op = "verify", !.pc = "tx", !.attempt = p, !.order = o]
    BY <1>5, InvType DEF VerifyBegin, Accept, TypeOK
  <2>3. FrameOK(w)'
    BY <1>5, <2>1
    DEF VerifyBegin, FrameOK, Idle, IsAt, Searching, EventKinds, Assigning, Placed
  <2> QED
    BY <1>5, <2>3, MovesAlone, QuietStep DEF VerifyBegin
<1>6. ASSUME VerifyTx(w)
      PROVE  Parts'
  <2>1. PICK o \in Orders : /\ o = call[w].order /\ Placed(o) /\ FrameOK(w) /\ RowOK(o)
                            /\ order[o] \in OrderRow /\ payment[o] \in PaymentRow
    BY <1>6, FrameRow DEF VerifyTx, IsAt, Searching, EventKinds
  <2>2. call[w].attempt \in Attempts /\ MarkPaid(o, call[w].attempt, payment[o].event)
    BY <1>6, <2>1 DEF VerifyTx, IsAt, FrameOK
  <2>6. /\ PaidFor(call[w].attempt, o) \/ call[w].attempt \in claims'[o]
        /\ \A q \in Orders : claims[q] \subseteq claims'[q]
    BY <1>6, <2>1, <2>2, VerifiedClaims
  <2>3. Grows /\ RowOK(o)' /\ \A q \in Orders \ {o} : order'[q] = order[q]
           /\ payment'[q] = payment[q] /\ delivery'[q] = delivery[q]
    BY <1>6, <2>1, <2>2, <2>6, MarkedPaid DEF VerifyTx
  <2>4. Moves(w) /\ FrameOK(w)'
    <3>1. payment'[o].payId # None
      BY <2>1, <2>2, InvType, NoneAssumption DEF MarkPaid, TypeOK, PaymentRow
    <3> QED
      BY <1>6, <2>1, <2>3, <3>1, GotoFrame DEF VerifyTx, IsAt, Searching, EventKinds, Labels
  <2>5. RowsOK' /\ FramesOK'
    BY <2>3, <2>4, RowStep
  <2> QED
    BY <1>6, <2>3, <2>5, GatewayStays DEF VerifyTx, Parts
<1>7. ASSUME VerifyNoRow(w)
      PROVE  Parts'
  BY <1>7, ReturnFrame, QuietStep DEF VerifyNoRow
<1> QED
  BY <1>1, <1>2, <1>3, <1>4, <1>5, <1>6, <1>7 DEF CheckoutStep

(* The steps of payment.captured keep the parts of Inv.                    *)
LEMMA CapturedStepParts == ASSUME Inv, NEW w \in Workers, CapturedStep(w) PROVE Parts'
<1>1. ASSUME CapturedCheckEvent(w)
      PROVE  Parts'
  <2>1. CASE Reply(w)
    BY <1>1, <2>1, ReturnFrame, QuietStep DEF CapturedCheckEvent, Reply
  <2>2. CASE Goto(w, "row") /\ UNCHANGED gateway
    <3>1. /\ call'[w].pc = "row" /\ call'[w].op = "captured"
          /\ call'[w].attempt = call[w].attempt
      BY <1>1, <2>2, TypeFacts, InvType DEF CapturedCheckEvent, IsAt, Goto, TypeOK, Calls
    <3>2. FrameOK(w)
      BY DEF Inv, FramesOK
    <3>3. FrameOK(w)'
      BY <1>1, <2>2, <3>1, <3>2
      DEF CapturedCheckEvent, FrameOK, IsAt, Searching, EventKinds, Assigning
    <3> QED
      BY <1>1, <2>2, <3>3, MovesAlone, QuietStep DEF CapturedCheckEvent
  <2> QED
    BY <1>1, <2>1, <2>2 DEF CapturedCheckEvent
<1>2. ASSUME CapturedNoRow(w)
      PROVE  Parts'
  BY <1>2, ReturnFrame, QuietStep DEF CapturedNoRow, Reply
<1>3. ASSUME NEW o \in Orders, CapturedReadRow(w, o)
      PROVE  Parts'
  <2>1. /\ call'[w].pc \in {"mark", "tx"} /\ call'[w].op = "captured" /\ call'[w].order = o
        /\ call'[w].attempt = call[w].attempt
    BY <1>3, TypeFacts, InvType DEF CapturedReadRow, IsAt, FoundRow, TypeOK, Calls
  <2>2. RowOK(o) /\ FrameOK(w)
    BY DEF Inv, RowsOK, FramesOK
  <2>3. PaidFor(call[w].attempt, o) /\ call[w].attempt \in Attempts
    <3>1. call[w].attempt \in Attempts /\ attempt[call[w].attempt].outcome = "captured"
      BY <1>3, <2>2 DEF CapturedReadRow, IsAt, FrameOK
    <3>2. attempt[call[w].attempt].rzp \in RzpOrders
      BY <3>1, TypeFacts
    <3> QED
      BY <1>3, <2>2, <3>1, <3>2, NoneAssumption DEF CapturedReadRow, RzpOf, RowOK, PaidFor
  <2>4. Placed(o)
    BY <2>3, PaidForPlaced
  <2>5. UNCHANGED <<order, payment, delivery, rzpOwner, offered, attempt, sent>>
    BY <1>3 DEF CapturedReadRow
  <2>6. FrameOK(w)'
    BY <2>1, <2>3, <2>4, <2>5 DEF FrameOK, PaidFor, Placed, IsAt, Searching, EventKinds, Assigning
  <2> QED
    BY <1>3, <2>5, <2>6, MovesAlone, QuietStep DEF CapturedReadRow
<1>4. ASSUME CapturedMark(w)
      PROVE  Parts'
  <2>1. PICK o \in Orders : /\ o = call[w].order /\ Placed(o) /\ FrameOK(w) /\ RowOK(o)
                            /\ order[o] \in OrderRow /\ payment[o] \in PaymentRow
    BY <1>4, FrameRow DEF CapturedMark, IsAt, Searching, EventKinds
  <2>2. /\ payment'[o].payId = payment[o].payId /\ payment'[o].rzp = payment[o].rzp
        /\ payment'[o].status = payment[o].status
    BY <1>4, <2>1, InvType DEF CapturedMark, TypeOK, PaymentRow
  <2>3. \A q \in Orders \ {o} : payment'[q] = payment[q]
    BY <1>4, <2>1, InvType DEF CapturedMark, TypeOK
  <2>4. Grows
    BY <1>4, <2>2, <2>3 DEF CapturedMark, Reply, Grows, Placed
  <2>5. RowOK(o)'
    BY <1>4, <2>1, <2>2, <2>4, WrittenRow DEF CapturedMark, RowOK
  <2>6. RowsOK' /\ FramesOK'
    BY <1>4, <2>3, <2>4, <2>5, ReturnFrame, RowStep DEF CapturedMark, Reply
  <2> QED
    BY <1>4, <2>4, <2>6, GatewayStays DEF CapturedMark, Reply, Parts
<1>5. ASSUME CapturedTx(w)
      PROVE  Parts'
  <2>1. PICK o \in Orders : /\ o = call[w].order /\ Placed(o) /\ FrameOK(w) /\ RowOK(o)
                            /\ order[o] \in OrderRow /\ payment[o] \in PaymentRow
    BY <1>5, FrameRow DEF CapturedTx, IsAt, Searching, EventKinds
  <2>2. PaidFor(call[w].attempt, o) /\ MarkPaid(o, call[w].attempt, ThisEvent(w))
    BY <1>5, <2>1 DEF CapturedTx, FrameOK
  <2>3. Grows /\ RowOK(o)' /\ \A q \in Orders \ {o} : order'[q] = order[q]
           /\ payment'[q] = payment[q] /\ delivery'[q] = delivery[q]
    <3>1. call[w].attempt \in Attempts /\ claims' = claims
      BY <1>5, <2>2 DEF CapturedTx, PaidFor
    <3> QED
      BY <1>5, <2>1, <2>2, <3>1, MarkedPaid DEF CapturedTx
  <2>4. Moves(w) /\ FrameOK(w)'
    BY <1>5, <2>3, GotoFrame DEF CapturedTx, IsAt, Searching, EventKinds, Labels
  <2>5. RowsOK' /\ FramesOK'
    BY <2>3, <2>4, RowStep
  <2> QED
    BY <1>5, <2>3, <2>5, GatewayStays DEF CapturedTx, Parts
<1> QED
  BY <1>1, <1>2, <1>3, <1>4, <1>5 DEF CapturedStep

(* The steps of payment.failed keep the parts of Inv.                      *)
LEMMA FailedStepParts == ASSUME Inv, NEW w \in Workers, FailedStep(w) PROVE Parts'
<1>1. ASSUME FailedSkip(w)
      PROVE  Parts'
  BY <1>1, ReturnFrame, QuietStep DEF FailedSkip, Reply
<1>2. ASSUME NEW o \in Orders, FailedReadRow(w, o)
      PROVE  Parts'
  <2>1. /\ call'[w].pc = "tx" /\ call'[w].op = "failed" /\ call'[w].order = o
        /\ call'[w].attempt = call[w].attempt
    BY <1>2, TypeFacts, InvType DEF FailedReadRow, IsAt, FoundRow, TypeOK, Calls
  <2>2. RowOK(o) /\ FrameOK(w)
    BY DEF Inv, RowsOK, FramesOK
  <2>3. call[w].attempt \in Attempts /\ attempt[call[w].attempt].outcome = "failed"
    BY <1>2, <2>2 DEF FailedReadRow, IsAt, FrameOK
  <2>4. Placed(o)
    <3>1. payment[o].rzp \in RzpOrders
      BY <1>2, <2>3, TypeFacts DEF FailedReadRow, RzpOf
    <3> QED
      BY <2>2, <3>1, NoneAssumption DEF RowOK, Placed
  <2>5. UNCHANGED <<order, payment, delivery, rzpOwner, offered, attempt, sent>>
    BY <1>2 DEF FailedReadRow
  <2>6. FrameOK(w)'
    BY <2>1, <2>3, <2>4, <2>5 DEF FrameOK, Placed, IsAt, Searching, EventKinds, Assigning
  <2> QED
    BY <1>2, <2>5, <2>6, MovesAlone, QuietStep DEF FailedReadRow
<1>3. ASSUME FailedTx(w)
      PROVE  Parts'
  <2>1. PICK o \in Orders : /\ o = call[w].order /\ Placed(o) /\ FrameOK(w) /\ RowOK(o)
                            /\ order[o] \in OrderRow /\ payment[o] \in PaymentRow
    BY <1>3, FrameRow DEF FailedTx, IsAt, Searching, EventKinds
  <2>2. /\ order'[o].status = "CANCELLED" /\ order'[o].pay = "FAILED"
        /\ order'[o].method = order[o].method
        /\ payment'[o].status = "FAILED" /\ payment'[o].payId = payment[o].payId
        /\ payment'[o].rzp = payment[o].rzp
    BY <1>3, <2>1, InvType DEF FailedTx, TypeOK, OrderRow, PaymentRow
  <2>3. \A q \in Orders \ {o} : order'[q] = order[q] /\ payment'[q] = payment[q]
    BY <1>3, <2>1, InvType DEF FailedTx, TypeOK
  <2>4. Grows
    BY <1>3, <2>2, <2>3 DEF FailedTx, Grows, Placed
  <2>5. RowOK(o)'
    BY <1>3, <2>1, <2>2, <2>4, WrittenRow DEF FailedTx, RowOK
  <2>6. Moves(w) /\ FrameOK(w)'
    BY <1>3, <2>4, GotoFrame DEF FailedTx, IsAt, Searching, EventKinds, Labels
  <2>7. RowsOK' /\ FramesOK'
    BY <1>3, <2>3, <2>4, <2>5, <2>6, RowStep DEF FailedTx
  <2> QED
    BY <1>3, <2>4, <2>7, GatewayStays DEF FailedTx, Parts
<1>4. ASSUME FailedRestore(w)
      PROVE  Parts'
  <2>1. Grows
    BY <1>4 DEF FailedRestore, Grows, Placed
  <2> QED
    BY <1>4, <2>1, GotoFrame, QuietStep DEF FailedRestore, IsAt, Searching, EventKinds, Labels
<1> QED
  BY <1>1, <1>2, <1>3, <1>4 DEF FailedStep

(* The steps of the refund webhook keep the parts of Inv.                  *)
LEMMA RefundedStepParts == ASSUME Inv, NEW w \in Workers, RefundedStep(w) PROVE Parts'
<1>1. ASSUME RefundedNoRow(w)
      PROVE  Parts'
  BY <1>1, ReturnFrame, QuietStep DEF RefundedNoRow, Reply
<1>2. ASSUME NEW o \in Orders, RefundedReadRow(w, o)
      PROVE  Parts'
  <2>1. /\ call'[w].pc = "tx" /\ call'[w].op = "refund" /\ call'[w].order = o
        /\ call'[w].attempt = call[w].attempt
    BY <1>2, TypeFacts, InvType DEF RefundedReadRow, IsAt, FoundRow, TypeOK, Calls
  <2>2. RowOK(o) /\ FrameOK(w)
    BY DEF Inv, RowsOK, FramesOK
  <2>3. call[w].attempt \in Attempts /\ attempt[call[w].attempt].outcome = "captured"
    BY <1>2, <2>2 DEF RefundedReadRow, IsAt, FrameOK
  <2>4. payment[o].payId # None /\ Placed(o)
    <3>1. payment[o].payId # None
      BY <1>2, <2>3, NoneAssumption DEF RefundedReadRow
    <3> QED
      BY <2>2, <3>1 DEF RowOK, Placed
  <2>5. UNCHANGED <<order, payment, delivery, rzpOwner, offered, attempt, sent>>
    BY <1>2 DEF RefundedReadRow
  <2>6. FrameOK(w)'
    BY <2>1, <2>3, <2>4, <2>5 DEF FrameOK, Placed, IsAt, Searching, EventKinds, Assigning
  <2> QED
    BY <1>2, <2>5, <2>6, MovesAlone, QuietStep DEF RefundedReadRow
<1>3. ASSUME RefundedPayment(w)
      PROVE  Parts'
  <2>1. PICK o \in Orders : /\ o = call[w].order /\ Placed(o) /\ FrameOK(w) /\ RowOK(o)
                            /\ order[o] \in OrderRow /\ payment[o] \in PaymentRow
    BY <1>3, FrameRow DEF RefundedPayment, IsAt, Searching, EventKinds
  <2>2. payment[o].payId # None
    BY <1>3, <2>1 DEF RefundedPayment, IsAt, FrameOK, Searching
  <2>3. /\ payment'[o].status = "REFUNDED" /\ payment'[o].payId = payment[o].payId
        /\ payment'[o].rzp = payment[o].rzp
    BY <1>3, <2>1, InvType DEF RefundedPayment, TypeOK, PaymentRow
  <2>4. \A q \in Orders \ {o} : payment'[q] = payment[q]
    BY <1>3, <2>1, InvType DEF RefundedPayment, TypeOK
  <2>5. Grows
    BY <1>3, <2>3, <2>4 DEF RefundedPayment, Grows, Placed
  <2>6. RowOK(o)'
    BY <1>3, <2>1, <2>2, <2>3, <2>5, WrittenRow DEF RefundedPayment, RowOK, Placed
  <2>7. Moves(w) /\ FrameOK(w)'
    BY <1>3, <2>5, GotoFrame DEF RefundedPayment, IsAt, Searching, EventKinds, Labels
  <2>8. RowsOK' /\ FramesOK'
    BY <1>3, <2>4, <2>5, <2>6, <2>7, RowStep DEF RefundedPayment
  <2> QED
    BY <1>3, <2>5, <2>8, GatewayStays DEF RefundedPayment, Parts
<1>4. ASSUME RefundedOrder(w)
      PROVE  Parts'
  <2>1. PICK o \in Orders : /\ o = call[w].order /\ Placed(o) /\ FrameOK(w) /\ RowOK(o)
                            /\ order[o] \in OrderRow /\ payment[o] \in PaymentRow
    BY <1>4, FrameRow DEF RefundedOrder, IsAt, Searching, EventKinds
  <2>2. payment[o].payId # None
    BY <1>4, <2>1 DEF RefundedOrder, IsAt, FrameOK, Searching
  <2>3. /\ order'[o].pay = "REFUNDED" /\ order'[o].status = order[o].status
        /\ order'[o].method = order[o].method
    BY <1>4, <2>1, InvType DEF RefundedOrder, TypeOK, OrderRow
  <2>4. \A q \in Orders \ {o} : order'[q] = order[q]
    BY <1>4, <2>1, InvType DEF RefundedOrder, TypeOK
  <2>5. Grows
    BY <1>4, <2>3, <2>4 DEF RefundedOrder, Reply, Grows, Placed
  <2>6. RowOK(o)'
    BY <1>4, <2>1, <2>2, <2>3, <2>5, WrittenRow DEF RefundedOrder, RowOK, Placed
  <2>7. RowsOK' /\ FramesOK'
    BY <1>4, <2>4, <2>5, <2>6, ReturnFrame, RowStep DEF RefundedOrder, Reply
  <2> QED
    BY <1>4, <2>5, <2>7, GatewayStays DEF RefundedOrder, Reply, Parts
<1> QED
  BY <1>1, <1>2, <1>3, <1>4 DEF RefundedStep

(* Emitting an event about an attempt that ended that way.                 *)
LEMMA EmitGateway ==
    ASSUME Inv, NEW e \in Events, Emit(e),
           attempt'[e.attempt].outcome = (IF e.kind = "failed" THEN "failed" ELSE "captured"),
           Grows
    PROVE  \A f \in Events : sent'[f] > 0 =>
              attempt'[f.attempt].outcome = (IF f.kind = "failed" THEN "failed" ELSE "captured")
<1>1. ASSUME NEW f \in Events, f # e, sent'[f] > 0
      PROVE  attempt'[f.attempt].outcome = (IF f.kind = "failed" THEN "failed" ELSE "captured")
  <2>1. sent'[f] = sent[f]
    BY <1>1, InvType DEF Emit, TypeOK
  <2>2. attempt[f.attempt].outcome = (IF f.kind = "failed" THEN "failed" ELSE "captured")
    BY <1>1, <2>1 DEF Inv, GatewayOK
  <2>3. f.attempt \in Attempts
    BY DEF Events
  <2> QED
    BY <2>2, <2>3 DEF Grows
<1> QED
  BY <1>1

(* The steps of the refund API keep the parts of Inv.                      *)
LEMMA RefundApiStepParts == ASSUME Inv, NEW w \in Workers, RefundApiStep(w) PROVE Parts'
<1>1. ASSUME NEW o \in Orders, RefundApiBegin(w, o)
      PROVE  Parts'
  <2>1. call'[w] = [Idle EXCEPT !.op = "refundApi", !.pc = "gateway", !.order = o,
                                !.attempt = payment[o].payId]
    BY <1>1, InvType DEF RefundApiBegin, Accept, TypeOK
  <2>2. Placed(o) /\ Backs(payment[o].payId, o)
    BY <1>1 DEF RefundApiBegin, Inv, RowsOK, RowOK, Placed
  <2>3. payment[o].payId \in Attempts /\ attempt[payment[o].payId].outcome = "captured"
    BY <2>2, BacksCaptured
  <2>4. FrameOK(w)'
    BY <1>1, <2>1, <2>2, <2>3
    DEF RefundApiBegin, FrameOK, Idle, IsAt, Searching, EventKinds, Assigning, Placed
  <2> QED
    BY <1>1, <2>4, MovesAlone, QuietStep DEF RefundApiBegin
<1>2. ASSUME RefundApiGateway(w)
      PROVE  Parts'
  <2>1. PICK o \in Orders : /\ o = call[w].order /\ Placed(o) /\ FrameOK(w) /\ RowOK(o)
                            /\ order[o] \in OrderRow /\ payment[o] \in PaymentRow
    BY <1>2, FrameRow DEF RefundApiGateway, IsAt, Searching, EventKinds
  <2>2. PICK e \in Events : e = [kind |-> "refund", attempt |-> call[w].attempt] /\ Emit(e)
    BY <1>2, <2>1 DEF RefundApiGateway, IsAt, FrameOK, Events, EventKinds
  <2>3. attempt[e.attempt].outcome = "captured"
    BY <1>2, <2>1, <2>2 DEF RefundApiGateway, IsAt, FrameOK
  <2>4. Grows
    BY <1>2 DEF RefundApiGateway, Grows, Placed
  <2>5. GatewayOK'
    BY <1>2, <2>2, <2>3, <2>4, EmitGateway DEF RefundApiGateway, Inv, GatewayOK, Placed
  <2>6. RowsOK'
    BY <1>2, <2>4, OtherRow DEF RefundApiGateway, RowsOK
  <2>7. Moves(w) /\ FrameOK(w)'
    BY <1>2, <2>4, GotoFrame DEF RefundApiGateway, IsAt, Searching, EventKinds, Labels
  <2> QED
    BY <2>4, <2>5, <2>6, <2>7, FramesStay DEF Parts
<1>3. ASSUME RefundApiFails(w)
      PROVE  Parts'
  BY <1>3, ReturnFrame, QuietStep DEF RefundApiFails
<1>4. ASSUME RefundApiTx(w)
      PROVE  Parts'
  <2>1. PICK o \in Orders : /\ o = call[w].order /\ Placed(o) /\ FrameOK(w) /\ RowOK(o)
                            /\ order[o] \in OrderRow /\ payment[o] \in PaymentRow
    BY <1>4, FrameRow DEF RefundApiTx, IsAt, Searching, EventKinds
  <2>2. payment[o].payId # None
    BY <1>4, <2>1 DEF RefundApiTx, IsAt, FrameOK
  <2>3. /\ order'[o].pay = "REFUNDED" /\ order'[o].status = order[o].status
        /\ order'[o].method = order[o].method
        /\ payment'[o].status = "REFUNDED" /\ payment'[o].payId = payment[o].payId
        /\ payment'[o].rzp = payment[o].rzp
    BY <1>4, <2>1, <2>2, InvType DEF RefundApiTx, RefundRows, TypeOK, OrderRow, PaymentRow, RowOK
  <2>4. \A q \in Orders \ {o} : order'[q] = order[q] /\ payment'[q] = payment[q]
    BY <1>4, <2>1, InvType DEF RefundApiTx, RefundRows, TypeOK
  <2>5. Grows
    BY <1>4, <2>3, <2>4 DEF RefundApiTx, Grows, Placed
  <2>6. RowOK(o)'
    BY <1>4, <2>1, <2>2, <2>3, <2>5, WrittenRow DEF RefundApiTx, RowOK, Placed
  <2>7. RowsOK' /\ FramesOK'
    BY <1>4, <2>4, <2>5, <2>6, ReturnFrame, RowStep DEF RefundApiTx
  <2> QED
    BY <1>4, <2>5, <2>7, GatewayStays DEF RefundApiTx, Parts
<1> QED
  BY <1>1, <1>2, <1>3, <1>4 DEF RefundApiStep

(* Dispatching, the final reply, a webhook's delivery and a crash keep     *)
(* the parts of Inv.                                                       *)
LEMMA RequestParts ==
    ASSUME Inv, NEW w \in Workers
    PROVE  (\E o \in Orders : DispatchBegin(w, o)) \/ NotifyAndReply(w)
              \/ (\E e \in Events : Deliver(w, e)) \/ Crash(w) => Parts'
<1>1. ASSUME NEW o \in Orders, DispatchBegin(w, o)
      PROVE  Parts'
  <2>1. call'[w] = [Idle EXCEPT !.op = "dispatch", !.pc = "assign", !.order = o]
    BY <1>1, InvType DEF DispatchBegin, Accept, TypeOK
  <2>2. RowOK(o)
    BY DEF Inv, RowsOK
  <2>3. FrameOK(w)'
    BY <1>1, <2>1, <2>2
    DEF DispatchBegin, FrameOK, RowOK, Idle, IsAt, Searching, EventKinds, Assigning, Placed
  <2> QED
    BY <1>1, <2>3, MovesAlone, QuietStep DEF DispatchBegin
<1>2. ASSUME NotifyAndReply(w)
      PROVE  Parts'
  BY <1>2, ReturnFrame, QuietStep DEF NotifyAndReply, Reply
<1>3. ASSUME NEW e \in Events, Deliver(w, e)
      PROVE  Parts'
  <2>1. call'[w] = [Idle EXCEPT !.op = e.kind, !.attempt = e.attempt,
                                !.pc = IF e.kind = "captured" THEN "event" ELSE "row"]
    BY <1>3, InvType DEF Deliver, Accept, TypeOK
  <2>2. e.kind \in EventKinds /\ e.attempt \in Attempts
    BY DEF Events
  <2>3. attempt[e.attempt].outcome = (IF e.kind = "failed" THEN "failed" ELSE "captured")
    BY <1>3, InvType, BoundsAssumption DEF Deliver, TypeOK, Inv, GatewayOK
  <2>4. FrameOK(w)'
    BY <1>3, <2>1, <2>2, <2>3
    DEF Deliver, FrameOK, Idle, IsAt, Searching, EventKinds, Assigning
  <2>5. Grows
    BY <1>3 DEF Deliver, Grows, Placed
  <2>6. sent'[e] > 0 => sent[e] > 0
    BY <1>3, InvType, BoundsAssumption DEF Deliver, TypeOK
  <2>7. \A f \in Events \ {e} : sent'[f] = sent[f]
    BY <1>3, InvType DEF Deliver, TypeOK
  <2>8. GatewayOK'
    BY <1>3, <2>6, <2>7 DEF Deliver, Inv, GatewayOK, Placed
  <2>9. RowsOK'
    BY <1>3, <2>5, OtherRow DEF Deliver, RowsOK
  <2> QED
    BY <1>3, <2>4, <2>5, <2>8, <2>9, MovesAlone, FramesStay DEF Deliver, Parts
<1>4. ASSUME Crash(w)
      PROVE  Parts'
  BY <1>4, ReturnFrame, QuietStep DEF Crash
<1> QED
  BY <1>1, <1>2, <1>3, <1>4

(* Razorpay's own steps and the admin's status override keep the parts of  *)
(* Inv.                                                                    *)
LEMMA WorldParts ==
    ASSUME Inv
    PROVE  GatewayStep \/ (\E o \in Orders, s \in OrderStatus : AdminSetStatus(o, s)) => Parts'
<1>1. ASSUME NEW p \in Attempts, NEW r \in RzpOrders, NEW k \in {"captured", "failed"}, Pay(p, r, k)
      PROVE  Parts'
  <2>1. /\ attempt'[p] = [rzp |-> r, outcome |-> k]
        /\ \A q \in Attempts \ {p} : attempt'[q] = attempt[q]
    BY <1>1, InvType DEF Pay, TypeOK
  <2>2. Grows
    BY <1>1, <2>1 DEF Pay, Grows, Placed
  <2>3. rzpOwner[r] # None
    BY <1>1 DEF Pay, Inv, GatewayOK
  <2>4. PICK e \in Events : e = [kind |-> k, attempt |-> p] /\ Emit(e)
    BY <1>1 DEF Pay, Events, EventKinds
  <2>5. attempt'[e.attempt].outcome = (IF e.kind = "failed" THEN "failed" ELSE "captured")
    BY <2>1, <2>4
  <2>6. GatewayOK'
    <3>1. \A q \in Attempts : attempt'[q].outcome # "none" =>
             attempt'[q].rzp \in RzpOrders /\ rzpOwner[attempt'[q].rzp] # None
      BY <2>1, <2>3 DEF Inv, GatewayOK
    <3>2. \A f \in Events : sent'[f] > 0 =>
             attempt'[f.attempt].outcome = (IF f.kind = "failed" THEN "failed" ELSE "captured")
      BY <2>2, <2>4, <2>5, EmitGateway
    <3>3. UNCHANGED <<order, rzpOwner, offered>>
      BY <1>1 DEF Pay
    <3> QED
      BY <3>1, <3>2, <3>3 DEF Inv, GatewayOK, Placed
  <2>7. RowsOK'
    BY <1>1, <2>2, OtherRow DEF Pay, RowsOK
  <2>8. FramesOK'
    BY <1>1, <2>2, OtherFrame DEF Pay, FramesOK
  <2> QED
    BY <2>6, <2>7, <2>8 DEF Parts
<1>2. ASSUME NEW p \in Attempts, DashboardRefund(p)
      PROVE  Parts'
  <2>1. PICK e \in Events : e = [kind |-> "refund", attempt |-> p] /\ Emit(e)
    BY <1>2 DEF DashboardRefund, Events, EventKinds
  <2>2. attempt[e.attempt].outcome = "captured"
    BY <1>2, <2>1 DEF DashboardRefund
  <2>3. Grows
    BY <1>2 DEF DashboardRefund, Grows, Placed
  <2>4. GatewayOK'
    BY <1>2, <2>1, <2>2, <2>3, EmitGateway DEF DashboardRefund, Inv, GatewayOK, Placed
  <2>5. RowsOK'
    BY <1>2, <2>3, OtherRow DEF DashboardRefund, RowsOK
  <2>6. FramesOK'
    BY <1>2, <2>3, OtherFrame DEF DashboardRefund, FramesOK
  <2> QED
    BY <2>4, <2>5, <2>6 DEF Parts
<1>3. ASSUME NEW o \in Orders, NEW s \in OrderStatus, AdminSetStatus(o, s)
      PROVE  Parts'
  <2>1. order[o] \in OrderRow /\ RowOK(o) /\ order[o].status # "ABSENT" /\ s # "ABSENT"
    BY <1>3, TypeFacts DEF AdminSetStatus, Inv, RowsOK, OrderStatus
  <2>2. order'[o].status = s /\ order'[o].pay = order[o].pay /\ order'[o].method = order[o].method
    BY <1>3, <2>1, InvType DEF AdminSetStatus, TypeOK, OrderRow
  <2>3. \A q \in Orders \ {o} : order'[q] = order[q]
    BY <1>3, InvType DEF AdminSetStatus, TypeOK
  <2>4. Grows
    BY <1>3, <2>1, <2>2, <2>3 DEF AdminSetStatus, Grows, Placed
  <2>5. RowOK(o)'
    BY <1>3, <2>1, <2>2, <2>4, WrittenRow DEF AdminSetStatus, RowOK
  <2>6. RowsOK'
    BY <1>3, <2>3, <2>4, <2>5, OtherRow DEF AdminSetStatus, RowsOK
  <2>7. FramesOK'
    BY <1>3, <2>4, OtherFrame DEF AdminSetStatus, FramesOK
  <2> QED
    BY <1>3, <2>4, <2>6, <2>7, GatewayStays DEF AdminSetStatus, Parts
<1> QED
  BY <1>1, <1>2, <1>3 DEF GatewayStep

-----------------------------------------------------------------------------
(* What lasts.                                                             *)

RefundOf(p) == [kind |-> "refund", attempt |-> p]

(* A step undoes neither a payment nor what Razorpay has said.             *)
Lasts ==
    /\ \A p \in Attempts, o \in Orders : PaidFor(p, o) => PaidFor(p, o)'
    /\ \A o \in Orders : claims[o] \subseteq claims'[o]
    /\ \A e \in Events : sent[e] > 0 => sent'[e] > 0

LEMMA StillLasts == ASSUME UNCHANGED <<rzpOwner, attempt, sent, claims>> PROVE Lasts
BY DEF Lasts, PaidFor

LEMMA EmitLasts ==
    ASSUME Inv, NEW e \in Events, Emit(e)
    PROVE  \A f \in Events : sent[f] > 0 => sent'[f] > 0
BY InvType DEF Emit, TypeOK

(* Nothing that Razorpay knows is undone.                                  *)
LEMMA LastsNext == ASSUME Inv, Next PROVE Lasts
<1>1. ASSUME NEW w \in Workers, NEW r \in RzpOrders, CreateAtGateway(w, r)
      PROVE  Lasts
  <2>1. rzpOwner[r] = None /\ \A x \in RzpOrders : x # r => rzpOwner'[x] = rzpOwner[x]
    BY <1>1, InvType DEF CreateAtGateway, TypeOK
  <2> QED
    BY <1>1, <2>1, NoneAssumption DEF CreateAtGateway, Lasts, PaidFor
<1>2. ASSUME NEW p \in Attempts, NEW r \in RzpOrders, NEW k \in {"captured", "failed"}, Pay(p, r, k)
      PROVE  Lasts
  <2>1. attempt[p].outcome = "none" /\ \A q \in Attempts : q # p => attempt'[q] = attempt[q]
    BY <1>2, InvType DEF Pay, TypeOK
  <2>2. [kind |-> k, attempt |-> p] \in Events
    BY DEF Events, EventKinds
  <2>3. \A f \in Events : sent[f] > 0 => sent'[f] > 0
    BY <1>2, <2>2, EmitLasts DEF Pay
  <2> QED
    BY <1>2, <2>1, <2>3 DEF Pay, Lasts, PaidFor
<1>3. ASSUME NEW p \in Attempts, Emit(RefundOf(p)), UNCHANGED <<rzpOwner, attempt, claims>>
      PROVE  Lasts
  <2>1. RefundOf(p) \in Events
    BY DEF RefundOf, Events, EventKinds
  <2> QED
    BY <1>3, <2>1, EmitLasts DEF Lasts, PaidFor
<1>4. ASSUME NEW w \in Workers, NEW e \in Events, Deliver(w, e)
      PROVE  Lasts
  BY <1>4, InvType DEF Deliver, Lasts, PaidFor, TypeOK
<1>5. ASSUME NEW w \in Workers, RefundApiStep(w)
      PROVE  Lasts
  <2>1. CASE RefundApiGateway(w)
    <3>1. call[w].attempt \in Attempts
      BY <2>1 DEF RefundApiGateway, IsAt, Inv, FramesOK, FrameOK
    <3> QED
      BY <1>3, <2>1, <3>1 DEF RefundApiGateway, RefundOf
  <2> QED
    BY <1>5, <2>1, StillLasts DEF RefundApiStep, RefundApiBegin, RefundApiFails, RefundApiTx
<1>6. ASSUME NEW w \in Workers, OrdersStep(w) \/ AssignStep(w) \/ FailedStep(w) \/ RefundedStep(w)
      PROVE  Lasts
  BY <1>6, StillLasts
  DEF OrdersStep, PlaceOrder, PostEarnings, CancelBegin, CancelTx, CancelReverse, LoseEarnings,
      AssignStep, AssignRider, NoRider, ConfirmAssigned,
      FailedStep, FailedSkip, FailedReadRow, FailedTx, FailedRestore,
      RefundedStep, RefundedNoRow, RefundedReadRow, RefundedPayment, RefundedOrder, Reply
<1>7. ASSUME NEW w \in Workers, CheckoutStep(w) \/ CapturedStep(w)
      PROVE  Lasts
  <2>1. CASE VerifyTx(w)
    <3>1. \A q \in Orders : claims[q] \subseteq claims'[q]
      BY <2>1, FrameRow, VerifiedClaims DEF VerifyTx, IsAt, Searching, EventKinds
    <3> QED
      BY <2>1, <3>1 DEF VerifyTx, Lasts, PaidFor
  <2> QED
    BY <1>1, <1>7, <2>1, StillLasts
    DEF CheckoutStep, CreateBegin, CreateFails, CreateUpsert, VerifyBegin, VerifyNoRow,
      CapturedStep, CapturedCheckEvent, CapturedNoRow, CapturedReadRow, CapturedMark, CapturedTx, Reply
<1>8. ASSUME NEW w \in Workers, (\E o \in Orders : DispatchBegin(w, o)) \/ NotifyAndReply(w) \/ Crash(w)
      PROVE  Lasts
  BY <1>8, StillLasts DEF DispatchBegin, NotifyAndReply, Crash, Reply
<1>9. ASSUME NEW o \in Orders, NEW s \in OrderStatus, AdminSetStatus(o, s)
      PROVE  Lasts
  BY <1>9, StillLasts DEF AdminSetStatus
<1>10. ASSUME NEW p \in Attempts, DashboardRefund(p)
       PROVE  Lasts
  BY <1>3, <1>10 DEF DashboardRefund, RefundOf
<1> QED
  BY <1>2, <1>4, <1>5, <1>6, <1>7, <1>8, <1>9, <1>10 DEF Next, GatewayStep

(* Only verifyPayment notes an attempt.                                    *)
LEMMA OnlyVerifyClaims ==
    ASSUME Next PROVE claims' = claims \/ \E w \in Workers : VerifyTx(w)
<1>1. ASSUME NEW w \in Workers, OrdersStep(w) \/ AssignStep(w) \/ FailedStep(w) \/ RefundedStep(w)
      PROVE  claims' = claims
  BY <1>1
  DEF OrdersStep, PlaceOrder, PostEarnings, CancelBegin, CancelTx, CancelReverse, LoseEarnings,
      AssignStep, AssignRider, NoRider, ConfirmAssigned,
      FailedStep, FailedSkip, FailedReadRow, FailedTx, FailedRestore,
      RefundedStep, RefundedNoRow, RefundedReadRow, RefundedPayment, RefundedOrder
<1>2. ASSUME NEW w \in Workers, CheckoutStep(w) \/ CapturedStep(w)
      PROVE  claims' = claims \/ VerifyTx(w)
  BY <1>2
  DEF CheckoutStep, CreateBegin, CreateAtGateway, CreateFails, CreateUpsert, VerifyBegin, VerifyNoRow,
      CapturedStep, CapturedCheckEvent, CapturedNoRow, CapturedReadRow, CapturedMark, CapturedTx
<1>3. ASSUME NEW w \in Workers,
             RefundApiStep(w) \/ (\E o \in Orders : DispatchBegin(w, o)) \/ NotifyAndReply(w)
                \/ Crash(w) \/ (\E e \in Events : Deliver(w, e))
      PROVE  claims' = claims
  BY <1>3
  DEF RefundApiStep, RefundApiBegin, RefundApiGateway, RefundApiFails, RefundApiTx,
      DispatchBegin, NotifyAndReply, Crash, Deliver
<1>4. ASSUME GatewayStep \/ (\E o \in Orders, s \in OrderStatus : AdminSetStatus(o, s))
      PROVE  claims' = claims
  BY <1>4 DEF GatewayStep, Pay, DashboardRefund, AdminSetStatus
<1> QED
  BY <1>1, <1>2, <1>3, <1>4 DEF Next

(* What verifyPayment has noted stays an attempt paid for another order.   *)
LEMMA ClaimsNext == ASSUME Inv, Next PROVE ClaimsOK'
<1>0. \A o \in Orders : claims[o] \subseteq Attempts
  BY InvType DEF TypeOK
<1>1. ASSUME NEW o \in Orders, NEW p \in claims[o]
      PROVE  \E q \in Orders \ {o} : PaidFor(p, q)'
  <2>1. PICK q \in Orders \ {o} : PaidFor(p, q)
    BY DEF Inv, ClaimsOK
  <2>2. p \in Attempts
    BY <2>1 DEF PaidFor
  <2>3. PaidFor(p, q) => PaidFor(p, q)'
    BY <2>2, LastsNext DEF Lasts
  <2> QED
    BY <2>1, <2>3
<1>2. CASE claims' = claims
  BY <1>1, <1>2 DEF ClaimsOK
<1>3. ASSUME NEW w \in Workers, VerifyTx(w)
      PROVE  ClaimsOK'
  <2>1. PICK o \in Orders : o = call[w].order
    BY <1>3, FrameRow DEF VerifyTx, IsAt, Searching, EventKinds
  <2>2. UNCHANGED <<rzpOwner, attempt>> /\ claims \in [Orders -> SUBSET Attempts]
    BY <1>3, InvType DEF VerifyTx, TypeOK
  <2>3. CASE claims' = claims
    BY <1>2, <2>3
  <2>4. CASE claims' # claims
    <3>1. PICK a \in Attempts : /\ claims' = [claims EXCEPT ![o] = @ \cup {a}]
                                /\ \E q \in Orders \ {o} : PaidFor(a, q)
      BY <1>3, <2>1, <2>4, VerifiedClaims
    <3>2. \E q \in Orders \ {o} : PaidFor(a, q)'
      BY <2>2, <3>1 DEF PaidFor
    <3> SUFFICES ASSUME NEW x \in Orders, NEW p \in claims'[x]
                 PROVE  \E q \in Orders \ {x} : PaidFor(p, q)'
      BY DEF ClaimsOK
    <3>3. CASE p \in claims[x]
      BY <1>1, <3>3
    <3>4. CASE p \notin claims[x]
      <4>1. x = o /\ p = a
        BY <2>1, <2>2, <3>1, <3>4
      <4> QED
        BY <3>2, <4>1 DEF PaidFor
    <3> QED
      BY <3>3, <3>4
  <2> QED
    BY <2>3, <2>4
<1> QED
  BY <1>2, <1>3, OnlyVerifyClaims

-----------------------------------------------------------------------------
(* The theorems.                                                           *)

(* Inv holds before the first order.                                       *)
LEMMA InvInit == Init => Inv
<1> SUFFICES ASSUME Init PROVE Inv
  OBVIOUS
<1>1. TypeOK
  BY TypeInit
<1>2. GatewayOK
  BY DEF Init, GatewayOK
<1>3. RowsOK
  BY NoneAssumption DEF Init, RowsOK, RowOK, NoOrder, NoPayment
<1>4. FramesOK
  BY DEF Init, FramesOK, FrameOK, Idle, IsAt, Searching, EventKinds, Assigning
<1>5. ClaimsOK
  BY DEF Init, ClaimsOK
<1> QED
  BY <1>1, <1>2, <1>3, <1>4, <1>5 DEF Inv

(* Every step keeps Inv.                                                   *)
LEMMA InvNext == ASSUME Inv, [Next]_vars PROVE Inv'
<1>1. TypeOK'
  BY NextType
<1>2. CASE UNCHANGED vars
  <2>1. Grows
    BY <1>2 DEF vars, rows, gateway, Grows, Placed
  <2>2. ClaimsOK'
    BY <1>2 DEF vars, rows, gateway, Inv, ClaimsOK, PaidFor
  <2> QED
    BY <1>1, <1>2, <2>1, <2>2, GatewayStays, OtherRow, OtherFrame DEF vars, Inv, RowsOK, FramesOK
<1>3. CASE Next
  <2>1. ASSUME NEW w \in Workers,
               OrdersStep(w) \/ AssignStep(w) \/ CheckoutStep(w) \/ CapturedStep(w)
                  \/ FailedStep(w) \/ RefundedStep(w) \/ RefundApiStep(w)
        PROVE  Parts'
    BY <2>1, OrdersStepParts, AssignStepParts, CheckoutStepParts, CapturedStepParts,
       FailedStepParts, RefundedStepParts, RefundApiStepParts
  <2>2. ASSUME NEW w \in Workers,
               (\E o \in Orders : DispatchBegin(w, o)) \/ NotifyAndReply(w)
                  \/ (\E e \in Events : Deliver(w, e)) \/ Crash(w)
        PROVE  Parts'
    BY <2>2, RequestParts
  <2>3. Parts'
    BY <1>3, <2>1, <2>2, WorldParts DEF Next
  <2> QED
    BY <1>1, <1>3, <2>3, ClaimsNext DEF Parts, Inv
<1> QED
  BY <1>2, <1>3

(* Inv is an invariant: rows, requests in flight and Razorpay agree in     *)
(* every reachable state, whatever is interleaved, lost or repeated.       *)
THEOREM Invariance == Spec => []Inv
<1>1. Init => Inv
  BY InvInit
<1>2. Inv /\ [Next]_vars => Inv'
  BY InvNext
<1> QED
  BY <1>1, <1>2, PTL DEF Spec

(* Every reachable state is well typed.                                    *)
THEOREM TypeCorrect == Spec => []TypeOK
<1>1. Inv => TypeOK
  BY InvType
<1> QED
  BY <1>1, Invariance, PTL

(* A row that says PAID or REFUNDED names an attempt that captured money   *)
(* for that very order, or for another if verifyPayment was told so.       *)
THEOREM PaidIsCaptured == Spec => []MoneyIsReal
<1>1. Inv => MoneyIsReal
  BY DEF Inv, RowsOK, RowOK, MoneyIsReal
<1> QED
  BY <1>1, Invariance, PTL

(* No rider is ever assigned to an order nobody paid, or will pay in cash. *)
THEOREM NoFreeRide == Spec => []DispatchedIsPayable
<1>1. Inv => DispatchedIsPayable
  BY DEF Inv, RowsOK, RowOK, DispatchedIsPayable
<1> QED
  BY <1>1, Invariance, PTL

-----------------------------------------------------------------------------
(* Both rows of an order say the same until Razorpay refunds it.           *)

(* Razorpay told, or is about to tell, that money of order o went back.    *)
Refunding(o) == \E p \in Attempts : Backs(p, o) /\ sent[RefundOf(p)] > 0

Agree(o) == order[o].pay = (IF payment[o].status = "ABSENT" THEN "PENDING" ELSE payment[o].status)

(* What a request that serves refund.created knows.                        *)
Known(w) ==
    call[w].op = "refund" =>
       /\ sent[RefundOf(call[w].attempt)] > 0
       /\ ~Searching(w) => Backs(call[w].attempt, call[w].order)

AgreeInv == \A o \in Orders : Refunding(o) \/ Agree(o)
KnownInv == \A w \in Workers : Known(w)

(* It leaves the rows of each order agreeing, or the order is refunded.    *)
Agrees == \A o \in Orders : Agree(o) => Agree(o)' \/ Refunding(o)

-----------------------------------------------------------------------------
(* What refund.created knows.                                              *)

(* A request that serves no refund does not come to serve one, however it  *)
(* moves on or ends.                                                       *)
LEMMA NoRefund ==
    ASSUME Inv, NEW w \in Workers, NEW x, NEW q,
           \/ Return(w)
           \/ call[w].op # "refund" /\ (Goto(w, x) \/ FoundRow(w, q, x))
    PROVE  Moves(w) /\ Known(w)'
<1>1. call \in [Workers -> Calls] /\ call[w] \in Calls
  BY InvType DEF TypeOK
<1>2. Moves(w)
  BY MovesAlone
<1>3. call'[w].op # "refund"
  <2>1. CASE Return(w)
    BY <1>1, <2>1 DEF Return, Idle
  <2>2. CASE call[w].op # "refund" /\ (Goto(w, x) \/ FoundRow(w, q, x))
    BY <1>1, <2>2 DEF Goto, FoundRow, Calls
  <2> QED
    BY <2>1, <2>2
<1> QED
  BY <1>2, <1>3 DEF Known

(* Nobody forgets, nor learns what is not so.                              *)
LEMMA KnownNext ==
    ASSUME Inv, KnownInv, Next
    PROVE  KnownInv'
<1>1. ASSUME NEW w \in Workers, Moves(w), Known(w)'
      PROVE  KnownInv'
  <2> SUFFICES ASSUME NEW v \in Workers, v # w, call[v].op = "refund" PROVE Known(v)'
    BY <1>1 DEF KnownInv, Moves, Known
  <2>1. call'[v] = call[v] /\ Known(v) /\ FrameOK(v)
    BY <1>1 DEF Moves, KnownInv, Inv, FramesOK
  <2>2. call[v].attempt \in Attempts /\ (~Searching(v) => call[v].order \in Orders)
    BY <2>1 DEF FrameOK, Placed
  <2>3. RefundOf(call[v].attempt) \in Events
    BY <2>2 DEF RefundOf, Events, EventKinds
  <2> QED
    BY <2>1, <2>2, <2>3, LastsNext DEF Known, Lasts, Searching, Backs
<1>2. ASSUME NEW w \in Workers, OrdersStep(w) \/ AssignStep(w) \/ CheckoutStep(w)
      PROVE  Moves(w) /\ Known(w)'
  <2>1. CASE OrdersStep(w)
    <3>1. ASSUME NEW o \in Orders, NEW m \in Methods, PlaceOrder(w, o, m) PROVE Moves(w) /\ Known(w)'
      <4>1. Moves(w)
        BY <3>1, MovesAlone DEF PlaceOrder
      <4>2. call'[w].op # "refund"
        BY <3>1, InvType DEF PlaceOrder, Accept, TypeOK, Idle
      <4> QED
        BY <4>1, <4>2 DEF Known
    <3>2. ASSUME NEW o \in Orders, CancelBegin(w, o) PROVE Moves(w) /\ Known(w)'
      <4>1. Moves(w)
        BY <3>2, MovesAlone DEF CancelBegin
      <4>2. call'[w].op # "refund"
        BY <3>2, InvType DEF CancelBegin, Accept, TypeOK, Idle
      <4> QED
        BY <4>1, <4>2 DEF Known
    <3>3. CASE PostEarnings(w) \/ CancelTx(w) \/ CancelReverse(w) \/ LoseEarnings(w)
      BY <3>3, NoRefund DEF PostEarnings, CancelTx, CancelReverse, LoseEarnings, IsAt
    <3> QED
      BY <2>1, <3>1, <3>2, <3>3 DEF OrdersStep
  <2>2. CASE AssignStep(w)
    BY <2>2, NoRefund DEF AssignStep, AssignRider, NoRider, ConfirmAssigned, Assigning
  <2>3. ASSUME NEW r \in RzpOrders, CreateAtGateway(w, r) PROVE Moves(w) /\ Known(w)'
    BY <2>3, InvType DEF CreateAtGateway, IsAt, Moves, Known, TypeOK, Calls
  <2>4. CASE CheckoutStep(w)
    <3>1. ASSUME NEW o \in Orders, CreateBegin(w, o) PROVE Moves(w) /\ Known(w)'
      <4>1. Moves(w)
        BY <3>1, MovesAlone DEF CreateBegin
      <4>2. call'[w].op # "refund"
        BY <3>1, InvType DEF CreateBegin, Accept, TypeOK, Idle
      <4> QED
        BY <4>1, <4>2 DEF Known
    <3>2. ASSUME NEW p \in Attempts, NEW o \in Orders, VerifyBegin(w, p, o) PROVE Moves(w) /\ Known(w)'
      <4>1. Moves(w)
        BY <3>2, MovesAlone DEF VerifyBegin
      <4>2. call'[w].op # "refund"
        BY <3>2, InvType DEF VerifyBegin, Accept, TypeOK, Idle
      <4> QED
        BY <4>1, <4>2 DEF Known
    <3>3. CASE CreateFails(w) \/ CreateUpsert(w) \/ VerifyTx(w) \/ VerifyNoRow(w)
      BY <3>3, NoRefund DEF CreateFails, CreateUpsert, VerifyTx, VerifyNoRow, IsAt
    <3> QED
      BY <2>3, <2>4, <3>1, <3>2, <3>3 DEF CheckoutStep
  <2> QED
    BY <1>2, <2>1, <2>2, <2>4
<1>3. ASSUME NEW w \in Workers, CapturedStep(w) \/ FailedStep(w) \/ RefundApiStep(w) \/ NotifyAndReply(w)
      PROVE  Moves(w) /\ Known(w)'
  <2>1. CASE CapturedStep(w)
    BY <2>1, NoRefund
    DEF CapturedStep, CapturedCheckEvent, CapturedNoRow, CapturedReadRow, CapturedMark, CapturedTx, Reply, IsAt
  <2>2. CASE FailedStep(w) \/ NotifyAndReply(w)
    BY <2>2, NoRefund
    DEF FailedStep, FailedSkip, FailedReadRow, FailedTx, FailedRestore, NotifyAndReply, Reply, IsAt
  <2>3. ASSUME NEW o \in Orders, RefundApiBegin(w, o) PROVE Moves(w) /\ Known(w)'
    <3>1. Moves(w)
      BY <2>3, MovesAlone DEF RefundApiBegin
    <3>2. call'[w].op # "refund"
      BY <2>3, InvType DEF RefundApiBegin, Accept, TypeOK, Idle
    <3> QED
      BY <3>1, <3>2 DEF Known
  <2>4. CASE RefundApiStep(w)
    BY <2>3, <2>4, NoRefund DEF RefundApiStep, RefundApiGateway, RefundApiFails, RefundApiTx, IsAt
  <2> QED
    BY <1>3, <2>1, <2>2, <2>4
<1>4. ASSUME NEW w \in Workers, (\E o \in Orders : DispatchBegin(w, o)) \/ Crash(w)
      PROVE  Moves(w) /\ Known(w)'
  <2>1. ASSUME NEW o \in Orders, DispatchBegin(w, o) PROVE Moves(w) /\ Known(w)'
    <3>1. Moves(w)
      BY <2>1, MovesAlone DEF DispatchBegin
    <3>2. call'[w].op # "refund"
      BY <2>1, InvType DEF DispatchBegin, Accept, TypeOK, Idle
    <3> QED
      BY <3>1, <3>2 DEF Known
  <2>2. CASE Crash(w)
    BY <2>2, NoRefund DEF Crash
  <2> QED
    BY <1>4, <2>1, <2>2
<1>5. ASSUME NEW w \in Workers, RefundedStep(w)
      PROVE  Moves(w) /\ Known(w)'
  <2>1. CASE RefundedNoRow(w) \/ RefundedOrder(w)
    BY <2>1, NoRefund DEF RefundedNoRow, RefundedOrder, Reply
  <2>2. Known(w) /\ FrameOK(w) /\ call \in [Workers -> Calls] /\ call[w] \in Calls
    BY InvType DEF KnownInv, Inv, FramesOK, TypeOK
  <2>3. ASSUME NEW o \in Orders, RefundedReadRow(w, o)
        PROVE  Moves(w) /\ Known(w)'
    <3>1. Moves(w)
      BY <2>3, MovesAlone DEF RefundedReadRow
    <3>2. call'[w].attempt = call[w].attempt /\ call'[w].order = o /\ UNCHANGED <<sent, attempt, rzpOwner, claims>>
      BY <2>2, <2>3 DEF RefundedReadRow, FoundRow, Calls
    <3>3. Backs(call[w].attempt, o) /\ sent[RefundOf(call[w].attempt)] > 0
      BY <2>2, <2>3, NoneAssumption DEF RefundedReadRow, IsAt, FrameOK, Inv, RowsOK, RowOK, Known
    <3> QED
      BY <3>1, <3>2, <3>3 DEF Known, Backs, PaidFor
  <2>4. ASSUME RefundedPayment(w)
        PROVE  Moves(w) /\ Known(w)'
    <3>1. Moves(w)
      BY <2>4, MovesAlone DEF RefundedPayment
    <3>2. /\ call'[w].attempt = call[w].attempt /\ call'[w].order = call[w].order
          /\ UNCHANGED <<sent, attempt, rzpOwner, claims>>
      BY <2>2, <2>4 DEF RefundedPayment, Goto, Calls
    <3>3. Backs(call[w].attempt, call[w].order) /\ sent[RefundOf(call[w].attempt)] > 0
      BY <2>2, <2>4 DEF RefundedPayment, IsAt, Searching, Known
    <3> QED
      BY <3>1, <3>2, <3>3 DEF Known, Backs, PaidFor
  <2> QED
    BY <1>5, <2>1, <2>3, <2>4 DEF RefundedStep
<1>6. ASSUME NEW w \in Workers, NEW e \in Events, Deliver(w, e)
      PROVE  Moves(w) /\ Known(w)'
  <2>1. Moves(w)
    BY <1>6, MovesAlone DEF Deliver
  <2>2. /\ call'[w].op = e.kind /\ call'[w].attempt = e.attempt
        /\ e.kind # "captured" => call'[w].pc = "row"
    BY <1>6, InvType DEF Deliver, Accept, TypeOK, Idle
  <2>3. sent'[e] > 0 /\ (e.kind = "refund" => e = RefundOf(e.attempt))
    BY <1>6, InvType DEF Deliver, TypeOK, Events, RefundOf
  <2> QED
    BY <2>1, <2>2, <2>3 DEF Known, Searching, EventKinds
<1>7. ASSUME GatewayStep \/ (\E o \in Orders, s \in OrderStatus : AdminSetStatus(o, s))
      PROVE  KnownInv'
  <2>1. call' = call
    BY <1>7 DEF GatewayStep, Pay, DashboardRefund, AdminSetStatus
  <2>2. \A w \in Workers : call[w].op = "refund" => call[w].attempt \in Attempts
                              /\ (~Searching(w) => call[w].order \in Orders)
    BY DEF Inv, FramesOK, FrameOK, Placed
  <2>3. \A p \in Attempts : RefundOf(p) \in Events
    BY DEF RefundOf, Events, EventKinds
  <2> QED
    BY <2>1, <2>2, <2>3, LastsNext DEF KnownInv, Known, Lasts, Searching, Backs
<1> QED
  BY <1>1, <1>2, <1>3, <1>4, <1>5, <1>6, <1>7 DEF Next

-----------------------------------------------------------------------------
(* The handlers that write a status write both, refund.created apart.      *)

LEMMA UntouchedAgrees == ASSUME UNCHANGED <<order, payment>> PROVE Agrees
BY DEF Agrees, Agree

(* A write of both rows of one order.                                      *)
LEMMA WrittenAgrees ==
    ASSUME NEW o \in Orders, Agree(o) => Agree(o)' \/ Refunding(o),
           \A q \in Orders \ {o} : order'[q] = order[q] /\ payment'[q] = payment[q]
    PROVE  Agrees
BY DEF Agrees, Agree

LEMMA AgreesNext ==
    ASSUME Inv, KnownInv, Next
    PROVE  Agrees
<1> USE InvType DEF TypeOK
<1>1. ASSUME NEW w \in Workers, NEW o \in Orders, NEW m \in Methods, PlaceOrder(w, o, m)
      PROVE  Agrees
  <2>1. payment[o].status = "ABSENT" /\ payment[o] \in PaymentRow
    BY <1>1 DEF PlaceOrder, Inv, RowsOK, RowOK
  <2>2. /\ order'[o].pay = "PENDING" /\ payment'[o].status \in {"ABSENT", "PENDING"}
        /\ \A q \in Orders \ {o} : order'[q] = order[q] /\ payment'[q] = payment[q]
    BY <1>1, <2>1 DEF PlaceOrder, PaymentRow
  <2> QED
    BY <2>2, WrittenAgrees DEF Agree
<1>2. ASSUME NEW w \in Workers, CancelTx(w)
      PROVE  Agrees
  <2>1. PICK o \in Orders : /\ o = call[w].order /\ FrameOK(w) /\ RowOK(o)
                            /\ order[o] \in OrderRow /\ payment[o] \in PaymentRow
    BY <1>2, FrameRow DEF CancelTx, IsAt, Searching, EventKinds
  <2>2. \A q \in Orders \ {o} : order'[q] = order[q] /\ payment'[q] = payment[q]
    BY <1>2, <2>1 DEF CancelTx, RefundRows
  <2>3. CASE call[w].sawPaid
    <3>1. payment[o].status # "ABSENT"
      BY <1>2, <2>1, <2>3 DEF CancelTx, IsAt, FrameOK, RowOK
    <3>2. order'[o].pay = "REFUNDED" /\ payment'[o].status = "REFUNDED"
      BY <1>2, <2>1, <2>3, <3>1 DEF CancelTx, RefundRows, OrderRow, PaymentRow
    <3> QED
      BY <2>2, <3>2, WrittenAgrees DEF Agree
  <2>4. CASE ~call[w].sawPaid
    <3>1. order'[o].pay = order[o].pay /\ payment' = payment
      BY <1>2, <2>1, <2>4 DEF CancelTx, OrderRow
    <3> QED
      BY <2>2, <3>1, WrittenAgrees DEF Agree
  <2> QED
    BY <2>3, <2>4
<1>3. ASSUME NEW o \in Orders, NEW s, order' = [order EXCEPT ![o].status = s], payment' = payment
      PROVE  Agrees
  <2>1. order[o] \in OrderRow
    OBVIOUS
  <2>2. order'[o].pay = order[o].pay
    BY <1>3, <2>1 DEF OrderRow
  <2> QED
    BY <1>3, <2>2, WrittenAgrees DEF Agree
<1>4. ASSUME NEW w \in Workers, ConfirmAssigned(w)
      PROVE  Agrees
  <2>1. PICK o \in Orders : o = call[w].order
    BY <1>4, FrameRow DEF ConfirmAssigned, Assigning, Searching, EventKinds
  <2> QED
    BY <1>3, <1>4, <2>1 DEF ConfirmAssigned
<1>5. ASSUME NEW w \in Workers, CreateUpsert(w)
      PROVE  Agrees
  <2>1. PICK o \in Orders : o = call[w].order /\ payment[o] \in PaymentRow
    BY <1>5, FrameRow DEF CreateUpsert, IsAt, Searching, EventKinds
  <2>2. /\ payment'[o].status = (IF payment[o].status = "ABSENT" THEN "PENDING" ELSE payment[o].status)
        /\ order' = order /\ \A q \in Orders \ {o} : payment'[q] = payment[q]
    BY <1>5, <2>1 DEF CreateUpsert, PaymentRow
  <2> QED
    BY <2>2, WrittenAgrees DEF Agree
<1>6. ASSUME NEW w \in Workers, VerifyTx(w) \/ CapturedTx(w)
      PROVE  Agrees
  <2>1. PICK o \in Orders : /\ o = call[w].order
                            /\ order[o] \in OrderRow /\ payment[o] \in PaymentRow
    BY <1>6, FrameRow DEF VerifyTx, CapturedTx, IsAt, Searching, EventKinds
  <2>2. \E p, e : MarkPaid(o, p, e)
    BY <1>6, <2>1 DEF VerifyTx, CapturedTx
  <2>3. /\ order'[o].pay = "PAID" /\ payment'[o].status = "PAID"
        /\ \A q \in Orders \ {o} : order'[q] = order[q] /\ payment'[q] = payment[q]
    BY <2>1, <2>2 DEF MarkPaid, OrderRow, PaymentRow
  <2> QED
    BY <2>3, WrittenAgrees DEF Agree
<1>7. ASSUME NEW w \in Workers, CapturedMark(w)
      PROVE  Agrees
  <2>1. PICK o \in Orders : o = call[w].order /\ payment[o] \in PaymentRow
    BY <1>7, FrameRow DEF CapturedMark, IsAt, Searching, EventKinds
  <2>2. /\ payment'[o].status = payment[o].status
        /\ order' = order /\ \A q \in Orders \ {o} : payment'[q] = payment[q]
    BY <1>7, <2>1 DEF CapturedMark, PaymentRow
  <2> QED
    BY <2>2, WrittenAgrees DEF Agree
<1>8. ASSUME NEW w \in Workers, FailedTx(w)
      PROVE  Agrees
  <2>1. PICK o \in Orders : /\ o = call[w].order
                            /\ order[o] \in OrderRow /\ payment[o] \in PaymentRow
    BY <1>8, FrameRow DEF FailedTx, IsAt, Searching, EventKinds
  <2>2. /\ order'[o].pay = "FAILED" /\ payment'[o].status = "FAILED"
        /\ \A q \in Orders \ {o} : order'[q] = order[q] /\ payment'[q] = payment[q]
    BY <1>8, <2>1 DEF FailedTx, OrderRow, PaymentRow
  <2> QED
    BY <2>2, WrittenAgrees DEF Agree
<1>9. ASSUME NEW w \in Workers, RefundedPayment(w) \/ RefundedOrder(w)
      PROVE  Agrees
  <2>1. PICK o \in Orders : o = call[w].order /\ FrameOK(w)
    BY <1>9, FrameRow DEF RefundedPayment, RefundedOrder, IsAt, Searching, EventKinds
  <2>2. Refunding(o)
    <3>1. Known(w) /\ call[w].op = "refund" /\ ~Searching(w)
      BY <1>9 DEF KnownInv, RefundedPayment, RefundedOrder, IsAt, Searching
    <3> QED
      BY <2>1, <3>1 DEF Known, FrameOK, Refunding
  <2>3. \A q \in Orders \ {o} : order'[q] = order[q] /\ payment'[q] = payment[q]
    BY <1>9, <2>1 DEF RefundedPayment, RefundedOrder
  <2> QED
    BY <2>2, <2>3, WrittenAgrees
<1>10. ASSUME NEW w \in Workers, RefundApiTx(w)
       PROVE  Agrees
  <2>1. PICK o \in Orders : /\ o = call[w].order /\ FrameOK(w) /\ RowOK(o)
                            /\ order[o] \in OrderRow /\ payment[o] \in PaymentRow
    BY <1>10, FrameRow DEF RefundApiTx, IsAt, Searching, EventKinds
  <2>2. payment[o].status # "ABSENT"
    BY <1>10, <2>1 DEF RefundApiTx, IsAt, FrameOK, RowOK
  <2>3. /\ order'[o].pay = "REFUNDED" /\ payment'[o].status = "REFUNDED"
        /\ \A q \in Orders \ {o} : order'[q] = order[q] /\ payment'[q] = payment[q]
    BY <1>10, <2>1, <2>2 DEF RefundApiTx, RefundRows, OrderRow, PaymentRow
  <2> QED
    BY <2>3, WrittenAgrees DEF Agree
<1>11. ASSUME NEW w \in Workers, OrdersStep(w) \/ AssignStep(w) \/ CheckoutStep(w)
       PROVE  Agrees
  BY <1>1, <1>2, <1>4, <1>5, <1>6, <1>11, UntouchedAgrees
  DEF OrdersStep, PostEarnings, CancelBegin, CancelReverse, LoseEarnings, AssignStep, AssignRider, NoRider,
      CheckoutStep, CreateBegin, CreateAtGateway, CreateFails, VerifyBegin, VerifyNoRow
<1>12. ASSUME NEW w \in Workers, CapturedStep(w) \/ FailedStep(w) \/ NotifyAndReply(w)
       PROVE  Agrees
  BY <1>6, <1>7, <1>8, <1>12, UntouchedAgrees
  DEF CapturedStep, CapturedCheckEvent, CapturedNoRow, CapturedReadRow,
      FailedStep, FailedSkip, FailedReadRow, FailedRestore, NotifyAndReply
<1>13. ASSUME NEW w \in Workers, RefundedStep(w) \/ RefundApiStep(w)
       PROVE  Agrees
  BY <1>9, <1>10, <1>13, UntouchedAgrees
  DEF RefundedStep, RefundedNoRow, RefundedReadRow, RefundApiStep, RefundApiBegin, RefundApiGateway, RefundApiFails
<1>14. ASSUME NEW w \in Workers,
              (\E o \in Orders : DispatchBegin(w, o)) \/ (\E e \in Events : Deliver(w, e)) \/ Crash(w)
       PROVE  Agrees
  BY <1>14, UntouchedAgrees DEF DispatchBegin, Deliver, Crash
<1>15. ASSUME GatewayStep \/ (\E o \in Orders, s \in OrderStatus : AdminSetStatus(o, s))
       PROVE  Agrees
  BY <1>3, <1>15, UntouchedAgrees DEF GatewayStep, Pay, DashboardRefund, AdminSetStatus
<1> QED
  BY <1>11, <1>12, <1>13, <1>14, <1>15 DEF Next

(* Order and Payment row say the same of an order's payment, until         *)
(* Razorpay has sent that money for it went back, or money recorded on it. *)
THEOREM RowsAreAgreed == Spec => []RowsAgree
<1>1. Init => AgreeInv /\ KnownInv
  BY DEF Init, AgreeInv, KnownInv, Agree, Known, NoOrder, NoPayment, Idle
<1>2. ASSUME Inv, AgreeInv, KnownInv, [Next]_vars
      PROVE  AgreeInv' /\ KnownInv'
  <2>1. CASE UNCHANGED vars
    BY <1>2, <2>1 DEF vars, rows, gateway, AgreeInv, KnownInv, Agree, Known, Refunding, Backs, PaidFor, Searching
  <2>2. CASE Next
    <3>1. \A p \in Attempts : RefundOf(p) \in Events
      BY DEF RefundOf, Events, EventKinds
    <3>2. \A o \in Orders : Refunding(o) => Refunding(o)'
      BY <1>2, <2>2, <3>1, LastsNext DEF Lasts, Refunding, Backs
    <3> QED
      BY <1>2, <2>2, <3>2, KnownNext, AgreesNext DEF AgreeInv, Agrees
  <2> QED
    BY <1>2, <2>1, <2>2
<1>3. Inv /\ AgreeInv => RowsAgree
  <2> SUFFICES ASSUME AgreeInv, NEW o \in Orders,
                      \A p \in Attempts : Backs(p, o) => sent[RefundOf(p)] = 0
               PROVE  Agree(o)
    BY DEF RowsAgree, RefundOf, Agree
  <2> QED
    BY DEF AgreeInv, Refunding
<1> QED
  BY <1>1, <1>2, <1>3, Invariance, PTL DEF Spec

-----------------------------------------------------------------------------
(***************************************************************************)
(* How often payment.captured can credit the vendors of an order, and the  *)
(* way a Payment row's status may go.                                      *)
(*                                                                         *)
(* CreditBound is not inductive: a duplicate that read the row before it   *)
(* became PAID still credits later.  CreditsCovered counts these requests  *)
(* (Crediting) against the bound from the moment the row is PAID; when the *)
(* row stops being PAID the bound is paid for by one more demotion.        *)
(***************************************************************************)

(* The requests about to credit.                                           *)

(* The requests that still will credit an order are finitely many: they    *)
(* are workers.                                                            *)
LEMMA CreditingFinite ==
    ASSUME NEW o
    PROVE  /\ IsFiniteSet(Crediting(o)) /\ Cardinality(Crediting(o)) \in Nat
           /\ Cardinality(Workers) \in Nat
           /\ Cardinality(Crediting(o)) <= Cardinality(Workers)
<1>1. Crediting(o) \subseteq Workers
  BY DEF Crediting
<1> QED
  BY <1>1, WorkersAssumption, FS_Subset, FS_CardinalityType

(* The same after a step.                                                  *)
LEMMA CreditingFinite2 ==
    ASSUME NEW o
    PROVE  IsFiniteSet(Crediting(o)') /\ Cardinality(Crediting(o)') \in Nat
              /\ Cardinality(Crediting(o)') <= Cardinality(Workers)
<1>1. Crediting(o)' \subseteq Workers
  BY DEF Crediting
<1> QED
  BY <1>1, WorkersAssumption, FS_Subset, FS_CardinalityType

(* One more round of n credits.                                            *)
LEMMA OneMoreRound ==
    ASSUME NEW n \in Nat, NEW d \in Nat
    PROVE  n * (d + 1) = n * d + n /\ n * d \in Nat
OBVIOUS

(* The order's tallies when a step credits no one.                         *)
Tallied(o) ==
    /\ credits'[o] = credits[o]
    /\ demotions'[o] = IF payment[o].status = "PAID" /\ payment'[o].status # "PAID"
                       THEN demotions[o] + 1 ELSE demotions[o]

(* Without a credit, the cover survives as long as no request joins those  *)
(* about to credit a row that is PAID.                                     *)
LEMMA TalliedCovered ==
    ASSUME Inv, NEW o \in Orders, Covered(o), Tallied(o),
           payment'[o].status = "PAID" => Crediting(o)' \subseteq Crediting(o)
    PROVE  Covered(o)'
<1> DEFINE n == Cardinality(Workers)
           d == demotions[o]
           k == Cardinality(Crediting(o))
<1>1. /\ n \in Nat /\ d \in Nat /\ k \in Nat /\ k <= n
      /\ credits[o] \in Nat /\ n * (d + 1) = n * d + n /\ n * d \in Nat
  BY CreditingFinite, OneMoreRound, InvType DEF TypeOK
<1>2. CASE payment'[o].status = "PAID"
  <2>1. Cardinality(Crediting(o)') \in Nat /\ Cardinality(Crediting(o)') <= k
    BY <1>2, CreditingFinite, FS_Subset, FS_CardinalityType
  <2>2. credits'[o] + Cardinality(Crediting(o)') <= n * (d + 1)
    <3>1. CASE payment[o].status = "PAID"
      BY <1>1, <2>1, <3>1 DEF Covered, Tallied
    <3>2. CASE payment[o].status # "PAID"
      BY <1>1, <2>1, <3>2 DEF Covered, Tallied
    <3> QED
      BY <3>1, <3>2
  <2>3. demotions'[o] = d
    BY <1>2 DEF Tallied
  <2> QED
    BY <1>2, <2>2, <2>3 DEF Covered
<1>3. CASE payment'[o].status # "PAID"
  <2>1. CASE payment[o].status = "PAID"
    <3>1. demotions'[o] = d + 1 /\ credits'[o] = credits[o]
      BY <1>3, <2>1 DEF Tallied
    <3>2. credits[o] + k <= n * (d + 1)
      BY <2>1 DEF Covered
    <3>3. credits'[o] <= n * demotions'[o]
      BY <1>1, <3>1, <3>2
    <3> QED
      BY <1>3, <3>3 DEF Covered
  <2>2. CASE payment[o].status # "PAID"
    BY <1>3, <2>2 DEF Covered, Tallied
  <2> QED
    BY <2>1, <2>2
<1> QED
  BY <1>2, <1>3

-----------------------------------------------------------------------------
(* Requests that do not join those about to credit.                        *)

NoneJoins == \A o \in Orders : Crediting(o)' \subseteq Crediting(o)

(* A request that moves, but not to the transaction of payment.captured,   *)
(* does not join those about to credit.                                    *)
LEMMA OutsideJoinsNone ==
    ASSUME Inv, NEW w \in Workers, Moves(w), call'[w].pc # "tx" \/ call'[w].op # "captured"
    PROVE  NoneJoins
BY DEF NoneJoins, Crediting, IsAt, Moves

(* Nor does one that ends.                                                 *)
LEMMA ReturnJoinsNone == ASSUME Inv, NEW w \in Workers, Return(w) PROVE NoneJoins
<1>1. call'[w] = Idle
  BY InvType DEF Return, TypeOK
<1> QED
  BY <1>1, MovesAlone, OutsideJoinsNone DEF Idle

(* Nor does one that goes on within its handler.                           *)
LEMMA GotoJoinsNone ==
    ASSUME Inv, NEW w \in Workers, NEW pc, Goto(w, pc), pc # "tx" \/ call[w].op # "captured"
    PROVE  NoneJoins
<1>1. call'[w].pc = pc /\ call'[w].op = call[w].op
  BY TypeFacts, InvType DEF Goto, TypeOK, Calls
<1> QED
  BY <1>1, MovesAlone, OutsideJoinsNone

(* Nor does one that begins.                                               *)
LEMMA AcceptJoinsNone ==
    ASSUME Inv, NEW w \in Workers, NEW r, Accept(w, r), r.pc # "tx" \/ r.op # "captured"
    PROVE  NoneJoins
<1>1. call'[w] = r
  BY InvType DEF Accept, TypeOK
<1> QED
  BY <1>1, MovesAlone, OutsideJoinsNone

(* Nor does one that found its row, in another handler.                    *)
LEMMA FoundJoinsNone ==
    ASSUME Inv, NEW w \in Workers, NEW o, NEW pc, FoundRow(w, o, pc), call[w].op # "captured"
    PROVE  NoneJoins
<1>1. call'[w].op = call[w].op
  BY TypeFacts, InvType DEF FoundRow, TypeOK, Calls
<1> QED
  BY <1>1, MovesAlone, OutsideJoinsNone

-----------------------------------------------------------------------------
(* Steps that credit no one.                                               *)

AllTallied == \A o \in Orders : Tallied(o)

(* A step that leaves payment rows and histories alone keeps the tally of  *)
(* every order.                                                            *)
LEMMA UntouchedTallied == ASSUME UNCHANGED <<payment, credits, demotions>> PROVE AllTallied
BY DEF AllTallied, Tallied

(* A write of status s to one row, with its demotion counted.              *)
LEMMA DemotedTallied ==
    ASSUME Inv, NEW o \in Orders, NEW s, Demote(o, s), UNCHANGED credits,
           payment'[o].status = s,
           \A q \in Orders \ {o} : payment'[q] = payment[q]
    PROVE  AllTallied
BY InvType DEF AllTallied, Tallied, Demote, TypeOK

(* A write that cannot take PAID away.                                     *)
LEMMA KeptTallied ==
    ASSUME Inv, NEW o \in Orders, UNCHANGED <<credits, demotions>>,
           payment[o].status = "PAID" => payment'[o].status = "PAID",
           \A q \in Orders \ {o} : payment'[q] = payment[q]
    PROVE  AllTallied
BY DEF AllTallied, Tallied

(* What a step may do to Payment.status.                                   *)
Lawful ==
    \A o \in Orders :
        payment'[o].status # payment[o].status =>
            /\ payment'[o].status = "PENDING" => payment[o].status = "ABSENT"
            /\ payment[o].status = "PENDING" => payment'[o].status # "REFUNDED"

Settled == NoneJoins /\ AllTallied /\ Lawful

(* A step that leaves payment rows and histories alone, and makes no       *)
(* request that will credit, settles.                                      *)
LEMMA UntouchedSettled ==
    ASSUME NoneJoins, UNCHANGED <<payment, credits, demotions>>
    PROVE  Settled
BY UntouchedTallied DEF Settled, Lawful

(* Refunding, as cancelOrder and processRefund do it.                      *)
LEMMA RefundedSettled ==
    ASSUME Inv, NoneJoins, NEW o \in Orders, payment[o].payId # None,
           RefundRows(o), UNCHANGED credits
    PROVE  Settled
<1>1. payment[o] \in PaymentRow /\ payment[o].status \notin {"ABSENT", "PENDING"}
  BY TypeFacts DEF Inv, RowsOK, RowOK
<1>2. payment'[o].status = "REFUNDED" /\ \A q \in Orders \ {o} : payment'[q] = payment[q]
  BY <1>1, InvType DEF RefundRows, TypeOK, PaymentRow
<1>3. AllTallied
  BY <1>2, DemotedTallied DEF RefundRows
<1> QED
  BY <1>1, <1>2, <1>3 DEF Settled, Lawful

(* The steps of createOrder and cancelOrder are settled: they add no       *)
(* credit that a demotion or a request does not account for.               *)
LEMMA OrdersStepSettled == ASSUME Inv, NEW w \in Workers, OrdersStep(w) PROVE Settled
<1>1. ASSUME NEW o \in Orders, NEW m \in Methods, PlaceOrder(w, o, m)
      PROVE  Settled
  <2>1. payment[o].status = "ABSENT"
    BY <1>1 DEF PlaceOrder, Inv, RowsOK, RowOK
  <2>2. payment'[o].status \in {"ABSENT", "PENDING"}
    BY <1>1, <2>1, TypeFacts, InvType DEF PlaceOrder, TypeOK, PaymentRow
  <2>3. \A q \in Orders \ {o} : payment'[q] = payment[q]
    BY <1>1, InvType DEF PlaceOrder, TypeOK
  <2>4. NoneJoins
    BY <1>1, AcceptJoinsNone DEF PlaceOrder, Idle
  <2> QED
    BY <1>1, <2>1, <2>2, <2>3, <2>4, KeptTallied DEF PlaceOrder, Settled, Lawful
<1>2. ASSUME PostEarnings(w)
      PROVE  Settled
  <2>1. NoneJoins
    BY <1>2, GotoJoinsNone, ReturnJoinsNone DEF PostEarnings
  <2> QED
    BY <1>2, <2>1, UntouchedSettled DEF PostEarnings
<1>3. ASSUME NEW o \in Orders, CancelBegin(w, o)
      PROVE  Settled
  BY <1>3, AcceptJoinsNone, UntouchedSettled DEF CancelBegin, Idle
<1>4. ASSUME CancelTx(w)
      PROVE  Settled
  <2>1. PICK o \in Orders : /\ o = call[w].order /\ Placed(o) /\ FrameOK(w) /\ RowOK(o)
                            /\ order[o] \in OrderRow /\ payment[o] \in PaymentRow
    BY <1>4, FrameRow DEF CancelTx, IsAt, Searching, EventKinds
  <2>2. NoneJoins
    BY <1>4, GotoJoinsNone DEF CancelTx
  <2>3. CASE call[w].sawPaid
    <3>1. payment[o].payId # None
      BY <1>4, <2>1, <2>3 DEF CancelTx, IsAt, FrameOK
    <3> QED
      BY <1>4, <2>1, <2>2, <2>3, <3>1, RefundedSettled DEF CancelTx
  <2>4. CASE ~call[w].sawPaid
    BY <1>4, <2>2, <2>4, UntouchedSettled DEF CancelTx
  <2> QED
    BY <2>3, <2>4
<1>5. ASSUME CancelReverse(w)
      PROVE  Settled
  BY <1>5, ReturnJoinsNone, UntouchedSettled DEF CancelReverse
<1>6. ASSUME LoseEarnings(w)
      PROVE  Settled
  <2>1. NoneJoins
    BY <1>6, GotoJoinsNone, ReturnJoinsNone DEF LoseEarnings
  <2> QED
    BY <1>6, <2>1, UntouchedSettled DEF LoseEarnings
<1> QED
  BY <1>1, <1>2, <1>3, <1>4, <1>5, <1>6 DEF OrdersStep

(* The steps of rider assignment and the confirmation after it are         *)
(* settled: they add no credit that a demotion or a request does not       *)
(* account for.                                                            *)
LEMMA AssignStepSettled == ASSUME Inv, NEW w \in Workers, AssignStep(w) PROVE Settled
<1>1. ASSUME AssignRider(w)
      PROVE  Settled
  BY <1>1, GotoJoinsNone, UntouchedSettled DEF AssignRider
<1>2. ASSUME NoRider(w)
      PROVE  Settled
  BY <1>2, ReturnJoinsNone, UntouchedSettled DEF NoRider
<1>3. ASSUME ConfirmAssigned(w)
      PROVE  Settled
  BY <1>3, ReturnJoinsNone, UntouchedSettled DEF ConfirmAssigned
<1> QED
  BY <1>1, <1>2, <1>3 DEF AssignStep

(* The steps of createRazorpayOrder and verifyPayment are settled: they    *)
(* add no credit that a demotion or a request does not account for.        *)
LEMMA CheckoutStepSettled == ASSUME Inv, NEW w \in Workers, CheckoutStep(w) PROVE Settled
<1>1. ASSUME NEW o \in Orders, CreateBegin(w, o)
      PROVE  Settled
  BY <1>1, AcceptJoinsNone, UntouchedSettled DEF CreateBegin, Idle
<1>2. ASSUME NEW r \in RzpOrders, CreateAtGateway(w, r)
      PROVE  Settled
  <2>1. Moves(w) /\ call'[w].pc = "upsert"
    BY <1>2, TypeFacts, InvType DEF CreateAtGateway, Moves, TypeOK, Calls
  <2> QED
    BY <1>2, <2>1, OutsideJoinsNone, UntouchedSettled DEF CreateAtGateway
<1>3. ASSUME CreateFails(w)
      PROVE  Settled
  BY <1>3, ReturnJoinsNone, UntouchedSettled DEF CreateFails
<1>4. ASSUME CreateUpsert(w)
      PROVE  Settled
  <2>1. PICK o \in Orders : o = call[w].order /\ payment[o] \in PaymentRow
    BY <1>4, FrameRow DEF CreateUpsert, IsAt, Searching, EventKinds
  <2>2. payment'[o].status = IF payment[o].status = "ABSENT" THEN "PENDING" ELSE payment[o].status
    BY <1>4, <2>1, InvType DEF CreateUpsert, TypeOK, PaymentRow
  <2>3. \A q \in Orders \ {o} : payment'[q] = payment[q]
    BY <1>4, <2>1, InvType DEF CreateUpsert, TypeOK
  <2>4. NoneJoins
    BY <1>4, ReturnJoinsNone DEF CreateUpsert
  <2> QED
    BY <1>4, <2>2, <2>3, <2>4, KeptTallied DEF CreateUpsert, Settled, Lawful
<1>5. ASSUME NEW p \in Attempts, NEW o \in Orders, VerifyBegin(w, p, o)
      PROVE  Settled
  BY <1>5, AcceptJoinsNone, UntouchedSettled DEF VerifyBegin, Idle
<1>6. ASSUME VerifyTx(w)
      PROVE  Settled
  <2>1. PICK o \in Orders : o = call[w].order /\ payment[o] \in PaymentRow
    BY <1>6, FrameRow DEF VerifyTx, IsAt, Searching, EventKinds
  <2>2. payment'[o].status = "PAID" /\ \A q \in Orders \ {o} : payment'[q] = payment[q]
    BY <1>6, <2>1, InvType DEF VerifyTx, MarkPaid, TypeOK, PaymentRow
  <2>3. NoneJoins
    BY <1>6, GotoJoinsNone DEF VerifyTx
  <2> QED
    BY <1>6, <2>2, <2>3, KeptTallied DEF VerifyTx, Settled, Lawful
<1>7. ASSUME VerifyNoRow(w)
      PROVE  Settled
  BY <1>7, ReturnJoinsNone, UntouchedSettled DEF VerifyNoRow
<1> QED
  BY <1>1, <1>2, <1>3, <1>4, <1>5, <1>6, <1>7 DEF CheckoutStep

(* The steps of payment.failed are settled: they add no credit that a      *)
(* demotion or a request does not account for.                             *)
LEMMA FailedStepSettled == ASSUME Inv, NEW w \in Workers, FailedStep(w) PROVE Settled
<1>1. ASSUME FailedSkip(w)
      PROVE  Settled
  BY <1>1, ReturnJoinsNone, UntouchedSettled DEF FailedSkip, Reply
<1>2. ASSUME NEW o \in Orders, FailedReadRow(w, o)
      PROVE  Settled
  BY <1>2, FoundJoinsNone, UntouchedSettled DEF FailedReadRow, IsAt
<1>3. ASSUME FailedTx(w)
      PROVE  Settled
  <2>1. PICK o \in Orders : o = call[w].order /\ payment[o] \in PaymentRow
    BY <1>3, FrameRow DEF FailedTx, IsAt, Searching, EventKinds
  <2>2. payment'[o].status = "FAILED" /\ \A q \in Orders \ {o} : payment'[q] = payment[q]
    BY <1>3, <2>1, InvType DEF FailedTx, TypeOK, PaymentRow
  <2>3. NoneJoins
    BY <1>3, GotoJoinsNone DEF FailedTx, IsAt
  <2>4. AllTallied
    BY <1>3, <2>1, <2>2, DemotedTallied DEF FailedTx
  <2> QED
    BY <2>2, <2>3, <2>4 DEF Settled, Lawful
<1>4. ASSUME FailedRestore(w)
      PROVE  Settled
  BY <1>4, GotoJoinsNone, UntouchedSettled DEF FailedRestore
<1> QED
  BY <1>1, <1>2, <1>3, <1>4 DEF FailedStep

(* The steps of the refund webhook are settled: they add no credit that a  *)
(* demotion or a request does not account for.                             *)
LEMMA RefundedStepSettled == ASSUME Inv, NEW w \in Workers, RefundedStep(w) PROVE Settled
<1>1. ASSUME RefundedNoRow(w)
      PROVE  Settled
  BY <1>1, ReturnJoinsNone, UntouchedSettled DEF RefundedNoRow, Reply
<1>2. ASSUME NEW o \in Orders, RefundedReadRow(w, o)
      PROVE  Settled
  BY <1>2, FoundJoinsNone, UntouchedSettled DEF RefundedReadRow, IsAt
<1>3. ASSUME RefundedPayment(w)
      PROVE  Settled
  <2>1. PICK o \in Orders : /\ o = call[w].order /\ Placed(o) /\ FrameOK(w) /\ RowOK(o)
                            /\ order[o] \in OrderRow /\ payment[o] \in PaymentRow
    BY <1>3, FrameRow DEF RefundedPayment, IsAt, Searching, EventKinds
  <2>2. payment'[o].status = "REFUNDED" /\ \A q \in Orders \ {o} : payment'[q] = payment[q]
    BY <1>3, <2>1, InvType DEF RefundedPayment, TypeOK, PaymentRow
  <2>3. payment[o].status # "PENDING"
    BY <1>3, <2>1 DEF RefundedPayment, IsAt, FrameOK, RowOK, Searching
  <2>4. NoneJoins
    BY <1>3, GotoJoinsNone DEF RefundedPayment
  <2>5. AllTallied
    BY <1>3, <2>1, <2>2, DemotedTallied DEF RefundedPayment
  <2> QED
    BY <2>2, <2>3, <2>4, <2>5 DEF Settled, Lawful
<1>4. ASSUME RefundedOrder(w)
      PROVE  Settled
  BY <1>4, ReturnJoinsNone, UntouchedSettled DEF RefundedOrder, Reply
<1> QED
  BY <1>1, <1>2, <1>3, <1>4 DEF RefundedStep

(* The steps of the refund API are settled: they add no credit that a      *)
(* demotion or a request does not account for.                             *)
LEMMA RefundApiStepSettled == ASSUME Inv, NEW w \in Workers, RefundApiStep(w) PROVE Settled
<1>1. ASSUME NEW o \in Orders, RefundApiBegin(w, o)
      PROVE  Settled
  BY <1>1, AcceptJoinsNone, UntouchedSettled DEF RefundApiBegin, Idle
<1>2. ASSUME RefundApiGateway(w)
      PROVE  Settled
  BY <1>2, GotoJoinsNone, UntouchedSettled DEF RefundApiGateway, IsAt
<1>3. ASSUME RefundApiFails(w)
      PROVE  Settled
  BY <1>3, ReturnJoinsNone, UntouchedSettled DEF RefundApiFails
<1>4. ASSUME RefundApiTx(w)
      PROVE  Settled
  <2>1. PICK o \in Orders : /\ o = call[w].order /\ Placed(o) /\ FrameOK(w) /\ RowOK(o)
                            /\ order[o] \in OrderRow /\ payment[o] \in PaymentRow
    BY <1>4, FrameRow DEF RefundApiTx, IsAt, Searching, EventKinds
  <2>2. payment[o].payId # None
    BY <1>4, <2>1 DEF RefundApiTx, IsAt, FrameOK
  <2>3. NoneJoins
    BY <1>4, ReturnJoinsNone DEF RefundApiTx
  <2> QED
    BY <1>4, <2>1, <2>2, <2>3, RefundedSettled DEF RefundApiTx
<1> QED
  BY <1>1, <1>2, <1>3, <1>4 DEF RefundApiStep

(* Dispatching, the final reply, a webhook's delivery and a crash are      *)
(* settled.                                                                *)
LEMMA RequestSettled ==
    ASSUME Inv, NEW w \in Workers
    PROVE  (\E o \in Orders : DispatchBegin(w, o)) \/ NotifyAndReply(w)
              \/ (\E e \in Events : Deliver(w, e)) \/ Crash(w) => Settled
<1>1. ASSUME NEW o \in Orders, DispatchBegin(w, o)
      PROVE  Settled
  BY <1>1, AcceptJoinsNone, UntouchedSettled DEF DispatchBegin, Idle
<1>2. ASSUME NotifyAndReply(w)
      PROVE  Settled
  BY <1>2, ReturnJoinsNone, UntouchedSettled DEF NotifyAndReply, Reply
<1>3. ASSUME NEW e \in Events, Deliver(w, e)
      PROVE  Settled
  <2>1. call'[w].pc \in {"event", "row"} /\ Moves(w)
    BY <1>3, MovesAlone, InvType DEF Deliver, Accept, Idle, TypeOK
  <2> QED
    BY <1>3, <2>1, OutsideJoinsNone, UntouchedSettled DEF Deliver
<1>4. ASSUME Crash(w)
      PROVE  Settled
  BY <1>4, ReturnJoinsNone, UntouchedSettled DEF Crash
<1> QED
  BY <1>1, <1>2, <1>3, <1>4

(* Razorpay's own steps and the admin's status override are settled.       *)
LEMMA WorldSettled ==
    ASSUME Inv
    PROVE  GatewayStep \/ (\E o \in Orders, s \in OrderStatus : AdminSetStatus(o, s)) => Settled
<1>1. call' = call => NoneJoins
  BY DEF NoneJoins, Crediting, IsAt
<1> QED
  BY <1>1, UntouchedSettled DEF GatewayStep, Pay, DashboardRefund, AdminSetStatus

-----------------------------------------------------------------------------
(* payment.captured.                                                       *)

(* A settled step keeps the bound on credits.                              *)
LEMMA SettledCovered == ASSUME Inv, CreditsCovered, Settled PROVE CreditsCovered'
BY TalliedCovered DEF CreditsCovered, Settled, AllTallied, NoneJoins

(* Reading a row that is not PAID: one more request may credit it.         *)
LEMMA ReadRowCovered ==
    ASSUME Inv, CreditsCovered, NEW w \in Workers, NEW o \in Orders, CapturedReadRow(w, o)
    PROVE  CreditsCovered' /\ Lawful
<1>1. UNCHANGED <<payment, credits, demotions>>
  BY DEF CapturedReadRow
<1>2. /\ Moves(w) /\ call'[w].order = o
      /\ call'[w].pc = IF payment[o].status = "PAID" THEN "mark" ELSE "tx"
  BY MovesAlone, TypeFacts, InvType DEF CapturedReadRow, FoundRow, TypeOK, Calls
<1>3. ASSUME NEW q \in Orders, payment'[q].status = "PAID"
      PROVE  Crediting(q)' \subseteq Crediting(q)
  BY <1>1, <1>2, <1>3 DEF Crediting, IsAt, Moves
<1>4. AllTallied
  BY <1>1, UntouchedTallied
<1> QED
  BY <1>1, <1>3, <1>4, TalliedCovered DEF CreditsCovered, AllTallied, Lawful

(* The credit itself: the request leaves Crediting(o) as credits[o] grows. *)
LEMMA CreditCovered ==
    ASSUME Inv, CreditsCovered, NEW w \in Workers, CapturedTx(w)
    PROVE  CreditsCovered' /\ Lawful
<1>1. PICK o \in Orders : o = call[w].order /\ payment[o] \in PaymentRow
  BY FrameRow DEF CapturedTx, IsAt, Searching, EventKinds
<1>2. payment'[o].status = "PAID" /\ \A q \in Orders \ {o} : payment'[q] = payment[q]
  BY <1>1, InvType DEF CapturedTx, MarkPaid, TypeOK, PaymentRow
<1>3. /\ credits'[o] = credits[o] + 1 /\ \A q \in Orders \ {o} : credits'[q] = credits[q]
      /\ demotions' = demotions
  BY <1>1, InvType DEF CapturedTx, TypeOK
<1>4. NoneJoins
  BY GotoJoinsNone DEF CapturedTx
<1>5. w \in Crediting(o) /\ w \notin Crediting(o)'
  <2>1. call'[w].pc = "reply"
    BY TypeFacts, InvType DEF CapturedTx, Goto, TypeOK, Calls
  <2> QED
    BY <1>1, <2>1 DEF CapturedTx, Crediting, IsAt
<1>6. Covered(o)'
  <2> DEFINE n == Cardinality(Workers)
             d == demotions[o]
             k == Cardinality(Crediting(o))
  <2>1. /\ n \in Nat /\ d \in Nat /\ k \in Nat /\ k <= n
        /\ credits[o] \in Nat /\ n * (d + 1) = n * d + n /\ n * d \in Nat
    BY CreditingFinite, OneMoreRound, InvType DEF TypeOK
  <2>2. Cardinality(Crediting(o)') \in Nat /\ Cardinality(Crediting(o)') <= k - 1
    <3>1. /\ IsFiniteSet(Crediting(o) \ {w})
          /\ Cardinality(Crediting(o) \ {w}) = k - 1
      BY <1>5, CreditingFinite, FS_RemoveElement
    <3>2. Crediting(o)' \subseteq Crediting(o) \ {w}
      BY <1>4, <1>5 DEF NoneJoins
    <3> QED
      BY <3>1, <3>2, FS_Subset, FS_CardinalityType
  <2>3. credits[o] + k <= n * (d + 1)
    <3>1. CASE payment[o].status = "PAID"
      BY <3>1 DEF CreditsCovered, Covered
    <3>2. CASE payment[o].status # "PAID"
      <4>1. credits[o] <= n * d
        BY <3>2 DEF CreditsCovered, Covered
      <4> QED
        BY <2>1, <4>1
    <3> QED
      BY <3>1, <3>2
  <2>4. credits'[o] + Cardinality(Crediting(o)') <= n * (d + 1)
    BY <1>3, <2>1, <2>2, <2>3
  <2> QED
    BY <1>2, <1>3, <2>4 DEF Covered
<1>7. ASSUME NEW q \in Orders, q # o
      PROVE  Covered(q)'
  <2>1. Tallied(q)
    BY <1>2, <1>3, <1>7 DEF Tallied
  <2>2. Crediting(q)' \subseteq Crediting(q)
    BY <1>4 DEF NoneJoins
  <2> QED
    BY <2>1, <2>2, TalliedCovered DEF CreditsCovered
<1>8. CreditsCovered'
  <2>1. ASSUME NEW q \in Orders
        PROVE  Covered(q)'
    <3>1. CASE q = o
      BY <1>6, <3>1
    <3>2. CASE q # o
      BY <1>7, <3>2
    <3> QED
      BY <3>1, <3>2
  <2> QED
    BY <2>1 DEF CreditsCovered
<1>9. Lawful
  BY <1>2 DEF Lawful
<1> QED
  BY <1>8, <1>9

(* The steps of payment.captured, which do credit, keep the bound too.     *)
LEMMA CapturedStepCovered ==
    ASSUME Inv, CreditsCovered, NEW w \in Workers, CapturedStep(w)
    PROVE  CreditsCovered' /\ Lawful
<1>1. ASSUME CapturedCheckEvent(w)
      PROVE  Settled
  <2>1. NoneJoins
    BY <1>1, GotoJoinsNone, ReturnJoinsNone DEF CapturedCheckEvent, Reply
  <2> QED
    BY <1>1, <2>1, UntouchedSettled DEF CapturedCheckEvent
<1>2. ASSUME CapturedNoRow(w)
      PROVE  Settled
  BY <1>2, ReturnJoinsNone, UntouchedSettled DEF CapturedNoRow, Reply
<1>3. ASSUME CapturedMark(w)
      PROVE  Settled
  <2>1. PICK o \in Orders : o = call[w].order /\ payment[o] \in PaymentRow
    BY <1>3, FrameRow DEF CapturedMark, IsAt, Searching, EventKinds
  <2>2. payment'[o].status = payment[o].status /\ \A q \in Orders \ {o} : payment'[q] = payment[q]
    BY <1>3, <2>1, InvType DEF CapturedMark, TypeOK, PaymentRow
  <2>3. NoneJoins
    BY <1>3, ReturnJoinsNone DEF CapturedMark, Reply
  <2> QED
    BY <1>3, <2>2, <2>3, KeptTallied DEF CapturedMark, Settled, Lawful
<1> QED
  BY <1>1, <1>2, <1>3, SettledCovered, ReadRowCovered, CreditCovered
  DEF CapturedStep, Settled

-----------------------------------------------------------------------------
(* The theorems.                                                           *)

(* The bound holds before the first order.                                 *)
LEMMA CoveredInit == Init => CreditsCovered
<1> SUFFICES ASSUME Init PROVE CreditsCovered
  OBVIOUS
<1>1. Cardinality(Workers) \in Nat
  BY WorkersAssumption, FS_CardinalityType
<1>2. \A o \in Orders : payment[o].status # "PAID" /\ credits[o] = 0 /\ demotions[o] = 0
  BY DEF Init, NoPayment
<1> QED
  BY <1>1, <1>2 DEF CreditsCovered, Covered

(* Every step keeps the bound, and changes Payment.status lawfully.        *)
LEMMA CoveredNext == ASSUME Inv, CreditsCovered, [Next]_vars PROVE CreditsCovered' /\ Lawful
<1>1. CASE UNCHANGED vars
  <2>1. NoneJoins
    BY <1>1 DEF vars, NoneJoins, Crediting, IsAt
  <2> QED
    BY <1>1, <2>1, UntouchedSettled, SettledCovered DEF vars, Settled
<1>2. CASE Next
  <2>1. ASSUME NEW w \in Workers,
               OrdersStep(w) \/ AssignStep(w) \/ CheckoutStep(w)
                  \/ FailedStep(w) \/ RefundedStep(w) \/ RefundApiStep(w)
        PROVE  Settled
    BY <2>1, OrdersStepSettled, AssignStepSettled, CheckoutStepSettled,
       FailedStepSettled, RefundedStepSettled, RefundApiStepSettled
  <2>2. ASSUME NEW w \in Workers,
               (\E o \in Orders : DispatchBegin(w, o)) \/ NotifyAndReply(w)
                  \/ (\E e \in Events : Deliver(w, e)) \/ Crash(w)
        PROVE  Settled
    BY <2>2, RequestSettled
  <2>3. ASSUME NEW w \in Workers, CapturedStep(w)
        PROVE  CreditsCovered' /\ Lawful
    BY <2>3, CapturedStepCovered
  <2>4. Settled => CreditsCovered' /\ Lawful
    BY SettledCovered DEF Settled
  <2> QED
    BY <1>2, <2>1, <2>2, <2>3, <2>4, WorldSettled DEF Next
<1> QED
  BY <1>1, <1>2

(* The cover is an invariant.                                              *)
THEOREM Coverage == Spec => []CreditsCovered
<1>1. Init => CreditsCovered
  BY CoveredInit
<1>2. Inv /\ CreditsCovered /\ [Next]_vars => CreditsCovered'
  BY CoveredNext
<1> QED
  BY <1>1, <1>2, Invariance, PTL DEF Spec

(* payment.captured credits the vendors of an order at most once per       *)
(* request in flight for each time its payment became PAID anew.           *)
THEOREM CreditsAreBounded == Spec => []CreditBound
<1>1. Inv /\ CreditsCovered => CreditBound
  <2> SUFFICES ASSUME Inv, CreditsCovered, NEW o \in Orders
               PROVE  credits[o] <= Cardinality(Workers) * (demotions[o] + 1)
    BY DEF CreditBound
  <2> DEFINE n == Cardinality(Workers)
             d == demotions[o]
             k == Cardinality(Crediting(o))
  <2>1. /\ n \in Nat /\ k \in Nat /\ credits[o] \in Nat
        /\ n * (d + 1) = n * d + n /\ n * d \in Nat
    BY CreditingFinite, OneMoreRound, InvType DEF TypeOK
  <2>2. credits[o] + k <= n * (d + 1) \/ credits[o] <= n * d
    BY DEF CreditsCovered, Covered
  <2> QED
    BY <2>1, <2>2
<1> QED
  BY <1>1, Invariance, Coverage, PTL

(* A Payment row never goes back to PENDING, nor from PENDING straight to  *)
(* REFUNDED.                                                               *)
THEOREM StatusIsLawful == Spec => [][Lawful]_vars
<1>1. Inv /\ CreditsCovered /\ [Next]_vars => [Lawful]_vars
  BY CoveredNext
<1> QED
  BY <1>1, Invariance, Coverage, PTL DEF Spec

-----------------------------------------------------------------------------
(***************************************************************************)
(* Payments implements OrderMoney: each step of the protocol is a step of  *)
(* OrderMoney or changes nothing that can be seen there.  The guards of    *)
(* OrderMoney are not tested by the handlers, which trust what they read   *)
(* earlier; that it still holds is what Inv says of their requests.        *)
(***************************************************************************)

Cash(o) == order[o].status # "ABSENT" /\ order[o].method = "COD"
Riding(o) == delivery[o] = "ASSIGNED"

(* A step that leaves the books, or the whole view, of order o alone.      *)
BooksStay(o) ==
    /\ payment'[o].status = payment[o].status
    /\ payment'[o].payId = payment[o].payId
    /\ order'[o].pay = order[o].pay
HandsStay(o) == (Cash(o)' <=> Cash(o)) /\ (Riding(o)' <=> Riding(o))
Unseen(o) == BooksStay(o) /\ HandsStay(o)
TakenStays == \A p \in Attempts, o \in Orders : PaidFor(p, o)' <=> PaidFor(p, o)

(* What the steps of OrderMoney do to one order, in the rows of Payments.  *)
Opened(o) ==
    /\ payment[o].status = "ABSENT" /\ payment'[o].status = "PENDING"
    /\ payment'[o].payId = payment[o].payId /\ order'[o].pay = order[o].pay
    /\ (Cash(o) => Cash(o)') /\ (Riding(o)' <=> Riding(o))
OnWord(o, p) ==
    /\ \E q \in Orders \ {o} : PaidFor(p, q)
    /\ claims' = [claims EXCEPT ![o] = @ \cup {p}]
Recorded(o) ==
    /\ payment'[o].payId \in Attempts
    /\ (PaidFor(payment'[o].payId, o) /\ claims' = claims) \/ OnWord(o, payment'[o].payId)
    /\ payment'[o].status = "PAID" /\ order'[o].pay = "PAID" /\ HandsStay(o)
Failing(o) ==
    /\ payment'[o].status = "FAILED" /\ order'[o].pay = "FAILED"
    /\ payment'[o].payId = payment[o].payId /\ HandsStay(o)
Returned(o) ==
    /\ payment[o].payId # None /\ payment'[o].payId = payment[o].payId /\ HandsStay(o)
    /\ \/ payment'[o].status = "REFUNDED" /\ order'[o].pay \in {order[o].pay, "REFUNDED"}
       \/ payment'[o].status = payment[o].status /\ order'[o].pay = "REFUNDED"
Handed(o) ==
    /\ Cash(o) \/ payment[o].payId # None
    /\ BooksStay(o) /\ (Cash(o)' <=> Cash(o)) /\ Riding(o)'

Seen(o) == Unseen(o) \/ Opened(o) \/ Recorded(o) \/ Failing(o) \/ Returned(o) \/ Handed(o)

Implements == [Promise!Next]_(Promise!vars)

(* A step that changes the view of no order is a stutter.                  *)
LEMMA StutterStep ==
    ASSUME TakenStays, claims' = claims, \A o \in Orders : Unseen(o)
    PROVE  Implements
BY DEF Implements, TakenStays, Unseen, BooksStay, HandsStay, Cash, Riding, Promise!vars

(* A step that changes the view of one order in one of these ways is a     *)
(* step of OrderMoney.                                                     *)
LEMMA OneOrderStep ==
    ASSUME TakenStays, NEW o \in Orders, Seen(o), claims' = claims \/ Recorded(o),
           \A q \in Orders \ {o} : Unseen(q)
    PROVE  Implements
<1> USE DEF TakenStays, Unseen, BooksStay, HandsStay, Cash, Riding
<1>0. /\ [q \in Orders |-> {p \in Attempts : PaidFor(p, q)}]'
           = [q \in Orders |-> {p \in Attempts : PaidFor(p, q)}]
  OBVIOUS
<1> DEFINE book == [q \in Orders |-> payment[q].status]
           shown == [q \in Orders |-> order[q].pay]
           proof == [q \in Orders |-> payment[q].payId]
           cash == {q \in Orders : Cash(q)}
           riding == {q \in Orders : Riding(q)}
<1>b. \A x : payment'[o].status = x => book' = [book EXCEPT ![o] = x]
  OBVIOUS
<1>s. \A x : order'[o].pay = x => shown' = [shown EXCEPT ![o] = x]
  OBVIOUS
<1>p. \A x : payment'[o].payId = x => proof' = [proof EXCEPT ![o] = x]
  OBVIOUS
<1>k. /\ payment'[o].status = payment[o].status => book' = book
      /\ order'[o].pay = order[o].pay => shown' = shown
      /\ payment'[o].payId = payment[o].payId => proof' = proof
      /\ (Riding(o)' <=> Riding(o)) => riding' = riding
      /\ (Cash(o)' <=> Cash(o)) => cash' = cash
  OBVIOUS
<1>h. HandsStay(o) => cash' = cash /\ riding' = riding
  BY <1>k
<1> HIDE DEF book, shown, proof, cash, riding
<1>1. CASE Unseen(o) /\ claims' = claims
  BY <1>1, StutterStep
<1>2. CASE Opened(o) /\ claims' = claims
  <2>1. cash' \in {cash, cash \cup {o}}
    BY <1>2 DEF Opened, cash
  <2>2. book[o] = "ABSENT"
    BY <1>2 DEF Opened, book
  <2>3. book' = [book EXCEPT ![o] = "PENDING"] /\ shown' = shown /\ proof' = proof /\ riding' = riding
    BY <1>2, <1>b, <1>k DEF Opened
  <2>4. Promise!Open(o)
    BY <1>2, <1>0, <2>1, <2>2, <2>3 DEF Promise!Open, book, shown, proof, cash, riding
  <2> QED
    BY <2>4 DEF Implements, Promise!Next
<1>3. CASE Recorded(o)
  <2>1. PICK p \in Attempts : p = payment'[o].payId
    BY <1>3 DEF Recorded
  <2>2. Promise!Booked(o, p)
    <3>1. /\ book' = [book EXCEPT ![o] = "PAID"] /\ shown' = [shown EXCEPT ![o] = "PAID"]
          /\ proof' = [proof EXCEPT ![o] = p]
      BY <1>3, <2>1, <1>b, <1>s, <1>p DEF Recorded
    <3>2. cash' = cash /\ riding' = riding
      BY <1>3, <1>h DEF Recorded
    <3> QED
      BY <1>0, <3>1, <3>2 DEF Promise!Booked, book, shown, proof, cash, riding
  <2>3. CASE PaidFor(p, o) /\ claims' = claims
    BY <2>2, <2>3 DEF Promise!Record, Promise!Next, Implements
  <2>4. CASE OnWord(o, p)
    BY <2>2, <2>4 DEF OnWord, Promise!RecordOnWord, Promise!Next, Implements
  <2> QED
    BY <1>3, <2>1, <2>3, <2>4 DEF Recorded
<1>4. CASE Failing(o) /\ claims' = claims
  <2>1. /\ book' = [book EXCEPT ![o] = "FAILED"] /\ shown' = [shown EXCEPT ![o] = "FAILED"]
        /\ proof' = proof /\ cash' = cash /\ riding' = riding
    BY <1>4, <1>b, <1>s, <1>k, <1>h DEF Failing
  <2>2. Promise!Fail(o)
    BY <1>4, <1>0, <2>1 DEF Promise!Fail, book, shown, proof, cash, riding
  <2> QED
    BY <2>2 DEF Implements, Promise!Next
<1>5. CASE Returned(o) /\ claims' = claims
  <2>1. proof[o] # None /\ proof' = proof /\ cash' = cash /\ riding' = riding
    BY <1>5, <1>k, <1>h DEF Returned, proof
  <2>2. CASE payment'[o].status = "REFUNDED" /\ order'[o].pay \in {order[o].pay, "REFUNDED"}
    <3>1. /\ book' = [book EXCEPT ![o] = "REFUNDED"]
          /\ shown' \in {shown, [shown EXCEPT ![o] = "REFUNDED"]}
      BY <2>2, <1>b, <1>s, <1>k
    <3>2. Promise!Return(o)
      BY <1>5, <1>0, <2>1, <3>1 DEF Promise!Return, book, shown, proof, cash, riding
    <3> QED
      BY <3>2 DEF Implements, Promise!Next
  <2>3. CASE payment'[o].status = payment[o].status /\ order'[o].pay = "REFUNDED"
    <3>1. book' = book /\ shown' = [shown EXCEPT ![o] = "REFUNDED"]
      BY <2>3, <1>s, <1>k
    <3>2. Promise!ShowReturned(o)
      BY <1>5, <1>0, <2>1, <3>1 DEF Promise!ShowReturned, book, shown, proof, cash, riding
    <3> QED
      BY <3>2 DEF Implements, Promise!Next
  <2> QED
    BY <1>5, <2>2, <2>3 DEF Returned
<1>6. CASE Handed(o) /\ claims' = claims
  <2>1. book' = book /\ shown' = shown /\ proof' = proof /\ cash' = cash
    BY <1>6, <1>k DEF Handed
  <2>2. (o \in cash \/ proof[o] # None) /\ riding' = riding \cup {o}
    BY <1>6 DEF Handed, cash, proof, riding
  <2>3. Promise!HandOver(o)
    BY <1>6, <1>0, <2>1, <2>2 DEF Promise!HandOver, book, shown, proof, cash, riding
  <2> QED
    BY <2>3 DEF Implements, Promise!Next
<1> QED
  BY <1>1, <1>2, <1>3, <1>4, <1>5, <1>6 DEF Seen

-----------------------------------------------------------------------------
(* The steps of the protocol.                                              *)

(* A step that writes neither rows nor what Razorpay took is a stutter.    *)
LEMMA QuietImplements ==
    ASSUME UNCHANGED <<order, payment, claims, rzpOwner, attempt>>,
           \A o \in Orders : Riding(o)' <=> Riding(o)
    PROVE  Implements
BY StutterStep DEF TakenStays, Unseen, BooksStay, HandsStay, Cash, PaidFor

(* Attempts that captured money stay with their orders.                    *)
LEMMA TakenKept == ASSUME UNCHANGED <<rzpOwner, attempt>> PROVE TakenStays
BY DEF TakenStays, PaidFor

(* A row that is not written is not seen to change.                        *)
LEMMA OtherUnseen ==
    ASSUME NEW q \in Orders, order'[q] = order[q], payment'[q] = payment[q], delivery'[q] = delivery[q]
    PROVE  Unseen(q)
BY DEF Unseen, BooksStay, HandsStay, Cash, Riding

(* Recording a captured attempt is seen as Record or as RecordOnWord.      *)
LEMMA MarkImplements ==
    ASSUME Inv, NEW o \in Orders, Placed(o), NEW p \in Attempts,
           (PaidFor(p, o) /\ claims' = claims) \/ OnWord(o, p), NEW e, MarkPaid(o, p, e), UNCHANGED <<rzpOwner, attempt>>
    PROVE  Implements
<1>1. order[o] \in OrderRow /\ payment[o] \in PaymentRow
  BY TypeFacts
<1>2. /\ order'[o].status = "CONFIRMED" /\ order'[o].pay = "PAID"
      /\ order'[o].method = order[o].method
      /\ payment'[o].status = "PAID" /\ payment'[o].payId = p
      /\ Riding(o)' <=> Riding(o)
  BY <1>1, InvType DEF MarkPaid, TypeOK, OrderRow, PaymentRow, Riding
<1>3. Recorded(o)
  BY <1>2 DEF Recorded, HandsStay, Cash, Placed
<1>4. \A q \in Orders \ {o} : Unseen(q)
  BY InvType, OtherUnseen DEF MarkPaid, TypeOK
<1> QED
  BY <1>3, <1>4, TakenKept, OneOrderStep DEF Seen

(* createOrder and cancelOrder.                                            *)
LEMMA OrdersStepImplements == ASSUME Inv, NEW w \in Workers, OrdersStep(w) PROVE Implements
<1>1. ASSUME NEW o \in Orders, NEW m \in Methods, PlaceOrder(w, o, m)
      PROVE  Implements
  <2>1. /\ order[o].status = "ABSENT" /\ order[o].pay = "PENDING" /\ payment[o].status = "ABSENT"
        /\ delivery[o] = "NONE" /\ payment[o] \in PaymentRow
    BY <1>1, TypeFacts DEF PlaceOrder, Inv, RowsOK, RowOK
  <2>2. order'[o].status # "ABSENT" /\ order'[o].pay = "PENDING" /\ order'[o].method = m
    BY <1>1, InvType DEF PlaceOrder, TypeOK
  <2>3. payment'[o].payId = payment[o].payId /\ ~Riding(o) /\ ~Riding(o)'
    BY <1>1, <2>1, InvType DEF PlaceOrder, TypeOK, PaymentRow, Riding
  <2>4. payment'[o].status = IF m = "COD" THEN "PENDING" ELSE "ABSENT"
    BY <1>1, <2>1, InvType DEF PlaceOrder, TypeOK, PaymentRow
  <2>5. \A q \in Orders \ {o} : Unseen(q)
    BY <1>1, OtherUnseen, InvType DEF PlaceOrder, TypeOK
  <2>6. CASE m = "COD"
    <3>1. Opened(o)
      BY <2>1, <2>2, <2>3, <2>4, <2>6 DEF Opened, Cash
    <3> QED
      BY <1>1, <2>5, <3>1, TakenKept, OneOrderStep DEF PlaceOrder, Seen
  <2>7. CASE m # "COD"
    <3>1. Unseen(o)
      BY <2>1, <2>2, <2>3, <2>4, <2>7 DEF Unseen, BooksStay, HandsStay, Cash
    <3> QED
      BY <1>1, <2>5, <3>1, TakenKept, StutterStep DEF PlaceOrder
  <2> QED
    BY <2>6, <2>7
<1>2. ASSUME CancelTx(w)
      PROVE  Implements
  <2>1. PICK o \in Orders : /\ o = call[w].order /\ Placed(o) /\ FrameOK(w) /\ RowOK(o)
                            /\ order[o] \in OrderRow /\ payment[o] \in PaymentRow
    BY <1>2, FrameRow DEF CancelTx, IsAt, Searching, EventKinds
  <2>2. /\ order'[o].status # "ABSENT" /\ order'[o].method = order[o].method
        /\ order'[o].pay = IF call[w].sawPaid THEN "REFUNDED" ELSE order[o].pay
    BY <1>2, <2>1, InvType DEF CancelTx, TypeOK, OrderRow
  <2>3. HandsStay(o)
    BY <1>2, <2>1, <2>2 DEF CancelTx, HandsStay, Cash, Riding, Placed
  <2>4. CASE call[w].sawPaid
    <3>1. payment[o].payId # None /\ payment[o].status # "ABSENT"
      BY <1>2, <2>1, <2>4 DEF CancelTx, IsAt, FrameOK, RowOK
    <3>2. payment' = [payment EXCEPT ![o].status = "REFUNDED"]
      BY <1>2, <2>1, <2>4, <3>1 DEF CancelTx, RefundRows
    <3>3. payment'[o].status = "REFUNDED" /\ payment'[o].payId = payment[o].payId
      BY <2>1, <3>2, InvType DEF TypeOK, PaymentRow
    <3>4. Returned(o)
      BY <2>2, <2>3, <2>4, <3>1, <3>3 DEF Returned
    <3>5. \A q \in Orders \ {o} : Unseen(q)
      BY <1>2, <2>1, <3>2, OtherUnseen, InvType DEF CancelTx, TypeOK
    <3> QED
      BY <1>2, <3>4, <3>5, TakenKept, OneOrderStep DEF CancelTx, Seen
  <2>5. CASE ~call[w].sawPaid
    <3>1. Unseen(o)
      BY <1>2, <2>2, <2>3, <2>5 DEF CancelTx, Unseen, BooksStay
    <3>2. \A q \in Orders \ {o} : Unseen(q)
      BY <1>2, <2>1, <2>5, OtherUnseen, InvType DEF CancelTx, TypeOK
    <3> QED
      BY <1>2, <3>1, <3>2, TakenKept, StutterStep DEF CancelTx
  <2> QED
    BY <2>4, <2>5
<1>3. ASSUME \/ PostEarnings(w) \/ CancelReverse(w) \/ LoseEarnings(w)
             \/ \E o \in Orders : CancelBegin(w, o)
      PROVE  Implements
  BY <1>3, QuietImplements DEF PostEarnings, CancelReverse, LoseEarnings, CancelBegin, Riding
<1> QED
  BY <1>1, <1>2, <1>3 DEF OrdersStep

(* Assigning a rider.                                                      *)
LEMMA AssignStepImplements == ASSUME Inv, NEW w \in Workers, AssignStep(w) PROVE Implements
<1> PICK o \in Orders : /\ o = call[w].order /\ Placed(o) /\ FrameOK(w) /\ RowOK(o)
                        /\ order[o] \in OrderRow /\ payment[o] \in PaymentRow
  BY FrameRow DEF AssignStep, AssignRider, NoRider, ConfirmAssigned, Assigning, Searching, EventKinds
<1>1. ASSUME AssignRider(w)
      PROVE  Implements
  <2>1. Cash(o) \/ payment[o].payId # None
    BY <1>1 DEF AssignRider, FrameOK, Cash, Placed
  <2>2. Riding(o)' /\ \A q \in Orders \ {o} : delivery'[q] = delivery[q]
    BY <1>1, InvType DEF AssignRider, TypeOK, Riding
  <2>3. Handed(o)
    BY <1>1, <2>1, <2>2 DEF AssignRider, Handed, BooksStay, Cash
  <2>4. \A q \in Orders \ {o} : Unseen(q)
    BY <1>1, <2>2, OtherUnseen DEF AssignRider
  <2> QED
    BY <1>1, <2>3, <2>4, TakenKept, OneOrderStep DEF AssignRider, Seen
<1>2. ASSUME ConfirmAssigned(w)
      PROVE  Implements
  <2>1. /\ order'[o].status # "ABSENT" /\ order'[o].pay = order[o].pay
        /\ order'[o].method = order[o].method
    BY <1>2, InvType DEF ConfirmAssigned, TypeOK, OrderRow
  <2>2. Unseen(o)
    BY <1>2, <2>1 DEF ConfirmAssigned, Unseen, BooksStay, HandsStay, Cash, Riding, Placed
  <2>3. \A q \in Orders \ {o} : Unseen(q)
    BY <1>2, OtherUnseen, InvType DEF ConfirmAssigned, TypeOK
  <2> QED
    BY <1>2, <2>2, <2>3, TakenKept, StutterStep DEF ConfirmAssigned
<1>3. ASSUME NoRider(w)
      PROVE  Implements
  BY <1>3, QuietImplements DEF NoRider, Riding
<1> QED
  BY <1>1, <1>2, <1>3 DEF AssignStep

(* createRazorpayOrder and verifyPayment.                                  *)
LEMMA CheckoutStepImplements == ASSUME Inv, NEW w \in Workers, CheckoutStep(w) PROVE Implements
<1>1. ASSUME NEW r \in RzpOrders, CreateAtGateway(w, r)
      PROVE  Implements
  <2>1. \A p \in Attempts : attempt[p].outcome = "captured" => attempt[p].rzp # r
    BY <1>1 DEF CreateAtGateway, Inv, GatewayOK
  <2>2. attempt' = attempt /\ \A s \in RzpOrders \ {r} : rzpOwner'[s] = rzpOwner[s]
    BY <1>1, InvType DEF CreateAtGateway, TypeOK
  <2>3. TakenStays
    BY <2>1, <2>2 DEF TakenStays, PaidFor
  <2>4. \A q \in Orders : Unseen(q)
    BY <1>1, OtherUnseen DEF CreateAtGateway
  <2> QED
    BY <1>1, <2>3, <2>4, StutterStep DEF CreateAtGateway
<1>2. ASSUME CreateUpsert(w)
      PROVE  Implements
  <2>1. PICK o \in Orders : o = call[w].order /\ payment[o] \in PaymentRow
    BY <1>2, FrameRow DEF CreateUpsert, IsAt, Searching, EventKinds
  <2>2. /\ payment'[o].payId = payment[o].payId
        /\ payment'[o].status = IF payment[o].status = "ABSENT" THEN "PENDING" ELSE payment[o].status
    BY <1>2, <2>1, InvType DEF CreateUpsert, TypeOK, PaymentRow
  <2>3. Unseen(o) \/ Opened(o)
    BY <1>2, <2>2 DEF CreateUpsert, Unseen, Opened, BooksStay, HandsStay, Cash, Riding
  <2>4. \A q \in Orders \ {o} : Unseen(q)
    BY <1>2, <2>1, OtherUnseen, InvType DEF CreateUpsert, TypeOK
  <2> QED
    BY <1>2, <2>3, <2>4, TakenKept, OneOrderStep DEF CreateUpsert, Seen
<1>3. ASSUME VerifyTx(w)
      PROVE  Implements
  <2>1. PICK o \in Orders : o = call[w].order /\ Placed(o) /\ FrameOK(w)
    BY <1>3, FrameRow DEF VerifyTx, IsAt, Searching, EventKinds
  <2>2. (PaidFor(call[w].attempt, o) /\ claims' = claims) \/ OnWord(o, call[w].attempt)
    BY <1>3, <2>1, VerifiedClaims DEF OnWord
  <2>3. call[w].attempt \in Attempts
    BY <1>3, <2>1 DEF VerifyTx, IsAt, FrameOK
  <2> QED
    BY <1>3, <2>1, <2>2, <2>3, MarkImplements DEF VerifyTx
<1>4. ASSUME \/ CreateFails(w) \/ VerifyNoRow(w)
             \/ \E o \in Orders : CreateBegin(w, o)
             \/ \E p \in Attempts, o \in Orders : VerifyBegin(w, p, o)
      PROVE  Implements
  BY <1>4, QuietImplements DEF CreateFails, CreateBegin, VerifyBegin, VerifyNoRow, Riding
<1> QED
  BY <1>1, <1>2, <1>3, <1>4 DEF CheckoutStep

(* The webhooks.                                                           *)
LEMMA CapturedStepImplements == ASSUME Inv, NEW w \in Workers, CapturedStep(w) PROVE Implements
<1>1. ASSUME CapturedMark(w)
      PROVE  Implements
  <2>1. PICK o \in Orders : o = call[w].order /\ payment[o] \in PaymentRow
    BY <1>1, FrameRow DEF CapturedMark, IsAt, Searching, EventKinds
  <2>2. payment'[o].payId = payment[o].payId /\ payment'[o].status = payment[o].status
    BY <1>1, <2>1, InvType DEF CapturedMark, TypeOK, PaymentRow
  <2>3. Unseen(o)
    BY <1>1, <2>2 DEF CapturedMark, Unseen, BooksStay, HandsStay, Cash, Riding
  <2>4. \A q \in Orders \ {o} : Unseen(q)
    BY <1>1, <2>1, OtherUnseen, InvType DEF CapturedMark, TypeOK
  <2> QED
    BY <1>1, <2>3, <2>4, TakenKept, StutterStep DEF CapturedMark, Reply
<1>2. ASSUME CapturedTx(w)
      PROVE  Implements
  <2>1. PICK o \in Orders : o = call[w].order /\ Placed(o) /\ FrameOK(w)
    BY <1>2, FrameRow DEF CapturedTx, IsAt, Searching, EventKinds
  <2>2. call[w].attempt \in Attempts /\ PaidFor(call[w].attempt, o)
    BY <1>2, <2>1 DEF CapturedTx, IsAt, FrameOK, PaidFor
  <2> QED
    BY <1>2, <2>1, <2>2, MarkImplements DEF CapturedTx
<1>3. ASSUME \/ CapturedCheckEvent(w) \/ CapturedNoRow(w)
             \/ \E o \in Orders : CapturedReadRow(w, o)
      PROVE  Implements
  BY <1>3, QuietImplements DEF CapturedCheckEvent, CapturedNoRow, CapturedReadRow, Reply, Riding
<1> QED
  BY <1>1, <1>2, <1>3 DEF CapturedStep

LEMMA FailedStepImplements == ASSUME Inv, NEW w \in Workers, FailedStep(w) PROVE Implements
<1>1. ASSUME FailedTx(w)
      PROVE  Implements
  <2>1. PICK o \in Orders : /\ o = call[w].order /\ Placed(o)
                            /\ order[o] \in OrderRow /\ payment[o] \in PaymentRow
    BY <1>1, FrameRow DEF FailedTx, IsAt, Searching, EventKinds
  <2>2. /\ order'[o].status = "CANCELLED" /\ order'[o].pay = "FAILED"
        /\ order'[o].method = order[o].method
        /\ payment'[o].status = "FAILED" /\ payment'[o].payId = payment[o].payId
    BY <1>1, <2>1, InvType DEF FailedTx, TypeOK, OrderRow, PaymentRow
  <2>3. Failing(o)
    BY <1>1, <2>1, <2>2 DEF FailedTx, Failing, HandsStay, Cash, Riding, Placed
  <2>4. \A q \in Orders \ {o} : Unseen(q)
    BY <1>1, <2>1, OtherUnseen, InvType DEF FailedTx, TypeOK
  <2> QED
    BY <1>1, <2>3, <2>4, TakenKept, OneOrderStep DEF FailedTx, Seen
<1>2. ASSUME FailedSkip(w) \/ FailedRestore(w) \/ \E o \in Orders : FailedReadRow(w, o)
      PROVE  Implements
  BY <1>2, QuietImplements DEF FailedSkip, FailedRestore, FailedReadRow, Reply, Riding
<1> QED
  BY <1>1, <1>2 DEF FailedStep

(* refund.created first marks the payment, then the order: Return, then    *)
(* ShowReturned.                                                           *)
LEMMA RefundedStepImplements == ASSUME Inv, NEW w \in Workers, RefundedStep(w) PROVE Implements
<1>1. ASSUME RefundedPayment(w) \/ RefundedOrder(w)
      PROVE  Implements
  <2>1. PICK o \in Orders : /\ o = call[w].order /\ Placed(o) /\ payment[o].payId # None
                            /\ order[o] \in OrderRow /\ payment[o] \in PaymentRow
    BY <1>1, FrameRow
    DEF RefundedPayment, RefundedOrder, IsAt, Searching, EventKinds, FrameOK
  <2>2. ASSUME RefundedPayment(w)
        PROVE  Returned(o)
    <3>1. payment'[o].status = "REFUNDED" /\ payment'[o].payId = payment[o].payId
      BY <2>1, <2>2, InvType DEF RefundedPayment, TypeOK, PaymentRow
    <3> QED
      BY <2>1, <2>2, <3>1 DEF RefundedPayment, Returned, HandsStay, Cash, Riding
  <2>3. ASSUME RefundedOrder(w)
        PROVE  Returned(o)
    <3>1. /\ order'[o].pay = "REFUNDED" /\ order'[o].status = order[o].status
          /\ order'[o].method = order[o].method
      BY <2>1, <2>3, InvType DEF RefundedOrder, TypeOK, OrderRow
    <3> QED
      BY <2>1, <2>3, <3>1 DEF RefundedOrder, Returned, HandsStay, Cash, Riding
  <2>4. \A q \in Orders \ {o} : Unseen(q)
    BY <1>1, <2>1, OtherUnseen, InvType DEF RefundedPayment, RefundedOrder, TypeOK
  <2>5. TakenStays /\ claims' = claims
    BY <1>1, TakenKept DEF RefundedPayment, RefundedOrder, Reply
  <2> QED
    BY <1>1, <2>2, <2>3, <2>4, <2>5, OneOrderStep DEF Seen
<1>2. ASSUME RefundedNoRow(w) \/ \E o \in Orders : RefundedReadRow(w, o)
      PROVE  Implements
  BY <1>2, QuietImplements DEF RefundedNoRow, RefundedReadRow, Reply, Riding
<1> QED
  BY <1>1, <1>2 DEF RefundedStep

(* processRefund.                                                          *)
LEMMA RefundApiStepImplements == ASSUME Inv, NEW w \in Workers, RefundApiStep(w) PROVE Implements
<1>1. ASSUME RefundApiTx(w)
      PROVE  Implements
  <2>1. PICK o \in Orders : /\ o = call[w].order /\ RowOK(o) /\ payment[o].payId # None
                            /\ order[o] \in OrderRow /\ payment[o] \in PaymentRow
    BY <1>1, FrameRow DEF RefundApiTx, IsAt, Searching, EventKinds, FrameOK
  <2>2. payment' = [payment EXCEPT ![o].status = "REFUNDED"]
    BY <1>1, <2>1 DEF RefundApiTx, RefundRows, RowOK
  <2>3. /\ payment'[o].status = "REFUNDED" /\ payment'[o].payId = payment[o].payId
        /\ order'[o].pay = "REFUNDED" /\ order'[o].status = order[o].status
        /\ order'[o].method = order[o].method
    BY <1>1, <2>1, <2>2, InvType DEF RefundApiTx, TypeOK, PaymentRow, OrderRow
  <2>4. Returned(o)
    BY <1>1, <2>1, <2>3 DEF RefundApiTx, Returned, HandsStay, Cash, Riding
  <2>5. \A q \in Orders \ {o} : Unseen(q)
    BY <1>1, <2>1, <2>2, OtherUnseen, InvType DEF RefundApiTx, TypeOK
  <2> QED
    BY <1>1, <2>4, <2>5, TakenKept, OneOrderStep DEF RefundApiTx, Seen
<1>2. ASSUME \/ RefundApiGateway(w) \/ RefundApiFails(w)
             \/ \E o \in Orders : RefundApiBegin(w, o)
      PROVE  Implements
  BY <1>2, QuietImplements DEF RefundApiGateway, RefundApiFails, RefundApiBegin, Riding
<1> QED
  BY <1>1, <1>2 DEF RefundApiStep

(* Razorpay takes money, in the modal; its other steps and the admin's     *)
(* override of the order's status are not seen.                            *)
LEMMA WorldImplements ==
    ASSUME Inv
    PROVE  GatewayStep \/ (\E o \in Orders, s \in OrderStatus : AdminSetStatus(o, s)) => Implements
<1>1. ASSUME NEW p \in Attempts, NEW r \in RzpOrders, NEW k \in {"captured", "failed"}, Pay(p, r, k)
      PROVE  Implements
  <2>1. /\ attempt'[p] = [rzp |-> r, outcome |-> k] /\ rzpOwner' = rzpOwner
        /\ \A q \in Attempts \ {p} : attempt'[q] = attempt[q]
    BY <1>1, InvType DEF Pay, TypeOK
  <2>2. attempt[p].outcome = "none" /\ \A q \in Orders : ~PaidFor(p, q)
    BY <1>1 DEF Pay, PaidFor
  <2>3. \A q \in Orders : Unseen(q)
    BY <1>1, OtherUnseen DEF Pay
  <2>4. CASE k = "failed"
    <3>1. TakenStays
      BY <2>1, <2>2, <2>4 DEF TakenStays, PaidFor
    <3> QED
      BY <1>1, <2>3, <3>1, StutterStep DEF Pay
  <2>5. CASE k = "captured"
    <3>1. PICK o \in Orders : o = rzpOwner[r]
      BY <1>1, InvType DEF Pay, Inv, GatewayOK, TypeOK
    <3>2. \A a \in Attempts, q \in Orders : PaidFor(a, q)' <=> PaidFor(a, q) \/ (a = p /\ q = o)
      BY <2>1, <2>2, <2>5, <3>1 DEF PaidFor
    <3>3. Promise!Take(o, p)
      BY <1>1, <2>2, <2>3, <3>2 DEF Pay, Promise!Take, Unseen, BooksStay, HandsStay, Cash, Riding
    <3> QED
      BY <3>3 DEF Implements, Promise!Next
  <2> QED
    BY <2>4, <2>5
<1>2. ASSUME NEW p \in Attempts, DashboardRefund(p)
      PROVE  Implements
  BY <1>2, QuietImplements DEF DashboardRefund, Riding
<1>3. ASSUME NEW o \in Orders, NEW s \in OrderStatus, AdminSetStatus(o, s)
      PROVE  Implements
  <2>1. /\ order'[o].status = s /\ order'[o].pay = order[o].pay
        /\ order'[o].method = order[o].method /\ s # "ABSENT"
    BY <1>3, TypeFacts, InvType DEF AdminSetStatus, TypeOK, OrderRow, OrderStatus
  <2>2. Unseen(o)
    BY <1>3, <2>1 DEF AdminSetStatus, Unseen, BooksStay, HandsStay, Cash, Riding
  <2>3. \A q \in Orders \ {o} : Unseen(q)
    BY <1>3, OtherUnseen, InvType DEF AdminSetStatus, TypeOK
  <2> QED
    BY <1>3, <2>2, <2>3, TakenKept, StutterStep DEF AdminSetStatus
<1> QED
  BY <1>1, <1>2, <1>3 DEF GatewayStep

-----------------------------------------------------------------------------
(* The refinement.                                                         *)

(* An order that does not exist yet is not seen.                           *)
LEMMA InitImplements == Init => Promise!Init
BY NoneAssumption DEF Init, NoOrder, NoPayment, PaidFor, Promise!Init

(* Every step is a step of OrderMoney or is not seen.                      *)
LEMMA NextImplements == ASSUME Inv, [Next]_vars PROVE Implements
<1>1. CASE UNCHANGED vars
  BY <1>1, QuietImplements DEF vars, Riding
<1>2. ASSUME NEW w \in Workers,
             OrdersStep(w) \/ AssignStep(w) \/ CheckoutStep(w) \/ CapturedStep(w)
                \/ FailedStep(w) \/ RefundedStep(w) \/ RefundApiStep(w)
      PROVE  Implements
  BY <1>2, OrdersStepImplements, AssignStepImplements, CheckoutStepImplements,
     CapturedStepImplements, FailedStepImplements, RefundedStepImplements, RefundApiStepImplements
<1>3. ASSUME NEW w \in Workers,
             (\E o \in Orders : DispatchBegin(w, o)) \/ NotifyAndReply(w)
                \/ (\E e \in Events : Deliver(w, e)) \/ Crash(w)
      PROVE  Implements
  BY <1>3, QuietImplements DEF DispatchBegin, NotifyAndReply, Deliver, Crash, Reply, Riding
<1> QED
  BY <1>1, <1>2, <1>3, WorldImplements DEF Next

(* Whatever is interleaved, repeated, reordered or lost in a crash, the    *)
(* handlers keep the promise of OrderMoney about every order.              *)
THEOREM PromiseKept == Spec => KeepsPromise
<1>1. Init => Promise!Init
  BY InitImplements
<1>2. Inv /\ [Next]_vars => [Promise!Next]_(Promise!vars)
  BY NextImplements DEF Implements
<1> QED
  BY <1>1, <1>2, Invariance, PTL DEF Spec, KeepsPromise, Promise!Spec
=============================================================================
