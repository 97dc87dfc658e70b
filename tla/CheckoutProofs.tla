--------------------------- MODULE CheckoutProofs ---------------------------
(***************************************************************************)
(* Theorems about Checkout, for any products, users, baskets and bounds    *)
(* and finitely many orders and workers.                                   *)
(***************************************************************************)
EXTENDS Checkout, Sums

USE DEF shelf, history

(* A request that puts stock back has found its order.                     *)
Named ==
    \A w \in Workers : call[w].pc \in {"cancel", "fail", "restore"} =>
        call[w].order \in Orders /\ order[call[w].order].status # "ABSENT"

(* Before its transaction there is nothing of an order.                    *)
Fresh ==
    \A o \in Orders : order[o].status = "ABSENT" =>
        order[o].items = Empty /\ ~order[o].coupon /\ cancels[o] = 0

Inv == TypeOK /\ Named /\ Fresh

-----------------------------------------------------------------------------
(* Types.                                                                  *)

LEMMA EmptyType == Empty \in Basket /\ NoLine \in Lines
  BY QtyAssumption DEF Empty, NoLine, Basket, Lines

LEMMA IdleType == Idle \in Calls /\ Idle.pc = "idle"
  BY EmptyType DEF Idle, Calls, Labels

(* The units of a product in a basket, and what validateStock looks at.    *)
LEMMA DemandType ==
    ASSUME NEW basket \in Basket, NEW p \in Products
    PROVE  /\ basket[p].plain \in Nat /\ basket[p].variant \in Nat /\ basket[p].largest \in Nat
           /\ Demand(basket, p) \in Nat /\ Demand(basket, p) <= 2 * MaxQty
           /\ Demand(basket, p) > 0 => basket[p] # NoLine /\ basket[p].largest > 0
<1>1. basket[p] \in Lines
  BY DEF Basket
<1>2. /\ basket[p].plain \in 0..MaxQty /\ basket[p].variant \in 0..MaxQty /\ basket[p].largest \in 0..MaxQty
      /\ basket[p].largest = 0 => basket[p].plain + basket[p].variant = 0
  BY <1>1 DEF Lines
<1>3. Demand(basket, p) > 0 => basket[p] # NoLine
  BY DEF Demand, NoLine
<1> QED BY <1>2, <1>3, QtyAssumption DEF Demand

(* A request that goes on, ends or begins is a request.                    *)
LEMMA CallType ==
    ASSUME call \in [Workers -> Calls], NEW w \in Workers
    PROVE  /\ Return(w) => call' \in [Workers -> Calls]
           /\ \A request \in Calls : Accept(w, request) => call' \in [Workers -> Calls]
           /\ \A pc \in Labels : Goto(w, pc) => call' \in [Workers -> Calls]
<1>1. ASSUME NEW pc \in Labels, Goto(w, pc)
      PROVE  call' \in [Workers -> Calls]
  <2>1. [call[w] EXCEPT !.pc = pc] \in Calls
    BY DEF Calls
  <2>2. call' = [call EXCEPT ![w] = [call[w] EXCEPT !.pc = pc]]
    BY <1>1 DEF Goto
  <2> QED BY <2>1, <2>2
<1> QED BY <1>1, IdleType DEF Return, Accept

(* What createOrder writes has its type.                                   *)
LEMMA CreateType ==
    ASSUME Inv, NEW w \in Workers, CreateStep(w)
    PROVE  TypeOK'
<1> USE DEF Inv, TypeOK
<1>1. call[w] \in Calls /\ call[w].basket \in Basket /\ call[w].coupon \in BOOLEAN
  BY DEF Calls
<1>2. ASSUME NEW u \in Users, NEW payload \in Payloads, ReadCart(w, u, payload)
      PROVE  TypeOK'
  <2> DEFINE fromCart == cart[u] # Empty
             request == [Idle EXCEPT !.pc = "validate", !.user = u, !.fromCart = fromCart,
                                     !.basket = IF fromCart THEN cart[u] ELSE payload]
  <2>1. payload \in Basket /\ cart[u] \in Basket
    BY PayloadsAssumption
  <2>2. request \in Calls
    BY <2>1, IdleType DEF Calls, Labels
  <2>3. Accept(w, request)
    BY <1>2 DEF ReadCart
  <2>4. call' \in [Workers -> Calls]
    <3> HIDE DEF request
    <3> QED BY <2>2, <2>3, CallType
  <2> QED BY <1>2, <2>4 DEF ReadCart
<1>3. ASSUME NEW coupon \in BOOLEAN, Validate(w, coupon)
      PROVE  TypeOK'
  <2>1. [call[w] EXCEPT !.pc = "commit", !.coupon = coupon] \in Calls
    BY <1>1 DEF Calls, Labels
  <2>2. Return(w) \/ call' = [call EXCEPT ![w] = [call[w] EXCEPT !.pc = "commit", !.coupon = coupon]]
    BY <1>3 DEF Validate
  <2>3. call' \in [Workers -> Calls]
    BY <2>1, <2>2, CallType
  <2> QED BY <1>3, <2>3 DEF Validate
<1>4. ASSUME NEW o \in Orders, Commit(w, o)
      PROVE  TypeOK'
  <2>1. call' \in [Workers -> Calls]
    BY <1>4, CallType DEF Commit, Labels
  <2>2. \A p \in Products : Demand(call[w].basket, p) \in Nat
    BY <1>1, DemandType
  <2>3. stock' \in [Products -> Int] /\ totalSold' \in [Products -> Int]
    BY <1>4, <2>2 DEF Commit
  <2>4. order' \in [Orders -> [status : {"ABSENT", "OPEN", "CANCELLED", "OTHER"},
                               items : Basket, coupon : BOOLEAN]]
    BY <1>1, <1>4 DEF Commit
  <2>5. cart' \in [Users -> Basket]
    BY <1>4, EmptyType DEF Commit
  <2> QED BY <1>4, <2>1, <2>3, <2>4, <2>5 DEF Commit
<1>5. CASE CountCoupon(w)
  BY <1>5, CallType DEF CountCoupon
<1> QED BY <1>2, <1>3, <1>4, <1>5 DEF CreateStep

(* A write of one order's status keeps the rest of the row.                *)
LEMMA StatusWritten ==
    ASSUME TypeOK, NEW o \in Orders, NEW s \in {"OPEN", "CANCELLED", "OTHER"},
           order' = [order EXCEPT ![o].status = s]
    PROVE  /\ order' \in [Orders -> [status : {"ABSENT", "OPEN", "CANCELLED", "OTHER"},
                                     items : Basket, coupon : BOOLEAN]]
           /\ order'[o].status = s
           /\ \A q \in Orders : /\ order'[q].items = order[q].items /\ order'[q].coupon = order[q].coupon
                                /\ q # o => order'[q] = order[q]
<1> DEFINE Row == [status : {"ABSENT", "OPEN", "CANCELLED", "OTHER"}, items : Basket, coupon : BOOLEAN]
<1>1. order \in [Orders -> Row]
  BY DEF TypeOK
<1>2. [order[o] EXCEPT !.status = s] \in Row /\ [order[o] EXCEPT !.status = s].status = s
      /\ [order[o] EXCEPT !.status = s].items = order[o].items /\ [order[o] EXCEPT !.status = s].coupon = order[o].coupon
  BY <1>1
<1>3. order' = [order EXCEPT ![o] = [order[o] EXCEPT !.status = s]]
  OBVIOUS
<1> HIDE DEF Row
<1>4. order' \in [Orders -> Row]
  BY <1>1, <1>2, <1>3
<1>5. order'[o].status = s
  BY <1>1, <1>2, <1>3
<1>6. \A q \in Orders : /\ order'[q].items = order[q].items /\ order'[q].coupon = order[q].coupon
                        /\ q # o => order'[q] = order[q]
  BY <1>1, <1>2, <1>3
<1> QED BY <1>4, <1>5, <1>6 DEF Row

(* What the handlers that give stock back write has its type.              *)
LEMMA GiveBackType ==
    ASSUME Inv, NEW w \in Workers, CancelStep(w) \/ FailStep(w)
    PROVE  TypeOK'
<1> USE DEF Inv, TypeOK
<1> DEFINE o == call[w].order
<1>1. call[w] \in Calls /\ \A p \in Products : o \in Orders =>
         /\ Demand(order[o].items, p) \in Nat
         /\ order[o].items[p].plain \in Nat /\ order[o].items[p].variant \in Nat
  BY DemandType
<1>2. ASSUME NEW q \in Orders, CancelBegin(w, q) \/ FailBegin(w, q)
      PROVE  TypeOK'
  <2>1. \A pc \in {"cancel", "fail"} : [Idle EXCEPT !.pc = pc, !.order = q] \in Calls
    BY IdleType DEF Calls, Labels
  <2>2. call' \in [Workers -> Calls]
    BY <1>2, <2>1, CallType DEF CancelBegin, FailBegin
  <2> QED BY <1>2, <2>2, ChangesAssumption DEF CancelBegin, FailBegin, Change
<1>3. CASE CancelTx(w)
  <2>1. o \in Orders
    BY <1>3 DEF CancelTx, At, Named
  <2>2. call' \in [Workers -> Calls]
    BY <1>3, CallType DEF CancelTx
  <2>3. order' \in [Orders -> [status : {"ABSENT", "OPEN", "CANCELLED", "OTHER"},
                               items : Basket, coupon : BOOLEAN]]
    BY <1>3, <2>1, StatusWritten DEF CancelTx
  <2>4. stock' \in [Products -> Int] /\ totalSold' \in [Products -> Int] /\ cancels' \in [Orders -> Nat]
    BY <1>1, <1>3, <2>1 DEF CancelTx
  <2> QED BY <1>3, <2>2, <2>3, <2>4 DEF CancelTx
<1>4. CASE FailTx(w)
  <2>1. o \in Orders
    BY <1>4 DEF FailTx, At, Named
  <2> DEFINE todo == {p \in Products : Demand(order[o].items, p) > 0}
  <2>2. [call[w] EXCEPT !.pc = "restore", !.todo = todo] \in Calls
    BY <1>1 DEF Calls, Labels
  <2>3. call' = [call EXCEPT ![w] = [call[w] EXCEPT !.pc = "restore", !.todo = todo]]
    BY <1>4 DEF FailTx
  <2>4. call' \in [Workers -> Calls]
    BY <2>2, <2>3
  <2>5. order' \in [Orders -> [status : {"ABSENT", "OPEN", "CANCELLED", "OTHER"},
                               items : Basket, coupon : BOOLEAN]]
    BY <1>4, <2>1, StatusWritten DEF FailTx
  <2> QED BY <1>4, <2>4, <2>5 DEF FailTx
<1>5. ASSUME NEW p \in Products, RestoreStock(w, p)
      PROVE  TypeOK'
  <2>1. o \in Orders
    BY <1>5 DEF RestoreStock, At, Named
  <2>2. [call[w] EXCEPT !.todo = call[w].todo \ {p}] \in Calls
    BY <1>1 DEF Calls
  <2>3. Return(w) \/ call' = [call EXCEPT ![w] = [call[w] EXCEPT !.todo = call[w].todo \ {p}]]
    BY <1>5 DEF RestoreStock
  <2>4. call' \in [Workers -> Calls]
    BY <2>2, <2>3, CallType
  <2>5. stock' \in [Products -> Int] /\ supply' \in [Products -> Int] /\ variantStock' \in [Products -> Nat]
    BY <1>1, <1>5, <2>1 DEF RestoreStock
  <2> QED BY <1>5, <2>4, <2>5 DEF RestoreStock
<1> QED BY <1>2, <1>3, <1>4, <1>5 DEF CancelStep, FailStep

(* What vendors, customers and other handlers write has its type.          *)
LEMMA EnvironmentType ==
    ASSUME Inv, Environment \/ \E w \in Workers : Crash(w)
    PROVE  TypeOK'
<1> USE ChangesAssumption DEF Inv, TypeOK, Change
<1>1. ASSUME NEW u \in Users, NEW p \in Products, NEW lines \in Lines, EditCart(u, p, lines)
      PROVE  TypeOK'
  <2>1. [cart[u] EXCEPT ![p] = lines] \in Basket
    BY DEF Basket
  <2>2. cart' = [cart EXCEPT ![u] = [cart[u] EXCEPT ![p] = lines]]
    BY <1>1 DEF EditCart
  <2>3. cart' \in [Users -> Basket]
    BY <2>1, <2>2
  <2> QED BY <1>1, <2>3 DEF EditCart
<1>2. ASSUME NEW p \in Products, NEW units \in 0..MaxStock, EditStock(p, units)
      PROVE  TypeOK'
  BY <1>2, StockAssumption DEF EditStock
<1>3. ASSUME NEW o \in Orders, NEW s \in {"OPEN", "CANCELLED", "OTHER"}, SetStatus(o, s)
      PROVE  TypeOK'
  <2>1. order' \in [Orders -> [status : {"ABSENT", "OPEN", "CANCELLED", "OTHER"},
                               items : Basket, coupon : BOOLEAN]]
    BY <1>3, StatusWritten DEF SetStatus
  <2>2. reopenings' \in [Orders -> Nat]
    BY <1>3 DEF SetStatus
  <2> QED BY <1>3, <2>1, <2>2 DEF SetStatus
<1>4. ASSUME NEW w \in Workers, Crash(w)
      PROVE  TypeOK'
  BY <1>4, CallType DEF Crash
<1> QED BY <1>1, <1>2, <1>3, <1>4 DEF Environment

-----------------------------------------------------------------------------
(* The invariant.                                                          *)

(* No step takes an order away, touches one that is not there, or writes   *)
(* another request.                                                        *)
LEMMA OrdersKept ==
    ASSUME Inv, Next, TypeOK'
    PROVE  \A o \in Orders :
              order'[o].status = "ABSENT" => order'[o] = order[o] /\ cancels'[o] = cancels[o]
<1> USE DEF Inv, TypeOK
<1>1. ASSUME NEW w \in Workers, NEW o \in Orders, Commit(w, o)
      PROVE  \A q \in Orders : order'[q].status = "ABSENT" => order'[q] = order[q] /\ cancels'[q] = cancels[q]
  BY <1>1 DEF Commit
<1>2. ASSUME NEW w \in Workers, CancelTx(w) \/ FailTx(w)
      PROVE  \A q \in Orders : order'[q].status = "ABSENT" => order'[q] = order[q] /\ cancels'[q] = cancels[q]
  <2>1. call[w].order \in Orders
    BY <1>2 DEF CancelTx, FailTx, At, Named
  <2>2. \A q \in Orders : q # call[w].order => cancels'[q] = cancels[q]
    BY <1>2 DEF CancelTx, FailTx
  <2> QED BY <1>2, <2>1, <2>2, StatusWritten DEF CancelTx, FailTx
<1>3. ASSUME NEW o \in Orders, NEW s \in {"OPEN", "CANCELLED", "OTHER"}, SetStatus(o, s)
      PROVE  \A q \in Orders : order'[q].status = "ABSENT" => order'[q] = order[q] /\ cancels'[q] = cancels[q]
  BY <1>3, StatusWritten DEF SetStatus
<1>4. CASE UNCHANGED <<order, cancels>>
  BY <1>4
<1> QED BY <1>1, <1>2, <1>3, <1>4 DEF Next, CreateStep, CancelStep, FailStep, Environment, ReadCart,
        Validate, CountCoupon, CancelBegin, FailBegin, RestoreStock, EditCart, EditStock, Crash

(* A request that goes to give an order's stock back has found the order.  *)
LEMMA CallsKept ==
    ASSUME Inv, Next
    PROVE  \A w \in Workers : call'[w].pc \in {"cancel", "fail", "restore"} =>
              \/ call[w].pc \in {"cancel", "fail", "restore"} /\ call'[w].order = call[w].order
              \/ call'[w].order \in Orders /\ order[call'[w].order].status # "ABSENT"
<1> DEFINE Giving(c) == c.pc \in {"cancel", "fail", "restore"}
           Found(w) == Giving(call'[w]) =>
                          \/ Giving(call[w]) /\ call'[w].order = call[w].order
                          \/ call'[w].order \in Orders /\ order[call'[w].order].status # "ABSENT"
<1> USE DEF Inv, TypeOK
<1>1. CASE UNCHANGED call
  BY <1>1
<1>2. ASSUME NEW w \in Workers, CreateStep(w) \/ CancelStep(w) \/ FailStep(w) \/ Crash(w)
      PROVE  \A v \in Workers : Found(v)
  <2>1. call[w] \in Calls
    OBVIOUS
  <2>2. \A v \in Workers \ {w} : call'[v] = call[v]
    BY <1>2 DEF CreateStep, CancelStep, FailStep, ReadCart, Validate, Commit, CountCoupon,
        CancelBegin, CancelTx, FailBegin, FailTx, RestoreStock, Crash, Accept, Return, Goto
  <2>3. Found(w)
    <3>1. CASE Return(w)
      BY <3>1, IdleType DEF Return
    <3>2. ASSUME NEW u \in Users, NEW payload \in Payloads, ReadCart(w, u, payload)
          PROVE  Found(w)
      BY <3>2 DEF ReadCart, Accept, Idle
    <3>3. ASSUME NEW o \in Orders, CancelBegin(w, o) \/ FailBegin(w, o)
          PROVE  Found(w)
      <4>1. call'[w].order = o
        BY <3>3 DEF CancelBegin, FailBegin, Accept, Idle
      <4> QED BY <3>3, <4>1 DEF CancelBegin, FailBegin
    <3>4. ASSUME NEW coupon \in BOOLEAN, Validate(w, coupon)
          PROVE  Found(w)
      BY <2>1, <3>1, <3>4 DEF Validate, Calls
    <3>5. ASSUME NEW o \in Orders, Commit(w, o)
          PROVE  Found(w)
      BY <2>1, <3>1, <3>5 DEF Commit, Goto, Calls
    <3>6. CASE FailTx(w) \/ \E p \in Products : RestoreStock(w, p)
      BY <2>1, <3>1, <3>6 DEF FailTx, RestoreStock, At, Calls
    <3> QED BY <1>2, <3>1, <3>2, <3>3, <3>4, <3>5, <3>6
            DEF CreateStep, CancelStep, FailStep, CountCoupon, CancelTx, Crash
  <2> QED BY <2>2, <2>3
<1>3. CASE Environment
  BY <1>1, <1>3 DEF Environment, EditCart, EditStock, SetStatus
<1> QED BY <1>2, <1>3 DEF Next

LEMMA InitInv == Init => Inv
<1> SUFFICES ASSUME Init PROVE Inv
  OBVIOUS
<1>1. TypeOK
  BY EmptyType, IdleType, StockAssumption DEF Init, TypeOK
<1>2. Named /\ Fresh
  BY IdleType DEF Init, Named, Fresh
<1> QED BY <1>1, <1>2 DEF Inv

LEMMA NextInv == Inv /\ [Next]_vars => Inv'
<1> SUFFICES ASSUME Inv, [Next]_vars PROVE Inv'
  OBVIOUS
<1>1. CASE UNCHANGED vars
  BY <1>1 DEF Inv, TypeOK, Named, Fresh, vars
<1>2. CASE Next
  <2>1. TypeOK'
    BY <1>2, CreateType, GiveBackType, EnvironmentType DEF Next
  <2>2. Fresh'
    BY <1>2, <2>1, OrdersKept DEF Inv, Fresh
  <2>3. Named'
    <3>1. \A o \in Orders : order[o].status # "ABSENT" => order'[o].status # "ABSENT"
      BY <1>2, <2>1, OrdersKept
    <3> QED BY <1>2, <3>1, CallsKept DEF Inv, Named
  <2> QED BY <2>1, <2>2, <2>3 DEF Inv
<1> QED BY <1>1, <1>2

(* A request about to give stock back names an order that was placed, and  *)
(* of an order that was not, nothing is counted.                           *)
THEOREM Invariance == Spec => []Inv
  BY InitInv, NextInv, PTL DEF Spec

(* Every row, counter and request has its type: the requests that give     *)
(* stock back name an order that is there, so what they add is a number.   *)
THEOREM TypeCorrect == Spec => []TypeOK
<1>1. Inv => TypeOK
  BY DEF Inv
<1> QED BY <1>1, Invariance, PTL

-----------------------------------------------------------------------------
(* Units.                                                                  *)

(* Every step that moves stock moves totalSold or supply with it.          *)
LEMMA StockAccountsKept ==
    ASSUME Inv, [Next]_vars, StockAccounts
    PROVE  StockAccounts'
<1> USE DEF Inv, TypeOK, StockAccounts
<1>1. CASE UNCHANGED <<stock, totalSold, supply>>
  BY <1>1
<1>2. ASSUME NEW w \in Workers, NEW o \in Orders, Commit(w, o)
      PROVE  StockAccounts'
  <2>1. call[w].basket \in Basket
    BY DEF Calls
  <2>2. \A p \in Products : Demand(call[w].basket, p) \in Nat
    BY <2>1, DemandType
  <2> QED BY <1>2, <2>2 DEF Commit
<1>3. ASSUME NEW w \in Workers, CancelTx(w)
      PROVE  StockAccounts'
  <2>1. call[w].order \in Orders
    BY <1>3 DEF CancelTx, At, Named
  <2>2. \A p \in Products : Demand(order[call[w].order].items, p) \in Nat
    BY <2>1, DemandType
  <2> QED BY <1>3, <2>2 DEF CancelTx
<1>4. ASSUME NEW w \in Workers, NEW p \in Products, RestoreStock(w, p)
      PROVE  StockAccounts'
  <2>1. call[w].order \in Orders
    BY <1>4 DEF RestoreStock, At, Named
  <2>2. order[call[w].order].items[p].plain \in Nat
    BY <2>1, DemandType
  <2> QED BY <1>4, <2>2 DEF RestoreStock
<1>5. ASSUME NEW p \in Products, NEW units \in 0..MaxStock, EditStock(p, units)
      PROVE  StockAccounts'
  BY <1>5, StockAssumption DEF EditStock
<1> QED BY <1>1, <1>2, <1>3, <1>4, <1>5 DEF Next, vars, CreateStep, CancelStep, FailStep, Environment,
        ReadCart, Validate, CountCoupon, CancelBegin, FailBegin, FailTx, EditCart, SetStatus, Crash

(* product.stock and product.totalSold together are what vendors entered   *)
(* and failed payments brought back, whatever requests interleave.         *)
THEOREM StockAccounted == Spec => []StockAccounts
<1>1. Init => StockAccounts
  BY StockAssumption DEF Init, StockAccounts
<1> QED BY <1>1, StockAccountsKept, Invariance, PTL DEF Spec

-----------------------------------------------------------------------------
(* Overselling.                                                            *)

(* Requests that hold no validated, uncommitted basket with product p.     *)
Free(p) == Workers \ Reserving(p)

(* Below zero by at most a basket for each of them: a request that has     *)
(* validated found stock, so what it may still take is not owed yet.       *)
Room == \A p \in Products : stock[p] + (2 * MaxQty) * Cardinality(Free(p)) >= 0

LEMMA Multiples ==
    ASSUME NEW k \in Nat, NEW m \in Nat, NEW n \in Nat
    PROVE  /\ k * m \in Nat
           /\ m <= n => k * m <= k * n
           /\ k * (m + 1) = k * m + k
  OBVIOUS

LEMMA FreeSize ==
    ASSUME NEW p
    PROVE  /\ IsFiniteSet(Free(p)) /\ Cardinality(Free(p)) \in Nat
           /\ Cardinality(Free(p)) <= Cardinality(Workers) /\ Cardinality(Workers) \in Nat
  BY WorkersFinite, FS_Subset, FS_CardinalityType DEF Free

(* More stock and no more reservations, or stock that is not negative.     *)
LEMMA RoomGrows ==
    ASSUME TypeOK, TypeOK', Room,
           \A p \in Products : stock'[p] >= 0 \/ (stock'[p] >= stock[p] /\ Free(p) \subseteq Free(p)')
    PROVE  Room'
<1> SUFFICES ASSUME NEW p \in Products
             PROVE  stock'[p] + (2 * MaxQty) * Cardinality(Free(p)') >= 0
  BY DEF Room
<1> DEFINE m == Cardinality(Free(p))
           n == Cardinality(Free(p)')
           k == 2 * MaxQty
<1>1. m \in Nat /\ n \in Nat /\ IsFiniteSet(Free(p)')
  BY WorkersFinite, FS_Subset, FS_CardinalityType DEF Free
<1>2. k \in Nat /\ stock[p] \in Int /\ stock'[p] \in Int
  BY QtyAssumption DEF TypeOK
<1>3. Free(p) \subseteq Free(p)' => m <= n
  BY <1>1, FS_Subset
<1>4. k * n \in Nat /\ (m <= n => k * m <= k * n) /\ k * m \in Nat
  BY <1>1, <1>2, Multiples
<1>5. stock[p] + k * m >= 0
  BY DEF Room
<1> HIDE DEF m, n, k
<1>6. stock'[p] + k * n >= 0
  BY <1>2, <1>3, <1>4, <1>5
<1> QED BY <1>6 DEF n, k

(* A request reserves nothing when it is not about to commit.              *)
LEMMA FreeGrows ==
    ASSUME NEW w \in Workers, \A v \in Workers \ {w} : call'[v] = call[v],
           call'[w].pc # "commit" \/ call'[w] = call[w]
    PROVE  \A p : Free(p) \subseteq Free(p)'
<1> SUFFICES ASSUME NEW p, NEW v \in Workers, v \in Reserving(p)' PROVE v \in Reserving(p)
  BY DEF Free
<1>1. call'[v] = call[v]
  BY DEF Reserving, At
<1> QED BY <1>1 DEF Reserving, At

LEMMA RoomKept ==
    ASSUME Inv, Inv', [Next]_vars, Room
    PROVE  Room'
<1> USE DEF Inv, TypeOK
<1>1. CASE UNCHANGED <<stock, call>>
  BY <1>1, RoomGrows DEF Free, Reserving, At
<1>2. ASSUME NEW w \in Workers, NEW u \in Users, NEW payload \in Payloads, ReadCart(w, u, payload)
      PROVE  Room'
  <2>1. call'[w].pc = "validate" /\ \A v \in Workers \ {w} : call'[v] = call[v]
    BY <1>2 DEF ReadCart, Accept, Idle
  <2> QED BY <1>2, <2>1, FreeGrows, RoomGrows DEF ReadCart
<1>3. ASSUME NEW w \in Workers, NEW coupon \in BOOLEAN, Validate(w, coupon)
      PROVE  Room'
  <2> DEFINE basket == call[w].basket
  <2>1. basket \in Basket /\ call[w] \in Calls
    BY DEF Calls
  <2>2. CASE Return(w)
    <3>1. call'[w].pc = "idle" /\ \A v \in Workers \ {w} : call'[v] = call[v]
      BY <2>2, IdleType DEF Return
    <3> QED BY <1>3, <3>1, FreeGrows, RoomGrows DEF Validate
  <2>3. CASE ~Return(w)
    <3>1. /\ Enough(basket) /\ \A v \in Workers \ {w} : call'[v] = call[v]
          /\ call'[w].basket = basket
      BY <1>3, <2>1, <2>3 DEF Validate, Calls
    <3>2. ASSUME NEW p \in Products
          PROVE  stock'[p] >= 0 \/ (stock'[p] >= stock[p] /\ Free(p) \subseteq Free(p)')
      <4>1. CASE Demand(basket, p) > 0
        <5>1. basket[p] # NoLine /\ basket[p].largest \in Nat
          BY <2>1, <4>1, DemandType
        <5>2. stock[p] >= basket[p].largest /\ stock'[p] = stock[p]
          BY <1>3, <3>1, <5>1 DEF Validate, Enough
        <5> QED BY <5>1, <5>2
      <4>2. CASE ~(Demand(basket, p) > 0)
        <5>1. \A v \in Reserving(p)' : v # w /\ v \in Workers
          BY <3>1, <4>2 DEF Reserving
        <5>2. Reserving(p)' \subseteq Reserving(p)
          BY <3>1, <5>1 DEF Reserving, At
        <5> QED BY <1>3, <5>2 DEF Validate, Free
      <4> QED BY <4>1, <4>2
    <3> QED BY <3>2, RoomGrows
  <2> QED BY <2>2, <2>3
<1>4. ASSUME NEW w \in Workers, NEW o \in Orders, Commit(w, o)
      PROVE  Room'
  <2> SUFFICES ASSUME NEW p \in Products
               PROVE  stock'[p] + (2 * MaxQty) * Cardinality(Free(p)') >= 0
    BY DEF Room
  <2> DEFINE basket == call[w].basket
             m == Cardinality(Free(p))
             n == Cardinality(Free(p)')
             k == 2 * MaxQty
  <2>1. basket \in Basket /\ call[w] \in Calls
    BY DEF Calls
  <2>2. /\ Demand(basket, p) \in Nat /\ Demand(basket, p) <= k /\ k \in Nat
        /\ stock'[p] = stock[p] - Demand(basket, p) /\ stock[p] \in Int
    BY <1>4, <2>1, DemandType, QtyAssumption DEF Commit
  <2>3. call'[w].pc # "commit" /\ \A v \in Workers \ {w} : call'[v] = call[v]
    BY <1>4, <2>1, IdleType DEF Commit, Goto, Return, Calls
  <2>4. Free(p) \subseteq Free(p)' /\ IsFiniteSet(Free(p)') /\ m \in Nat /\ n \in Nat
    BY <2>3, FreeGrows, WorkersFinite, FS_Subset, FS_CardinalityType DEF Free
  <2>5. m <= n
    BY <2>4, FS_Subset
  <2>6. Demand(basket, p) > 0 => m + 1 <= n
    <3> SUFFICES ASSUME Demand(basket, p) > 0 PROVE m + 1 <= n
      OBVIOUS
    <3>1. w \notin Free(p) /\ w \in Free(p)'
      BY <1>4, <2>3 DEF Commit, Free, Reserving, At
    <3>2. Free(p) \cup {w} \subseteq Free(p)' /\ IsFiniteSet(Free(p))
      BY <2>4, <3>1, FS_Subset
    <3>3. Cardinality(Free(p) \cup {w}) = m + 1
      BY <3>1, <3>2, FS_AddElement
    <3> QED BY <2>4, <3>2, <3>3, FS_Subset
  <2>7. k * m \in Nat /\ k * n \in Nat /\ k * m <= k * n /\ (m + 1 <= n => k * m + k <= k * n)
    <3>1. m + 1 \in Nat /\ k \in Nat /\ m \in Nat /\ n \in Nat
      BY <2>2, <2>4
    <3> HIDE DEF m, n, k
    <3>2. k * (m + 1) = k * m + k /\ (m + 1 <= n => k * (m + 1) <= k * n)
      BY <3>1, Multiples
    <3> QED BY <2>5, <3>1, <3>2, Multiples
  <2>8. stock[p] + k * m >= 0
    BY DEF Room
  <2> HIDE DEF m, n, k, basket
  <2>9. stock'[p] + k * n >= 0
    BY <2>2, <2>6, <2>7, <2>8
  <2> QED BY <2>9 DEF n, k
<1>5. ASSUME NEW w \in Workers, Return(w), UNCHANGED stock
      PROVE  Room'
  <2>1. call'[w].pc = "idle" /\ \A v \in Workers \ {w} : call'[v] = call[v]
    BY <1>5, IdleType DEF Return
  <2> QED BY <1>5, <2>1, FreeGrows, RoomGrows
<1>6. ASSUME NEW w \in Workers, NEW o \in Orders, CancelBegin(w, o) \/ FailBegin(w, o)
      PROVE  Room'
  <2>1. PICK pc \in {"cancel", "fail"} : Accept(w, [Idle EXCEPT !.pc = pc, !.order = o])
    BY <1>6 DEF CancelBegin, FailBegin
  <2>2. call'[w].pc = pc /\ \A v \in Workers \ {w} : call'[v] = call[v]
    BY <2>1 DEF Accept, Idle
  <2>3. UNCHANGED stock
    BY <1>6 DEF CancelBegin, FailBegin
  <2> QED BY <2>2, <2>3, FreeGrows, RoomGrows
<1>7. ASSUME NEW w \in Workers, CancelTx(w)
      PROVE  Room'
  <2>1. call'[w].pc = "idle" /\ \A v \in Workers \ {w} : call'[v] = call[v]
    BY <1>7, IdleType DEF CancelTx, Return
  <2>2. call[w].order \in Orders
    BY <1>7 DEF CancelTx, At, Named
  <2>3. \A p \in Products : stock'[p] >= stock[p]
    BY <1>7, <2>2, DemandType DEF CancelTx
  <2> QED BY <2>1, <2>3, FreeGrows, RoomGrows
<1>8. ASSUME NEW w \in Workers, FailTx(w)
      PROVE  Room'
  <2>1. call'[w].pc = "restore" /\ \A v \in Workers \ {w} : call'[v] = call[v]
    BY <1>8 DEF FailTx, Calls
  <2>2. UNCHANGED stock
    BY <1>8 DEF FailTx
  <2> QED BY <2>1, <2>2, FreeGrows, RoomGrows
<1>9. ASSUME NEW w \in Workers, NEW q \in Products, RestoreStock(w, q)
      PROVE  Room'
  <2>1. call[w].order \in Orders /\ call[w] \in Calls
    BY <1>9 DEF RestoreStock, At, Named
  <2>2. call'[w].pc # "commit" /\ \A v \in Workers \ {w} : call'[v] = call[v]
    <3>1. CASE Return(w)
      BY <3>1, IdleType DEF Return
    <3>2. CASE ~Return(w)
      BY <1>9, <2>1, <3>2 DEF RestoreStock, At, Calls
    <3> QED BY <3>1, <3>2
  <2>3. \A p \in Products : stock'[p] >= stock[p]
    BY <1>9, <2>1, DemandType DEF RestoreStock
  <2> QED BY <2>2, <2>3, FreeGrows, RoomGrows
<1>10. ASSUME NEW q \in Products, NEW units \in 0..MaxStock, EditStock(q, units)
       PROVE  Room'
  <2>1. \A p \in Products : stock'[p] >= 0 \/ stock'[p] >= stock[p]
    BY <1>10, StockAssumption DEF EditStock
  <2>2. \A p \in Products : Free(p)' = Free(p)
    BY <1>10 DEF EditStock, Free, Reserving, At
  <2> QED BY <2>1, <2>2, RoomGrows
<1>11. CASE UNCHANGED vars
  BY <1>1, <1>11 DEF vars
<1> QED BY <1>1, <1>2, <1>3, <1>4, <1>5, <1>6, <1>7, <1>8, <1>9, <1>10, <1>11
        DEF Next, CreateStep, CancelStep, FailStep, Environment, CountCoupon, EditCart, SetStatus, Crash

(* Stock never falls below zero by more than a basket of two full lines    *)
(* per worker, whatever is cancelled, failed, restored, restocked or       *)
(* killed in between.                                                      *)
THEOREM OversellBounded == Spec => []OversellBound
<1>1. Init => Room
  <2> SUFFICES ASSUME Init, NEW p \in Products
               PROVE  stock[p] + (2 * MaxQty) * Cardinality(Free(p)) >= 0
    BY DEF Room
  <2>1. stock[p] \in Nat
    BY StockAssumption DEF Init
  <2>2. (2 * MaxQty) * Cardinality(Free(p)) \in Nat
    BY FreeSize, QtyAssumption, Multiples
  <2> QED BY <2>1, <2>2
<1>2. Inv /\ Room => OversellBound
  <2> SUFFICES ASSUME Inv, Room, NEW p \in Products
               PROVE  stock[p] >= -(2 * MaxQty * Cardinality(Workers))
    BY DEF OversellBound
  <2> DEFINE m == Cardinality(Free(p))
             n == Cardinality(Workers)
             k == 2 * MaxQty
  <2>1. m \in Nat /\ n \in Nat /\ m <= n /\ k \in Nat /\ stock[p] \in Int
    BY FreeSize, QtyAssumption DEF Inv, TypeOK
  <2>2. k * m \in Nat /\ k * n \in Nat /\ k * m <= k * n /\ stock[p] + k * m >= 0
    BY <2>1, Multiples DEF Room
  <2> HIDE DEF m, n, k
  <2>3. stock[p] >= -(k * n)
    BY <2>1, <2>2
  <2> QED BY <2>3 DEF n, k
<1> QED BY <1>1, <1>2, InitInv, NextInv, RoomKept, PTL DEF Spec

-----------------------------------------------------------------------------
(* Cancelling.                                                             *)

(* What cancels of an order have committed, and those in flight that will: *)
(* together at most one per worker for each time the order was open; an    *)
(* order that is open has had none since it became so.                     *)
CancelRoom ==
    \A o \in Orders :
        /\ cancels[o] + Cardinality(Cancelling(o)) <= Cardinality(Workers) * (reopenings[o] + 1)
        /\ order[o].status = "OPEN" => cancels[o] <= Cardinality(Workers) * reopenings[o]

LEMMA CancellingSize ==
    ASSUME NEW o
    PROVE  /\ IsFiniteSet(Cancelling(o)) /\ Cardinality(Cancelling(o)) \in Nat
           /\ IsFiniteSet(Cancelling(o)') /\ Cardinality(Cancelling(o)') \in Nat
           /\ Cardinality(Cancelling(o)') <= Cardinality(Workers) /\ Cardinality(Workers) \in Nat
           /\ Cancelling(o)' \subseteq Cancelling(o) =>
                 Cardinality(Cancelling(o)') <= Cardinality(Cancelling(o))
  BY WorkersFinite, FS_Subset, FS_CardinalityType DEF Cancelling

(* Nothing is cancelled, opened or begun.                                  *)
LEMMA CancelRoomSame ==
    ASSUME Inv, CancelRoom, UNCHANGED history,
           \A o \in Orders : /\ Cancelling(o)' \subseteq Cancelling(o)
                             /\ order'[o].status = "OPEN" => order[o].status = "OPEN" \/ cancels[o] = 0
    PROVE  CancelRoom'
<1> SUFFICES ASSUME NEW o \in Orders
             PROVE  /\ cancels'[o] + Cardinality(Cancelling(o)')
                          <= Cardinality(Workers) * (reopenings'[o] + 1)
                    /\ order'[o].status = "OPEN" => cancels'[o] <= Cardinality(Workers) * reopenings'[o]
  BY DEF CancelRoom
<1> DEFINE n == Cardinality(Workers)
           m == Cardinality(Cancelling(o))
           k == Cardinality(Cancelling(o)')
<1>1. n \in Nat /\ m \in Nat /\ k \in Nat /\ k <= m
  BY CancellingSize
<1>2. cancels[o] \in Nat /\ reopenings[o] \in Nat
  BY DEF Inv, TypeOK
<1>3. n * reopenings[o] \in Nat /\ n * (reopenings[o] + 1) \in Nat
  BY <1>1, <1>2, Multiples
<1>4. cancels[o] + m <= n * (reopenings[o] + 1)
      /\ (order[o].status = "OPEN" => cancels[o] <= n * reopenings[o])
  BY DEF CancelRoom
<1> HIDE DEF n, m, k
<1>5. cancels'[o] + k <= n * (reopenings'[o] + 1)
  BY <1>1, <1>2, <1>3, <1>4
<1>6. order'[o].status = "OPEN" => cancels'[o] <= n * reopenings'[o]
  BY <1>2, <1>3, <1>4
<1> QED BY <1>5, <1>6 DEF n, k

(* A request that is not about to cancel adds to no order's cancels.       *)
LEMMA CancellingKept ==
    ASSUME NEW w \in Workers, \A v \in Workers \ {w} : call'[v] = call[v], call'[w].pc # "cancel"
    PROVE  \A o : Cancelling(o)' \subseteq Cancelling(o)
  BY DEF Cancelling, At

LEMMA CancelRoomKept ==
    ASSUME Inv, Inv', [Next]_vars, CancelRoom
    PROVE  CancelRoom'
<1> USE DEF Inv, TypeOK
<1>1. ASSUME UNCHANGED <<order, history, call>>
      PROVE  CancelRoom'
  <2>1. \A o \in Orders : Cancelling(o)' = Cancelling(o)
    BY <1>1 DEF Cancelling, At
  <2> QED BY <1>1, <2>1, CancelRoomSame
<1>2. ASSUME NEW w \in Workers, UNCHANGED <<order, history>>, call'[w].pc # "cancel",
             \A v \in Workers \ {w} : call'[v] = call[v]
      PROVE  CancelRoom'
  BY <1>2, CancellingKept, CancelRoomSame
<1>3. ASSUME NEW w \in Workers, UNCHANGED <<order, history>>, Return(w)
      PROVE  CancelRoom'
  BY <1>2, <1>3, IdleType DEF Return
<1>4. ASSUME NEW w \in Workers, NEW u \in Users, NEW payload \in Payloads, ReadCart(w, u, payload)
      PROVE  CancelRoom'
  <2>1. call'[w].pc = "validate" /\ \A v \in Workers \ {w} : call'[v] = call[v]
    BY <1>4 DEF ReadCart, Accept, Idle
  <2> QED BY <1>2, <1>4, <2>1 DEF ReadCart
<1>5. ASSUME NEW w \in Workers, NEW coupon \in BOOLEAN, Validate(w, coupon)
      PROVE  CancelRoom'
  <2>1. CASE ~Return(w)
    <3>1. call'[w].pc = "commit" /\ \A v \in Workers \ {w} : call'[v] = call[v]
      BY <1>5, <2>1 DEF Validate, Calls
    <3> QED BY <1>2, <1>5, <3>1 DEF Validate
  <2> QED BY <1>3, <1>5, <2>1 DEF Validate
<1>6. ASSUME NEW w \in Workers, NEW o \in Orders, Commit(w, o)
      PROVE  CancelRoom'
  <2>1. call[w] \in Calls
    OBVIOUS
  <2>2. call'[w].pc \in {"coupon", "idle"} /\ \A v \in Workers \ {w} : call'[v] = call[v]
    BY <1>6, <2>1, IdleType DEF Commit, Goto, Return, Calls
  <2>3. \A q \in Orders : order'[q].status = "OPEN" => order[q].status = "OPEN" \/ cancels[q] = 0
    BY <1>6 DEF Commit, Fresh
  <2> QED BY <1>6, <2>2, <2>3, CancellingKept, CancelRoomSame DEF Commit
<1>7. ASSUME NEW w \in Workers, NEW o \in Orders, CancelBegin(w, o)
      PROVE  CancelRoom'
  <2> SUFFICES ASSUME NEW q \in Orders
               PROVE  /\ cancels'[q] + Cardinality(Cancelling(q)')
                            <= Cardinality(Workers) * (reopenings'[q] + 1)
                      /\ order'[q].status = "OPEN" => cancels'[q] <= Cardinality(Workers) * reopenings'[q]
    BY DEF CancelRoom
  <2>1. call'[w].order = o /\ \A v \in Workers \ {w} : call'[v] = call[v]
    BY <1>7 DEF CancelBegin, Accept, Idle
  <2>2. UNCHANGED <<order, cancels, reopenings>>
    BY <1>7 DEF CancelBegin
  <2> DEFINE n == Cardinality(Workers)
             m == Cardinality(Cancelling(q))
             k == Cardinality(Cancelling(q)')
  <2>3. n \in Nat /\ m \in Nat /\ k \in Nat /\ k <= n /\ (q # o => k <= m)
    <3>1. q # o => Cancelling(q)' \subseteq Cancelling(q)
      BY <2>1 DEF Cancelling, At
    <3> QED BY <3>1, CancellingSize
  <2>4. cancels[q] + m <= n * (reopenings[q] + 1)
        /\ (order[q].status = "OPEN" => cancels[q] <= n * reopenings[q])
    BY DEF CancelRoom
  <2>5. cancels[q] \in Nat /\ reopenings[q] \in Nat /\ (q = o => order[q].status = "OPEN")
    BY <1>7 DEF CancelBegin
  <2>6. n * reopenings[q] \in Nat /\ n * (reopenings[q] + 1) = n * reopenings[q] + n
    BY <2>3, <2>5, Multiples
  <2> HIDE DEF n, m, k, Inv, TypeOK
  <2>7. cancels[q] + k <= n * (reopenings[q] + 1)
    BY <2>3, <2>4, <2>5, <2>6
  <2> QED BY <2>2, <2>4, <2>7 DEF n, k
<1>8. ASSUME NEW w \in Workers, CancelTx(w)
      PROVE  CancelRoom'
  <2> SUFFICES ASSUME NEW q \in Orders
               PROVE  /\ cancels'[q] + Cardinality(Cancelling(q)')
                            <= Cardinality(Workers) * (reopenings'[q] + 1)
                      /\ order'[q].status = "OPEN" => cancels'[q] <= Cardinality(Workers) * reopenings'[q]
    BY DEF CancelRoom
  <2> DEFINE o == call[w].order
             n == Cardinality(Workers)
             m == Cardinality(Cancelling(q))
             k == Cardinality(Cancelling(q)')
  <2>1. o \in Orders /\ w \in Cancelling(o)
    BY <1>8 DEF CancelTx, At, Named, Cancelling
  <2>2. call'[w].pc = "idle" /\ \A v \in Workers \ {w} : call'[v] = call[v]
    BY <1>8, IdleType DEF CancelTx, Return
  <2>3. order'[o].status = "CANCELLED" /\ (q # o => order'[q] = order[q])
    BY <1>8, <2>1, StatusWritten DEF CancelTx
  <2>4. /\ q = o => cancels'[q] = cancels[q] + 1
        /\ q # o => cancels'[q] = cancels[q]
        /\ UNCHANGED reopenings
    BY <1>8, <2>1 DEF CancelTx
  <2>5. n \in Nat /\ m \in Nat /\ k \in Nat /\ k <= m
    BY <2>2, CancellingKept, CancellingSize
  <2>6. q = o => k = m - 1
    <3>1. q = o => Cancelling(q)' = Cancelling(q) \ {w} /\ w \in Cancelling(q)
      BY <2>1, <2>2 DEF Cancelling, At
    <3> QED BY <3>1, CancellingSize, FS_RemoveElement
  <2>7. cancels[q] + m <= n * (reopenings[q] + 1)
        /\ (order[q].status = "OPEN" => cancels[q] <= n * reopenings[q])
    BY DEF CancelRoom
  <2>8. cancels[q] \in Nat /\ reopenings[q] \in Nat
    OBVIOUS
  <2>9. n * reopenings[q] \in Nat /\ n * (reopenings[q] + 1) \in Nat
    BY <2>5, <2>8, Multiples
  <2> HIDE DEF n, m, k, o, Inv, TypeOK
  <2>10. cancels'[q] + k <= n * (reopenings'[q] + 1)
    BY <2>4, <2>5, <2>6, <2>7, <2>8, <2>9
  <2>11. order'[q].status = "OPEN" => cancels'[q] <= n * reopenings'[q]
    BY <2>3, <2>4, <2>7
  <2> QED BY <2>10, <2>11 DEF n, k
<1>9. ASSUME NEW w \in Workers, NEW o \in Orders, FailBegin(w, o)
      PROVE  CancelRoom'
  <2>1. call'[w].pc = "fail" /\ \A v \in Workers \ {w} : call'[v] = call[v]
    BY <1>9 DEF FailBegin, Accept, Idle
  <2> QED BY <1>2, <1>9, <2>1 DEF FailBegin
<1>10. ASSUME NEW w \in Workers, FailTx(w)
       PROVE  CancelRoom'
  <2>1. call'[w].pc = "restore" /\ \A v \in Workers \ {w} : call'[v] = call[v]
    BY <1>10 DEF FailTx, Calls
  <2>2. call[w].order \in Orders
    BY <1>10 DEF FailTx, At, Named
  <2>3. \A q \in Orders : order'[q].status = "OPEN" => order[q].status = "OPEN"
    BY <1>10, <2>2, StatusWritten DEF FailTx
  <2> QED BY <1>10, <2>1, <2>3, CancellingKept, CancelRoomSame DEF FailTx
<1>11. ASSUME NEW w \in Workers, NEW p \in Products, RestoreStock(w, p)
       PROVE  CancelRoom'
  <2>1. CASE ~Return(w)
    <3>1. call'[w].pc = "restore" /\ \A v \in Workers \ {w} : call'[v] = call[v]
      BY <1>11, <2>1 DEF RestoreStock, At, Calls
    <3> QED BY <1>2, <1>11, <3>1 DEF RestoreStock
  <2> QED BY <1>3, <1>11, <2>1 DEF RestoreStock
<1>12. ASSUME NEW o \in Orders, NEW s \in {"OPEN", "CANCELLED", "OTHER"}, SetStatus(o, s)
       PROVE  CancelRoom'
  <2> SUFFICES ASSUME NEW q \in Orders
               PROVE  /\ cancels'[q] + Cardinality(Cancelling(q)')
                            <= Cardinality(Workers) * (reopenings'[q] + 1)
                      /\ order'[q].status = "OPEN" => cancels'[q] <= Cardinality(Workers) * reopenings'[q]
    BY DEF CancelRoom
  <2> DEFINE n == Cardinality(Workers)
             m == Cardinality(Cancelling(q))
             k == Cardinality(Cancelling(q)')
  <2>1. Cancelling(q)' = Cancelling(q)
    BY <1>12 DEF SetStatus, Cancelling, At
  <2>2. n \in Nat /\ m \in Nat /\ k = m
    BY <2>1, CancellingSize
  <2>3. order'[o].status = s /\ (q # o => order'[q] = order[q])
    BY <1>12, StatusWritten DEF SetStatus
  <2>4. /\ cancels'[q] = cancels[q] /\ cancels[q] \in Nat /\ reopenings[q] \in Nat
        /\ reopenings'[q] = IF q = o /\ s = "OPEN" THEN reopenings[q] + 1 ELSE reopenings[q]
    BY <1>12 DEF SetStatus
  <2>5. cancels[q] + m <= n * (reopenings[q] + 1)
        /\ (order[q].status = "OPEN" => cancels[q] <= n * reopenings[q])
    BY DEF CancelRoom
  <2>6. n * reopenings[q] \in Nat /\ n * (reopenings[q] + 1) \in Nat
        /\ n * ((reopenings[q] + 1) + 1) = n * (reopenings[q] + 1) + n
    BY <2>2, <2>4, Multiples
  <2> HIDE DEF n, m, k, Inv, TypeOK
  <2>7. cancels'[q] + k <= n * (reopenings'[q] + 1)
    BY <2>2, <2>4, <2>5, <2>6
  <2>8. order'[q].status = "OPEN" => cancels'[q] <= n * reopenings'[q]
    BY <2>2, <2>3, <2>4, <2>5, <2>6
  <2> QED BY <2>7, <2>8 DEF n, k
<1>13. CASE UNCHANGED vars
  BY <1>1, <1>13 DEF vars
<1>14. CASE Environment
  BY <1>1, <1>12, <1>14 DEF Environment, EditCart, EditStock
<1> QED BY <1>3, <1>4, <1>5, <1>6, <1>7, <1>8, <1>9, <1>10, <1>11, <1>13, <1>14
        DEF Next, CreateStep, CancelStep, FailStep, CountCoupon, Crash

(* cancelOrder gives the units of an order back at most once per request   *)
(* in flight for each time the order was open.                             *)
THEOREM CancelBounded == Spec => []CancelBound
<1>1. Init => CancelRoom
  <2> SUFFICES ASSUME Init, NEW o \in Orders
               PROVE  /\ cancels[o] + Cardinality(Cancelling(o)) <= Cardinality(Workers) * (reopenings[o] + 1)
                      /\ order[o].status = "OPEN" => cancels[o] <= Cardinality(Workers) * reopenings[o]
    BY DEF CancelRoom
  <2>1. Cancelling(o) = {} /\ cancels[o] = 0 /\ reopenings[o] = 0 /\ order[o].status = "ABSENT"
    BY IdleType DEF Init, Cancelling, At
  <2>2. Cardinality(Cancelling(o)) = 0 /\ Cardinality(Workers) \in Nat
    BY <2>1, FS_EmptySet, CancellingSize
  <2> QED BY <2>1, <2>2, Multiples
<1>2. Inv /\ CancelRoom => CancelBound
  <2> SUFFICES ASSUME Inv, CancelRoom, NEW o \in Orders
               PROVE  cancels[o] <= Cardinality(Workers) * (reopenings[o] + 1)
    BY DEF CancelBound
  <2> DEFINE n == Cardinality(Workers)
             m == Cardinality(Cancelling(o))
  <2>1. n \in Nat /\ m \in Nat /\ cancels[o] \in Nat /\ reopenings[o] \in Nat
    BY CancellingSize DEF Inv, TypeOK
  <2>2. cancels[o] + m <= n * (reopenings[o] + 1) /\ n * (reopenings[o] + 1) \in Nat
    BY <2>1, Multiples DEF CancelRoom
  <2> HIDE DEF n, m
  <2>3. cancels[o] <= n * (reopenings[o] + 1)
    BY <2>1, <2>2
  <2> QED BY <2>3 DEF n
<1> QED BY <1>1, <1>2, InitInv, NextInv, CancelRoomKept, PTL DEF Spec

-----------------------------------------------------------------------------
(* totalSold.                                                              *)

(* What one order has put into totalSold.                                  *)
SoldOf(o, p) == (1 - cancels[o]) * Demand(order[o].items, p)
SoldBy(p) == [o \in Orders |-> SoldOf(o, p)]

LEMMA SoldTotal ==
    ASSUME NEW p \in Products
    PROVE  MapThenSumSet(LAMBDA o : (1 - cancels[o]) * Demand(order[o].items, p), Orders)
              = Total(SoldBy(p), Orders)
  BY PickIn DEF SoldBy, SoldOf, Total, MapThenSumSet, MapThenFoldSet, Pick

(* One more cancellation takes an order's units off once.                  *)
LEMMA OneLess ==
    ASSUME NEW c \in Int, NEW d \in Int
    PROVE  (1 - c) * d \in Int /\ (1 - (c + 1)) * d = (1 - c) * d - d /\ (1 - 0) * d = d
  OBVIOUS

LEMMA SoldTerms ==
    ASSUME TypeOK, NEW p \in Products
    PROVE  /\ Terms(SoldBy(p), Orders)
           /\ \A o \in Orders : cancels[o] \in Int /\ Demand(order[o].items, p) \in Int
<1>1. \A o \in Orders : cancels[o] \in Int /\ order[o].items \in Basket
  BY DEF TypeOK
<1>2. \A o \in Orders : Demand(order[o].items, p) \in Int
  BY <1>1, DemandType
<1>3. \A o \in Orders : SoldOf(o, p) \in Int
  BY <1>1, <1>2, OneLess DEF SoldOf
<1> QED BY <1>1, <1>2, <1>3 DEF Terms, SoldBy

(* Where one order's items or cancellations change.                        *)
LEMMA SoldChange ==
    ASSUME TypeOK, TypeOK', NEW p \in Products, NEW o \in Orders,
           \A q \in Orders \ {o} : cancels'[q] = cancels[q] /\ order'[q].items = order[q].items
    PROVE  /\ Total(SoldBy(p)', Orders) = Total(SoldBy(p), Orders) + SoldOf(o, p)' - SoldOf(o, p)
           /\ Total(SoldBy(p), Orders) \in Int /\ SoldOf(o, p) \in Int /\ SoldOf(o, p)' \in Int
<1>1. Terms(SoldBy(p), Orders) /\ Terms(SoldBy(p)', Orders)
  <2>1. Terms(SoldBy(p), Orders)'
    BY SoldTerms, PTL
  <2> QED BY <2>1, SoldTerms
<1>2. \A q \in Orders \ {o} : SoldBy(p)'[q] = SoldBy(p)[q]
  BY DEF SoldBy, SoldOf, Demand
<1>3. SoldBy(p)'[o] = SoldOf(o, p)' /\ SoldBy(p)[o] = SoldOf(o, p)
  BY DEF SoldBy
<1>4. SoldOf(o, p) \in Int /\ SoldOf(o, p)' \in Int
  BY <1>1, <1>3 DEF Terms
<1>5. Total(SoldBy(p), Orders) \in Int
  BY <1>1, OrdersFinite, TotalInt
<1>6. Total(SoldBy(p)', Orders) = Total(SoldBy(p), Orders) + SoldBy(p)'[o] - SoldBy(p)[o]
  BY <1>1, <1>2, OrdersFinite, TotalChange
<1> QED BY <1>3, <1>4, <1>5, <1>6

SoldCounted == \A p \in Products : totalSold[p] = Total(SoldBy(p), Orders)

LEMMA SoldCountedKept ==
    ASSUME Inv, Inv', [Next]_vars, SoldCounted
    PROVE  SoldCounted'
<1> USE DEF Inv, TypeOK
<1>1. ASSUME UNCHANGED <<totalSold, cancels>>, \A o \in Orders : order'[o].items = order[o].items
      PROVE  SoldCounted'
  <2>1. \A p \in Products : SoldBy(p)' = SoldBy(p)
    BY <1>1 DEF SoldBy, SoldOf, Demand
  <2> QED BY <1>1, <2>1 DEF SoldCounted
<1>2. ASSUME NEW w \in Workers, NEW o \in Orders, Commit(w, o)
      PROVE  SoldCounted'
  <2> SUFFICES ASSUME NEW p \in Products PROVE totalSold'[p] = Total(SoldBy(p)', Orders)
    BY DEF SoldCounted
  <2>1. /\ order[o].items = Empty /\ cancels[o] = 0 /\ cancels' = cancels
        /\ order'[o].items = call[w].basket
        /\ totalSold'[p] = totalSold[p] + Demand(call[w].basket, p)
    BY <1>2 DEF Commit, Fresh
  <2>2. \A q \in Orders \ {o} : cancels'[q] = cancels[q] /\ order'[q].items = order[q].items
    BY <1>2 DEF Commit
  <2>3. call[w].basket \in Basket
    BY DEF Calls
  <2>4. Demand(call[w].basket, p) \in Int
    BY <2>3, DemandType
  <2>5. SoldOf(o, p) = 0
    BY <2>1 DEF SoldOf, Demand, Empty, NoLine
  <2>6. SoldOf(o, p)' = Demand(call[w].basket, p)
    BY <2>1, <2>4, OneLess DEF SoldOf, Demand
  <2>7. totalSold[p] = Total(SoldBy(p), Orders)
    BY DEF SoldCounted
  <2> QED BY <2>1, <2>2, <2>4, <2>5, <2>6, <2>7, SoldChange
<1>3. ASSUME NEW w \in Workers, CancelTx(w)
      PROVE  SoldCounted'
  <2> SUFFICES ASSUME NEW p \in Products PROVE totalSold'[p] = Total(SoldBy(p)', Orders)
    BY DEF SoldCounted
  <2>1. PICK o \in Orders : o = call[w].order
    BY <1>3 DEF CancelTx, At, Named
  <2>2. \A q \in Orders : order'[q].items = order[q].items
    BY <1>3, <2>1, StatusWritten DEF CancelTx
  <2>3. /\ cancels'[o] = cancels[o] + 1
        /\ \A q \in Orders \ {o} : cancels'[q] = cancels[q]
        /\ totalSold'[p] = totalSold[p] - Demand(order[o].items, p)
    BY <1>3, <2>1 DEF CancelTx
  <2>4. cancels[o] \in Int /\ Demand(order[o].items, p) \in Int
    BY <2>1, DemandType
  <2>5. SoldOf(o, p)' = SoldOf(o, p) - Demand(order[o].items, p)
    <3>1. SoldOf(o, p)' = (1 - (cancels[o] + 1)) * Demand(order[o].items, p)
      BY <2>1, <2>2, <2>3 DEF SoldOf, Demand
    <3> QED BY <2>4, <3>1, OneLess DEF SoldOf
  <2>6. totalSold[p] = Total(SoldBy(p), Orders)
    BY DEF SoldCounted
  <2>7. /\ Total(SoldBy(p)', Orders) = Total(SoldBy(p), Orders) + SoldOf(o, p)' - SoldOf(o, p)
        /\ Total(SoldBy(p), Orders) \in Int /\ SoldOf(o, p) \in Int
    BY <2>1, <2>2, <2>3, SoldChange
  <2> HIDE DEF Inv, TypeOK
  <2> QED BY <2>3, <2>4, <2>5, <2>6, <2>7
<1>4. ASSUME NEW w \in Workers, FailTx(w)
      PROVE  SoldCounted'
  <2>1. call[w].order \in Orders
    BY <1>4 DEF FailTx, At, Named
  <2> QED BY <1>1, <1>4, <2>1, StatusWritten DEF FailTx
<1>5. ASSUME NEW o \in Orders, NEW s \in {"OPEN", "CANCELLED", "OTHER"}, SetStatus(o, s)
      PROVE  SoldCounted'
  BY <1>1, <1>5, StatusWritten DEF SetStatus
<1> QED BY <1>1, <1>2, <1>3, <1>4, <1>5 DEF Next, vars, CreateStep, CancelStep, FailStep, Environment,
        ReadCart, Validate, CountCoupon, CancelBegin, FailBegin, RestoreStock, EditCart, EditStock, Crash

(* totalSold is the units of the orders, each counted once and taken off   *)
(* once per cancellation that committed.                                   *)
THEOREM SoldMatched == Spec => []SoldMatchesOrders
<1>1. Init => SoldCounted
  <2> SUFFICES ASSUME Init, NEW p \in Products PROVE totalSold[p] = Total(SoldBy(p), Orders)
    BY DEF SoldCounted
  <2>1. SoldBy(p) = [o \in Orders |-> 0]
    BY DEF Init, SoldBy, SoldOf, Demand, Empty, NoLine
  <2> QED BY <2>1, OrdersFinite, TotalZero DEF Init
<1>2. SoldCounted => SoldMatchesOrders
  BY SoldTotal DEF SoldCounted, SoldMatchesOrders
<1> QED BY <1>1, <1>2, InitInv, NextInv, SoldCountedKept, PTL DEF Spec

-----------------------------------------------------------------------------
(* Coupons.                                                                *)

Placed == {o \in Orders : order[o].coupon}
Behind == {w \in Workers : At(w, "coupon")}

LEMMA CouponSizes ==
    /\ IsFiniteSet(Placed) /\ IsFiniteSet(Placed') /\ IsFiniteSet(Behind) /\ IsFiniteSet(Behind')
    /\ Cardinality(Placed) \in Nat /\ Cardinality(Behind) \in Nat
  BY OrdersFinite, WorkersFinite, FS_Subset, FS_CardinalityType DEF Placed, Behind

(* CouponCounted without the interval.                                     *)
Tally ==
    /\ Cardinality(Placed) - Cardinality(Behind) - crashes <= couponUses
    /\ couponUses <= Cardinality(Placed) - Cardinality(Behind)

(* Which requests are about to count a coupon.                             *)
LEMMA BehindChange ==
    ASSUME TypeOK, NEW w \in Workers, \A v \in Workers \ {w} : call'[v] = call[v]
    PROVE  /\ (call[w].pc = "coupon") = (call'[w].pc = "coupon") => Behind' = Behind
           /\ call[w].pc # "coupon" /\ call'[w].pc = "coupon" => Behind' = Behind \cup {w} /\ w \notin Behind
           /\ call[w].pc = "coupon" /\ call'[w].pc # "coupon" => Behind' = Behind \ {w} /\ w \in Behind
  BY DEF Behind, At

(* No coupon is placed, counted or lost.                                   *)
LEMMA CouponSame ==
    ASSUME TypeOK, TypeOK', Tally, UNCHANGED couponUses, Behind' = Behind,
           \A o \in Orders : order'[o].coupon = order[o].coupon, crashes' >= crashes
    PROVE  Tally'
<1>1. Placed' = Placed
  BY DEF Placed
<1>2. Cardinality(Placed) \in Nat /\ Cardinality(Behind) \in Nat
  BY CouponSizes
<1>3. crashes \in Nat /\ crashes' \in Nat /\ couponUses \in Nat
  BY DEF TypeOK
<1> QED BY <1>1, <1>2, <1>3 DEF Tally

LEMMA CouponKept ==
    ASSUME Inv, Inv', [Next]_vars, Tally
    PROVE  Tally'
<1>0. TypeOK /\ TypeOK' /\ call \in [Workers -> Calls] /\ Fresh /\ Named
  BY DEF Inv, TypeOK
<1>1. ASSUME UNCHANGED <<order, couponUses, crashes, call>>
      PROVE  Tally'
  <2>1. Behind' = Behind
    BY <1>1 DEF Behind, At
  <2> QED BY <1>0, <1>1, <2>1, CouponSame DEF TypeOK
<1>2. ASSUME NEW w \in Workers, UNCHANGED <<couponUses, crashes>>, \A o \in Orders : order'[o].coupon = order[o].coupon,
             \A v \in Workers \ {w} : call'[v] = call[v], call[w].pc # "coupon", call'[w].pc # "coupon"
      PROVE  Tally'
  <2>1. Behind' = Behind
    BY <1>0, <1>2, BehindChange
  <2>2. crashes' >= crashes
    BY <1>0, <1>2 DEF TypeOK
  <2> QED BY <1>0, <1>2, <2>1, <2>2, CouponSame
<1>3. ASSUME NEW w \in Workers, NEW u \in Users, NEW payload \in Payloads, ReadCart(w, u, payload)
      PROVE  Tally'
  <2>1. call[w].pc = "idle" /\ call'[w].pc = "validate" /\ \A v \in Workers \ {w} : call'[v] = call[v]
    BY <1>0, <1>3, IdleType DEF ReadCart, Accept, Idle
  <2> QED BY <1>2, <1>3, <2>1 DEF ReadCart
<1>4. ASSUME NEW w \in Workers, NEW coupon \in BOOLEAN, Validate(w, coupon)
      PROVE  Tally'
  <2>1. call'[w].pc # "coupon" /\ call[w].pc = "validate" /\ \A v \in Workers \ {w} : call'[v] = call[v]
    BY <1>0, <1>4, IdleType DEF Validate, Return, Calls, At
  <2> QED BY <1>2, <1>4, <2>1 DEF Validate
<1>5. ASSUME NEW w \in Workers, NEW o \in Orders, Commit(w, o)
      PROVE  Tally'
  <2>1. /\ call[w].pc = "commit" /\ \A v \in Workers \ {w} : call'[v] = call[v]
        /\ call'[w].pc = IF call[w].coupon THEN "coupon" ELSE "idle"
        /\ call[w].coupon \in BOOLEAN
    BY <1>0, <1>5, IdleType DEF Commit, Return, Goto, Calls, At
  <2>2. /\ ~order[o].coupon /\ order'[o].coupon = call[w].coupon
        /\ \A q \in Orders \ {o} : order'[q].coupon = order[q].coupon
    BY <1>0, <1>5 DEF Commit, Fresh, TypeOK
  <2>3. UNCHANGED <<couponUses, crashes>>
    BY <1>5 DEF Commit
  <2>4. CASE ~call[w].coupon
    <3>1. \A q \in Orders : order'[q].coupon = order[q].coupon
      <4>1. order[o].coupon \in BOOLEAN /\ order'[o].coupon \in BOOLEAN
        BY <1>0 DEF TypeOK
      <4> QED BY <2>2, <2>4, <4>1
    <3> QED BY <1>2, <2>1, <2>3, <2>4, <3>1
  <2>5. CASE call[w].coupon
    <3>1. Placed' = Placed \cup {o} /\ o \notin Placed
      BY <2>2, <2>5 DEF Placed
    <3>2. Behind' = Behind \cup {w} /\ w \notin Behind
      BY <1>0, <2>1, <2>5, BehindChange
    <3>3. /\ Cardinality(Placed') = Cardinality(Placed) + 1
          /\ Cardinality(Behind') = Cardinality(Behind) + 1
      BY <3>1, <3>2, CouponSizes, FS_AddElement
    <3>4. crashes \in Nat /\ couponUses \in Nat
      BY <1>0 DEF TypeOK
    <3> QED BY <2>3, <3>3, <3>4, CouponSizes DEF Tally
  <2> QED BY <2>4, <2>5
<1>6. ASSUME NEW w \in Workers, CountCoupon(w)
      PROVE  Tally'
  <2>1. /\ call[w].pc = "coupon" /\ call'[w].pc = "idle" /\ \A v \in Workers \ {w} : call'[v] = call[v]
        /\ couponUses' = couponUses + 1 /\ UNCHANGED <<order, crashes>>
    BY <1>0, <1>6, IdleType DEF CountCoupon, Return, At
  <2>2. Placed' = Placed
    BY <2>1 DEF Placed
  <2>3. Behind' = Behind \ {w} /\ w \in Behind
    BY <1>0, <2>1, BehindChange
  <2>4. Cardinality(Behind') = Cardinality(Behind) - 1
    BY <2>3, CouponSizes, FS_RemoveElement
  <2>5. crashes \in Nat /\ couponUses \in Nat
    BY <1>0 DEF TypeOK
  <2> QED BY <2>1, <2>2, <2>4, <2>5, CouponSizes DEF Tally
<1>7. ASSUME NEW w \in Workers, Crash(w)
      PROVE  Tally'
  <2>1. /\ call'[w].pc = "idle" /\ \A v \in Workers \ {w} : call'[v] = call[v]
        /\ crashes' = crashes + 1 /\ UNCHANGED <<order, couponUses>>
    BY <1>0, <1>7, IdleType DEF Crash, Return, At
  <2>2. crashes \in Nat /\ couponUses \in Nat
    BY <1>0 DEF TypeOK
  <2>3. CASE call[w].pc # "coupon"
    <3>1. Behind' = Behind
      BY <1>0, <2>1, <2>3, BehindChange
    <3> QED BY <1>0, <2>1, <2>2, <3>1, CouponSame
  <2>4. CASE call[w].pc = "coupon"
    <3>1. Placed' = Placed
      BY <2>1 DEF Placed
    <3>2. Behind' = Behind \ {w} /\ w \in Behind
      BY <1>0, <2>1, <2>4, BehindChange
    <3>3. Cardinality(Behind') = Cardinality(Behind) - 1
      BY <3>2, CouponSizes, FS_RemoveElement
    <3> QED BY <2>1, <2>2, <3>1, <3>3, CouponSizes DEF Tally
  <2> QED BY <2>3, <2>4
<1>8. ASSUME NEW w \in Workers, NEW o \in Orders, CancelBegin(w, o) \/ FailBegin(w, o)
      PROVE  Tally'
  <2>1. PICK pc \in {"cancel", "fail"} : Accept(w, [Idle EXCEPT !.pc = pc, !.order = o])
    BY <1>8 DEF CancelBegin, FailBegin
  <2>2. call[w].pc = "idle" /\ call'[w].pc = pc /\ \A v \in Workers \ {w} : call'[v] = call[v]
    BY <1>0, <2>1, IdleType DEF Accept, Idle
  <2> QED BY <1>2, <1>8, <2>2 DEF CancelBegin, FailBegin, Change
<1>9. ASSUME NEW w \in Workers, CancelTx(w) \/ FailTx(w)
      PROVE  Tally'
  <2>1. /\ call[w].pc \in {"cancel", "fail"} /\ call'[w].pc \in {"idle", "restore"}
        /\ \A v \in Workers \ {w} : call'[v] = call[v]
    BY <1>0, <1>9, IdleType DEF CancelTx, FailTx, Return, Calls, At
  <2>2. call[w].order \in Orders
    BY <1>0, <2>1 DEF Named
  <2>3. \A o \in Orders : order'[o].coupon = order[o].coupon
    BY <1>0, <1>9, <2>2, StatusWritten DEF CancelTx, FailTx
  <2> QED BY <1>2, <1>9, <2>1, <2>3 DEF CancelTx, FailTx
<1>10. ASSUME NEW w \in Workers, NEW p \in Products, RestoreStock(w, p)
       PROVE  Tally'
  <2>1. /\ call[w].pc = "restore" /\ call'[w].pc \in {"idle", "restore"}
        /\ \A v \in Workers \ {w} : call'[v] = call[v]
    <3>1. CASE Return(w)
      BY <1>0, <1>10, <3>1, IdleType DEF Return, RestoreStock, At
    <3>2. CASE ~Return(w)
      BY <1>0, <1>10, <3>2 DEF RestoreStock, At, Calls
    <3> QED BY <3>1, <3>2
  <2> QED BY <1>2, <1>10, <2>1 DEF RestoreStock
<1>11. ASSUME NEW o \in Orders, NEW s \in {"OPEN", "CANCELLED", "OTHER"}, SetStatus(o, s)
       PROVE  Tally'
  <2>1. Behind' = Behind /\ UNCHANGED <<couponUses, crashes>>
    BY <1>11 DEF SetStatus, Behind, At, Change
  <2>2. \A q \in Orders : order'[q].coupon = order[q].coupon
    BY <1>0, <1>11, StatusWritten DEF SetStatus
  <2>3. crashes' >= crashes
    BY <1>0, <2>1 DEF TypeOK
  <2> QED BY <1>0, <2>1, <2>2, <2>3, CouponSame
<1>12. CASE UNCHANGED vars
  BY <1>1, <1>12 DEF vars
<1>13. CASE Environment
  BY <1>1, <1>11, <1>13 DEF Environment, EditCart, EditStock, Change
<1> QED BY <1>3, <1>4, <1>5, <1>6, <1>7, <1>8, <1>9, <1>10, <1>12, <1>13
        DEF Next, CreateStep, CancelStep, FailStep

(* coupon.usedCount is the orders placed with the coupon, less those whose *)
(* request has yet to count it, and at most the killed ones below.         *)
THEOREM CouponsCounted == Spec => []CouponCounted
<1>1. Init => Tally
  <2> SUFFICES ASSUME Init PROVE Tally
    OBVIOUS
  <2>1. Placed = {} /\ Behind = {} /\ couponUses = 0 /\ crashes = 0
    BY IdleType DEF Init, Placed, Behind, At
  <2> QED BY <2>1, FS_EmptySet DEF Tally
<1>2. Inv /\ Tally => CouponCounted
  BY CouponSizes DEF CouponCounted, Tally, Placed, Behind, Inv, TypeOK
<1> QED BY <1>1, <1>2, InitInv, NextInv, CouponKept, PTL DEF Spec
=============================================================================
