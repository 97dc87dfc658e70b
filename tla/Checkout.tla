------------------------------ MODULE Checkout ------------------------------
(***************************************************************************)
(* Stock under concurrent requests: createOrder (cart or payload, stock    *)
(* validation, the order transaction, the coupon count), cancelOrder, and  *)
(* the tail of payment.failed that puts stock back.                        *)
(*                                                                         *)
(* createOrder reads the cart, then the stock, and commits in a            *)
(* transaction that looks at neither again.  Each await is a step, each    *)
(* $transaction one step, and requests of any customers interleave.        *)
(*                                                                         *)
(* Abstracted: of the lines of a product a basket keeps the units without  *)
(* a variant, the units of variants and the largest single line; prices    *)
(* are left out; order.status is "OPEN" (PENDING or CONFIRMED),            *)
(* "CANCELLED" or "OTHER"; which handler of payments, delivery or admin    *)
(* writes order.status is not told apart (SetStatus).                      *)
(***************************************************************************)
EXTENDS Integers, FiniteSets, FiniteSetsExt

CONSTANTS
    Products, Users, Orders, Workers, None,
    Payloads,     \* item lists a client may send with the request
    MaxQty,       \* bound: quantity of one line
    MaxStock,     \* bound: stock a vendor enters
    MaxChanges,   \* bound: cart edits, stock edits, status writes, failure webhooks
    MaxCrashes    \* bound: requests killed in flight

ASSUME QtyAssumption == MaxQty \in Nat
ASSUME StockAssumption == MaxStock \in Nat
ASSUME ChangesAssumption == MaxChanges \in Nat /\ MaxCrashes \in Nat
ASSUME WorkersFinite == IsFiniteSet(Workers)
ASSUME OrdersFinite == IsFiniteSet(Orders)
ASSUME NoneIsNoOrder == None \notin Orders \cup Users

(* The lines of one product: the units, and the largest of the lines.      *)
Lines == {l \in [plain : 0..MaxQty, variant : 0..MaxQty, largest : 0..MaxQty] :
             /\ l.largest <= l.plain \/ l.largest <= l.variant
             /\ l.largest = 0 => l.plain + l.variant = 0}
Basket == [Products -> Lines]
NoLine == [plain |-> 0, variant |-> 0, largest |-> 0]
Empty == [p \in Products |-> NoLine]

ASSUME PayloadsAssumption == Payloads \subseteq Basket

(* product.stock is decremented for variants too.                          *)
Demand(basket, p) == basket[p].plain + basket[p].variant

Labels == {"idle", "validate", "commit", "coupon", "cancel", "fail", "restore"}
Calls == [pc : Labels, user : Users \cup {None}, order : Orders \cup {None}, basket : Basket,
          fromCart : BOOLEAN, coupon : BOOLEAN, todo : SUBSET Products]
Idle == [pc |-> "idle", user |-> None, order |-> None, basket |-> Empty,
         fromCart |-> FALSE, coupon |-> FALSE, todo |-> {}]

VARIABLES
    stock,         \* product.stock
    variantStock,  \* productVariant.stock, counted from its initial value
    totalSold,     \* product.totalSold
    supply,        \* history: units entered by vendors, plus units failed payments brought back
    cart,          \* cart[u]: the cart lines of user u
    order,         \* order[o]: status, items and coupon
    cancels,       \* history: times cancelOrder committed for order o
    reopenings,    \* history: times order o became PENDING or CONFIRMED again
    couponUses,    \* coupon.usedCount
    call,          \* call[w]: the request in flight on worker w
    changes, crashes

shelf == <<stock, variantStock, totalSold, supply>>
history == <<cancels, reopenings>>
vars == <<shelf, cart, order, history, couponUses, call, changes, crashes>>

Init ==
    /\ stock \in [Products -> 0..MaxStock]
    /\ variantStock = [p \in Products |-> 0]
    /\ totalSold = [p \in Products |-> 0]
    /\ supply = stock
    /\ cart = [u \in Users |-> Empty]
    /\ order = [o \in Orders |-> [status |-> "ABSENT", items |-> Empty, coupon |-> FALSE]]
    /\ cancels = [o \in Orders |-> 0]
    /\ reopenings = [o \in Orders |-> 0]
    /\ couponUses = 0
    /\ call = [w \in Workers |-> Idle]
    /\ changes = 0
    /\ crashes = 0

At(w, pc) == call[w].pc = pc
Accept(w, request) == call[w] = Idle /\ call' = [call EXCEPT ![w] = request]
Goto(w, pc) == call' = [call EXCEPT ![w].pc = pc]
Return(w) == call' = [call EXCEPT ![w] = Idle]
Change == changes < MaxChanges /\ changes' = changes + 1 /\ UNCHANGED crashes

-----------------------------------------------------------------------------
(* createOrder.                                                            *)

(* The customer's cart if it has lines, else the items of the request.     *)
ReadCart(w, u, payload) ==
    LET fromCart == cart[u] # Empty IN
    /\ fromCart \/ payload # Empty
    /\ Accept(w, [Idle EXCEPT !.pc = "validate", !.user = u, !.fromCart = fromCart,
                              !.basket = IF fromCart THEN cart[u] ELSE payload])
    /\ UNCHANGED <<shelf, cart, order, history, couponUses, changes, crashes>>

(* Mutant: stock is compared with nothing.                                 *)
EnoughAlways(basket) == TRUE

(* validateStock compares each line with the stock on its own: the largest *)
(* one decides.                                                            *)
Enough(basket) ==
    \A p \in Products : basket[p] # NoLine => stock[p] >= basket[p].largest

(* A rejected request changes nothing; a valid coupon is only noted here.  *)
Validate(w, coupon) ==
    /\ At(w, "validate")
    /\ IF Enough(call[w].basket)
       THEN call' = [call EXCEPT ![w].pc = "commit", ![w].coupon = coupon]
       ELSE Return(w)
    /\ UNCHANGED <<shelf, cart, order, history, couponUses, changes, crashes>>

(* Mutant: lines of variants do not touch product.stock.                   *)
CommitPlainOnly(w, o) ==
    LET basket == call[w].basket IN
    /\ At(w, "commit")
    /\ order[o].status = "ABSENT"
    /\ order' = [order EXCEPT ![o] =
                    [status |-> "OPEN", items |-> basket, coupon |-> call[w].coupon]]
    /\ stock' = [p \in Products |-> stock[p] - basket[p].plain]
    /\ totalSold' = [p \in Products |-> totalSold[p] + Demand(basket, p)]
    /\ cart' = IF call[w].fromCart THEN [cart EXCEPT ![call[w].user] = Empty] ELSE cart
    /\ IF call[w].coupon THEN Goto(w, "coupon") ELSE Return(w)
    /\ UNCHANGED <<variantStock, supply, history, couponUses, changes, crashes>>

Commit(w, o) ==
    LET basket == call[w].basket IN
    /\ At(w, "commit")
    /\ order[o].status = "ABSENT"
    /\ order' = [order EXCEPT ![o] =
                    [status |-> "OPEN", items |-> basket, coupon |-> call[w].coupon]]
    /\ stock' = [p \in Products |-> stock[p] - Demand(basket, p)]
    /\ totalSold' = [p \in Products |-> totalSold[p] + Demand(basket, p)]
    /\ cart' = IF call[w].fromCart THEN [cart EXCEPT ![call[w].user] = Empty] ELSE cart
    /\ IF call[w].coupon THEN Goto(w, "coupon") ELSE Return(w)
    /\ UNCHANGED <<variantStock, supply, history, couponUses, changes, crashes>>

(* Mutant: the coupon is counted twice.                                    *)
CountCouponTwice(w) ==
    /\ At(w, "coupon")
    /\ couponUses' = couponUses + 2
    /\ Return(w)
    /\ UNCHANGED <<shelf, cart, order, history, changes, crashes>>

(* After the transaction.                                                  *)
CountCoupon(w) ==
    /\ At(w, "coupon")
    /\ couponUses' = couponUses + 1
    /\ Return(w)
    /\ UNCHANGED <<shelf, cart, order, history, changes, crashes>>

-----------------------------------------------------------------------------
(* cancelOrder.                                                            *)

(* Mutant: any order may be cancelled.                                     *)
CancelBeginUnchecked(w, o) ==
    /\ order[o].status # "ABSENT"
    /\ Accept(w, [Idle EXCEPT !.pc = "cancel", !.order = o])
    /\ UNCHANGED <<shelf, cart, order, history, couponUses, changes, crashes>>

CancelBegin(w, o) ==
    /\ order[o].status = "OPEN"
    /\ Accept(w, [Idle EXCEPT !.pc = "cancel", !.order = o])
    /\ UNCHANGED <<shelf, cart, order, history, couponUses, changes, crashes>>

(* Mutant: totalSold keeps counting a cancelled order.                     *)
CancelTxStillSold(w) ==
    LET o == call[w].order IN
    /\ At(w, "cancel")
    /\ order' = [order EXCEPT ![o].status = "CANCELLED"]
    /\ stock' = [p \in Products |-> stock[p] + Demand(order[o].items, p)]
    /\ cancels' = [cancels EXCEPT ![o] = @ + 1]
    /\ Return(w)
    /\ UNCHANGED <<variantStock, totalSold, supply, cart, reopenings, couponUses, changes, crashes>>

CancelTx(w) ==
    LET o == call[w].order IN
    /\ At(w, "cancel")
    /\ order' = [order EXCEPT ![o].status = "CANCELLED"]
    /\ stock' = [p \in Products |-> stock[p] + Demand(order[o].items, p)]
    /\ totalSold' = [p \in Products |-> totalSold[p] - Demand(order[o].items, p)]
    /\ cancels' = [cancels EXCEPT ![o] = @ + 1]
    /\ Return(w)
    /\ UNCHANGED <<variantStock, supply, cart, reopenings, couponUses, changes, crashes>>

-----------------------------------------------------------------------------
(* payment.failed, which does not look at order.status: cancel in a        *)
(* transaction, then put back item by item, variant lines to the variant.  *)

FailBegin(w, o) ==
    /\ order[o].status # "ABSENT"
    /\ Accept(w, [Idle EXCEPT !.pc = "fail", !.order = o])
    /\ UNCHANGED <<shelf, cart, order, history, couponUses>>
    /\ Change

FailTx(w) ==
    LET o == call[w].order IN
    /\ At(w, "fail")
    /\ order' = [order EXCEPT ![o].status = "CANCELLED"]
    /\ call' = [call EXCEPT ![w].pc = "restore", ![w].todo = {p \in Products : Demand(order[o].items, p) > 0}]
    /\ UNCHANGED <<shelf, cart, history, couponUses, changes, crashes>>

(* Mutant: a failed payment takes the variant's units instead.             *)
RestoreStockTakes(w, p) ==
    LET lines == order[call[w].order].items[p]
        rest == call[w].todo \ {p} IN
    /\ At(w, "restore")
    /\ p \in call[w].todo
    /\ stock' = [stock EXCEPT ![p] = @ + lines.plain]
    /\ supply' = [supply EXCEPT ![p] = @ + lines.plain]
    /\ variantStock' = [variantStock EXCEPT ![p] = @ - lines.variant]
    /\ IF rest = {} THEN Return(w) ELSE call' = [call EXCEPT ![w].todo = rest]
    /\ UNCHANGED <<totalSold, cart, order, history, couponUses, changes, crashes>>

RestoreStock(w, p) ==
    LET lines == order[call[w].order].items[p]
        rest == call[w].todo \ {p} IN
    /\ At(w, "restore")
    /\ p \in call[w].todo
    /\ stock' = [stock EXCEPT ![p] = @ + lines.plain]
    /\ supply' = [supply EXCEPT ![p] = @ + lines.plain]
    /\ variantStock' = [variantStock EXCEPT ![p] = @ + lines.variant]
    /\ IF rest = {} THEN Return(w) ELSE call' = [call EXCEPT ![w].todo = rest]
    /\ UNCHANGED <<totalSold, cart, order, history, couponUses, changes, crashes>>

-----------------------------------------------------------------------------
(* Around these handlers.                                                  *)

(* cart.service: lines are added, changed or removed; a line that grows is *)
(* compared with the stock of that moment.                                 *)
EditCart(u, p, lines) ==
    /\ cart[u][p] # lines
    /\ lines.largest > cart[u][p].largest => stock[p] >= lines.largest
    /\ cart' = [cart EXCEPT ![u][p] = lines]
    /\ UNCHANGED <<shelf, order, history, couponUses, call>>
    /\ Change

(* products.service update: the vendor overwrites the stock.               *)
EditStock(p, units) ==
    /\ stock[p] # units
    /\ stock' = [stock EXCEPT ![p] = units]
    /\ supply' = [supply EXCEPT ![p] = @ + units - stock[p]]
    /\ UNCHANGED <<variantStock, totalSold, cart, order, history, couponUses, call>>
    /\ Change

(* Payments, delivery and admin handlers write order.status.               *)
SetStatus(o, s) ==
    /\ order[o].status \notin {"ABSENT", s}
    /\ order' = [order EXCEPT ![o].status = s]
    /\ reopenings' = [reopenings EXCEPT ![o] = IF s = "OPEN" THEN @ + 1 ELSE @]
    /\ UNCHANGED <<shelf, cart, cancels, couponUses, call>>
    /\ Change

Crash(w) ==
    /\ call[w] # Idle
    /\ crashes < MaxCrashes
    /\ crashes' = crashes + 1
    /\ Return(w)
    /\ UNCHANGED <<shelf, cart, order, history, couponUses, changes>>

-----------------------------------------------------------------------------
CreateStep(w) ==
    \/ \E u \in Users, payload \in Payloads : ReadCart(w, u, payload)
    \/ \E coupon \in BOOLEAN : Validate(w, coupon)
    \/ \E o \in Orders : Commit(w, o)
    \/ CountCoupon(w)

CancelStep(w) == (\E o \in Orders : CancelBegin(w, o)) \/ CancelTx(w)

FailStep(w) ==
    \/ \E o \in Orders : FailBegin(w, o)
    \/ FailTx(w)
    \/ \E p \in Products : RestoreStock(w, p)

Environment ==
    \/ \E u \in Users, p \in Products, lines \in Lines : EditCart(u, p, lines)
    \/ \E p \in Products, units \in 0..MaxStock : EditStock(p, units)
    \/ \E o \in Orders, s \in {"OPEN", "CANCELLED", "OTHER"} : SetStatus(o, s)

Next ==
    \/ \E w \in Workers : CreateStep(w) \/ CancelStep(w) \/ FailStep(w) \/ Crash(w)
    \/ Environment

Spec == Init /\ [][Next]_vars

-----------------------------------------------------------------------------
(* Properties.                                                             *)

(* Rows, counters and requests have their types; stock may be negative.    *)
TypeOK ==
    /\ stock \in [Products -> Int]
    /\ variantStock \in [Products -> Nat]
    /\ totalSold \in [Products -> Int]
    /\ supply \in [Products -> Int]
    /\ cart \in [Users -> Basket]
    /\ order \in [Orders -> [status : {"ABSENT", "OPEN", "CANCELLED", "OTHER"},
                             items : Basket, coupon : BOOLEAN]]
    /\ cancels \in [Orders -> Nat]
    /\ reopenings \in [Orders -> Nat]
    /\ couponUses \in Nat
    /\ call \in [Workers -> Calls]
    /\ changes \in Nat
    /\ crashes \in Nat

(* Requests that passed validation for product p and have yet to commit.   *)
Reserving(p) == {w \in Workers : At(w, "commit") /\ Demand(call[w].basket, p) > 0}

(* Overselling is bounded by what can be in flight: whatever is ordered,   *)
(* cancelled, failed or re-stocked, stock falls below zero by at most one  *)
(* basket per concurrent request (validateStock runs outside the           *)
(* transaction that decrements).                                           *)
OversellBound ==
    \A p \in Products : stock[p] >= -(2 * MaxQty * Cardinality(Workers))

(* product.stock and product.totalSold account for every unit: together    *)
(* they are what vendors entered (plus what failed payments brought back,  *)
(* which restoreStock does not take off totalSold).                        *)
StockAccounts ==
    \A p \in Products : stock[p] + totalSold[p] = supply[p]

(* totalSold is what the orders say was sold, each order counted once and  *)
(* taken off once per cancellation.                                        *)
SoldMatchesOrders ==
    \A p \in Products :
        totalSold[p] = MapThenSumSet(LAMBDA o : (1 - cancels[o]) * Demand(order[o].items, p), Orders)

Cancelling(o) == {w \in Workers : At(w, "cancel") /\ call[w].order = o}

(* cancelOrder gives the stock of an order back at most once per request   *)
(* in flight for each time the order was open: two cancels of one order    *)
(* may both commit, a cancelled one cannot be cancelled again.             *)
CancelBound ==
    \A o \in Orders : cancels[o] <= Cardinality(Workers) * (reopenings[o] + 1)

(* coupon.usedCount is the number of orders placed with the coupon, but    *)
(* for requests that have not counted it yet or died before they could.    *)
CouponCounted ==
    LET placed == Cardinality({o \in Orders : order[o].coupon})
        behind == Cardinality({w \in Workers : At(w, "coupon")})
    IN  couponUses \in (placed - behind - crashes)..(placed - behind)
=============================================================================
