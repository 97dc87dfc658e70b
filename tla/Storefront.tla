----------------------------- MODULE Storefront -----------------------------
(***************************************************************************)
(* What a customer picks before paying: the cart (cart.service.ts and the  *)
(* part of createOrder that reads and empties it) and the wishlist         *)
(* (wishlist.service.ts), under requests of one customer that overlap: two *)
(* tabs, a double click, an order placed while an item is being added.     *)
(*                                                                         *)
(* One customer and one product with its variants: rows are found by the   *)
(* customer's id, and no handler here relates two products.  Every await   *)
(* is a step.  Prices are in Amounts; what becomes of the order is in      *)
(* Checkout and Payments.                                                  *)
(***************************************************************************)
EXTENDS Integers, FiniteSets

CONSTANTS
    Variants,    \* variants of the product
    LineIds,     \* ids of CartItem rows, each used once
    Workers,     \* requests in flight at once
    None,        \* SQL NULL: no variant, no row
    MaxStock,    \* bound: stock a vendor enters
    MaxCalls     \* bound: requests of the customer and edits of the product

ASSUME WorkersFinite == IsFiniteSet(Workers)
ASSUME NoneIsNoRow == None \notin Variants \cup LineIds
ASSUME BoundsAreNat == MaxStock \in Nat /\ MaxCalls \in Nat

Keys == Variants \cup {None}
Quantities == 1..MaxStock

(* fate "missed": deleted by an order that does not contain it as it was.  *)
Fates == {"unused", "inCart", "removed", "ordered", "missed"}
CartItem == [fate : Fates, variantId : Keys, quantity : Nat]

Ops == {"idle", "view", "add", "set", "remove", "clear", "order", "toggle", "unwish"}
Labels == {"idle", "cart", "newCart", "find", "write"}
Calls == [op : Ops, pc : Labels, variantId : Keys, quantity : 0..MaxStock, stock : 0..MaxStock,
          line : LineIds \cup {None}, read : [LineIds -> 0..MaxStock], wish : Nat]
Idle == [op |-> "idle", pc |-> "idle", variantId |-> None, quantity |-> 0, stock |-> 0,
         line |-> None, read |-> [i \in LineIds |-> 0], wish |-> 0]

VARIABLES
    stock,       \* product.stock
    onSale,      \* product.isActive and APPROVED
    hasCart,     \* the customer's Cart row exists
    item,        \* item[i]: the CartItem row of id i
    wish,        \* id of the Wishlist row, 0 if there is none
    wishes,      \* history: Wishlist rows created
    asked,       \* history: units of line i the answered requests add up to
    edited,      \* history: lines whose quantity updateItem set
    ordered,     \* history: orders that contain line i
    flips,       \* history: toggles answered since the last removal
    overlapped,  \* history: two requests on the cart were in flight at once
    call, calls

catalog == <<stock, onSale>>
lines == <<hasCart, item, asked, edited, ordered>>
wishlist == <<wish, wishes, flips>>
vars == <<catalog, lines, wishlist, overlapped, call, calls>>

Init ==
    /\ stock \in 0..MaxStock
    /\ onSale = TRUE
    /\ hasCart = FALSE
    /\ item = [i \in LineIds |-> [fate |-> "unused", variantId |-> None, quantity |-> 0]]
    /\ wish = 0 /\ wishes = 0 /\ flips = 0
    /\ asked = [i \in LineIds |-> 0]
    /\ edited = {}
    /\ ordered = [i \in LineIds |-> 0]
    /\ overlapped = FALSE
    /\ call = [w \in Workers |-> Idle]
    /\ calls = 0

InCart == {i \in LineIds : item[i].fate = "inCart"}
IsAt(w, op, pc) == call[w].op = op /\ call[w].pc = pc
Goto(w, pc) == call' = [call EXCEPT ![w].pc = pc]
Return(w) == call' = [call EXCEPT ![w] = Idle]
Spend == calls < MaxCalls /\ calls' = calls + 1

OnCart == {"view", "add", "set", "remove", "clear", "order"}

Accept(w, request) ==
    /\ call[w] = Idle
    /\ call' = [call EXCEPT ![w] = request]
    /\ overlapped' = (overlapped \/ (request.op \in OnCart /\ \E v \in Workers : call[v].op \in OnCart))
    /\ Spend
    /\ UNCHANGED <<catalog, lines, wishlist>>

-----------------------------------------------------------------------------
(* getOrCreateCart, at the start of addToCart and of GET /cart.            *)

ViewBegin(w) == Accept(w, [Idle EXCEPT !.op = "view", !.pc = "cart"])

FindCart(w) ==
    /\ call[w].pc = "cart"
    /\ IF ~hasCart THEN Goto(w, "newCart")
       ELSE IF call[w].op = "add" THEN Goto(w, "find") ELSE Return(w)
    /\ UNCHANGED <<catalog, lines, wishlist, overlapped, calls>>

(* userId is unique: the second of two concurrent creations throws.        *)
CreateCart(w) ==
    /\ call[w].pc = "newCart"
    /\ hasCart' = TRUE
    /\ IF ~hasCart /\ call[w].op = "add" THEN Goto(w, "find") ELSE Return(w)
    /\ UNCHANGED <<catalog, item, asked, edited, ordered, wishlist, overlapped, calls>>

-----------------------------------------------------------------------------
(* addToCart.                                                              *)

AddBegin(w, k, q) ==
    /\ onSale /\ stock >= q
    /\ Accept(w, [Idle EXCEPT !.op = "add", !.pc = "cart", !.variantId = k,
                              !.quantity = q, !.stock = stock])

Matching(k) == {i \in InCart : item[i].variantId = k}

(* Mutant: a line without a variant is never found.                        *)
FindLineByVariant(w) ==
    /\ IsAt(w, "add", "find")
    /\ LET found == IF call[w].variantId = None THEN {} ELSE Matching(call[w].variantId) IN
       \/ \E i \in found :
             call' = [call EXCEPT ![w] = [@ EXCEPT !.pc = "write", !.line = i, !.read[i] = item[i].quantity]]
       \/ found = {} /\ Goto(w, "write")
    /\ UNCHANGED <<catalog, lines, wishlist, overlapped, calls>>

(* findFirst, in no order.                                                 *)
FindLine(w) ==
    /\ IsAt(w, "add", "find")
    /\ LET found == Matching(call[w].variantId) IN
       \/ \E i \in found :
             call' = [call EXCEPT ![w] = [@ EXCEPT !.pc = "write", !.line = i, !.read[i] = item[i].quantity]]
       \/ found = {} /\ Goto(w, "write")
    /\ UNCHANGED <<catalog, lines, wishlist, overlapped, calls>>

(* Mutant: the sum is not compared with the stock.                         *)
AddToLineUnchecked(w) ==
    LET c == call[w] i == c.line newQty == c.read[i] + c.quantity IN
    /\ IsAt(w, "add", "write") /\ i # None
    /\ IF item[i].fate = "inCart"
       THEN /\ item' = [item EXCEPT ![i].quantity = newQty]
            /\ asked' = [asked EXCEPT ![i] = @ + c.quantity]
       ELSE UNCHANGED <<item, asked>>
    /\ Return(w)
    /\ UNCHANGED <<catalog, hasCart, edited, ordered, wishlist, overlapped, calls>>

(* Mutant: the new quantity replaces the old one.                          *)
AddToLineReplaces(w) ==
    LET c == call[w] i == c.line newQty == c.quantity IN
    /\ IsAt(w, "add", "write") /\ i # None
    /\ IF newQty <= c.stock /\ item[i].fate = "inCart"
       THEN /\ item' = [item EXCEPT ![i].quantity = newQty]
            /\ asked' = [asked EXCEPT ![i] = @ + c.quantity]
       ELSE UNCHANGED <<item, asked>>
    /\ Return(w)
    /\ UNCHANGED <<catalog, hasCart, edited, ordered, wishlist, overlapped, calls>>

(* The quantity read plus this one, if the stock read at the start allows  *)
(* it; a line deleted meanwhile makes the update throw.                    *)
AddToLine(w) ==
    LET c == call[w] i == c.line newQty == c.read[i] + c.quantity IN
    /\ IsAt(w, "add", "write") /\ i # None
    /\ IF newQty <= c.stock /\ item[i].fate = "inCart"
       THEN /\ item' = [item EXCEPT ![i].quantity = newQty]
            /\ asked' = [asked EXCEPT ![i] = @ + c.quantity]
       ELSE UNCHANGED <<item, asked>>
    /\ Return(w)
    /\ UNCHANGED <<catalog, hasCart, edited, ordered, wishlist, overlapped, calls>>

(* (cartId, productId, variantId) is unique, but NULLs are never equal: it *)
(* stops a second line of a variant only.                                  *)
AddNewLine(w, i) ==
    LET c == call[w] IN
    /\ IsAt(w, "add", "write") /\ c.line = None
    /\ item[i].fate = "unused"
    /\ IF c.variantId = None \/ Matching(c.variantId) = {}
       THEN /\ item' = [item EXCEPT ![i] = [fate |-> "inCart", variantId |-> c.variantId,
                                             quantity |-> c.quantity]]
            /\ asked' = [asked EXCEPT ![i] = c.quantity]
       ELSE UNCHANGED <<item, asked>>
    /\ Return(w)
    /\ UNCHANGED <<catalog, hasCart, edited, ordered, wishlist, overlapped, calls>>

-----------------------------------------------------------------------------
(* updateItem, removeItem, clearCart: the row is looked up, then written.  *)

SetBegin(w, i, q) ==
    /\ i \in InCart /\ stock >= q
    /\ Accept(w, [Idle EXCEPT !.op = "set", !.pc = "write", !.line = i, !.quantity = q])

SetQuantity(w) ==
    LET i == call[w].line IN
    /\ IsAt(w, "set", "write")
    /\ IF i \in InCart
       THEN /\ item' = [item EXCEPT ![i].quantity = call[w].quantity]
            /\ asked' = [asked EXCEPT ![i] = call[w].quantity]
            /\ edited' = edited \cup {i}
       ELSE UNCHANGED <<item, asked, edited>>
    /\ Return(w)
    /\ UNCHANGED <<catalog, hasCart, ordered, wishlist, overlapped, calls>>

Delete(ids, fate) ==
    item' = [i \in LineIds |->
                IF i \in ids \cap InCart THEN [item[i] EXCEPT !.fate = fate[i]] ELSE item[i]]

RemoveBegin(w, i) ==
    /\ i \in InCart
    /\ Accept(w, [Idle EXCEPT !.op = "remove", !.pc = "write", !.line = i])

ClearBegin(w) == hasCart /\ Accept(w, [Idle EXCEPT !.op = "clear", !.pc = "write"])

Remove(w) ==
    /\ call[w].op \in {"remove", "clear"} /\ call[w].pc = "write"
    /\ Delete(IF call[w].op = "clear" THEN LineIds ELSE {call[w].line}, [i \in LineIds |-> "removed"])
    /\ Return(w)
    /\ UNCHANGED <<catalog, hasCart, asked, edited, ordered, wishlist, overlapped, calls>>

-----------------------------------------------------------------------------
(* createOrder: reads the lines; after the stock, coupon and address look- *)
(* ups, its transaction orders what was read and empties the cart.         *)

OrderBegin(w) ==
    /\ InCart # {}
    /\ Accept(w, [Idle EXCEPT !.op = "order", !.pc = "write",
                              !.read = [i \in LineIds |-> IF i \in InCart THEN item[i].quantity ELSE 0]])

OrderRefused(w) ==
    /\ IsAt(w, "order", "write")
    /\ Return(w)
    /\ UNCHANGED <<catalog, lines, wishlist, overlapped, calls>>

(* Mutant: the cart keeps its lines.                                       *)
OrderTxKeepsCart(w) ==
    LET read == call[w].read IN
    /\ IsAt(w, "order", "write")
    /\ ordered' = [i \in LineIds |-> ordered[i] + IF read[i] > 0 THEN 1 ELSE 0]
    /\ Return(w)
    /\ UNCHANGED <<catalog, hasCart, item, asked, edited, wishlist, overlapped, calls>>

OrderTx(w) ==
    LET read == call[w].read IN
    /\ IsAt(w, "order", "write")
    /\ ordered' = [i \in LineIds |-> ordered[i] + IF read[i] > 0 THEN 1 ELSE 0]
    /\ Delete(LineIds, [i \in LineIds |-> IF read[i] = item[i].quantity THEN "ordered" ELSE "missed"])
    /\ Return(w)
    /\ UNCHANGED <<catalog, hasCart, asked, edited, wishlist, overlapped, calls>>

-----------------------------------------------------------------------------
(* The wishlist: toggle reads, then deletes by id or creates.              *)

ToggleBegin(w) == Accept(w, [Idle EXCEPT !.op = "toggle", !.pc = "write", !.wish = wish])

(* Mutant: deletes by customer and product, found or not.                  *)
ToggleDeletesAny(w) ==
    LET seen == call[w].wish IN
    /\ IsAt(w, "toggle", "write")
    /\ \/ seen # 0 /\ wish' = 0 /\ flips' = flips + 1 /\ UNCHANGED wishes
       \/ seen = 0 /\ wish = 0 /\ wish' = wishes + 1 /\ wishes' = wishes + 1 /\ flips' = flips + 1
       \/ seen = 0 /\ wish # 0 /\ UNCHANGED wishlist
    /\ Return(w)
    /\ UNCHANGED <<catalog, lines, overlapped, calls>>

(* (userId, productId) is unique: creating a second row throws, as does    *)
(* deleting a row that is gone.                                            *)
Toggle(w) ==
    LET seen == call[w].wish IN
    /\ IsAt(w, "toggle", "write")
    /\ \/ seen # 0 /\ wish = seen /\ wish' = 0 /\ flips' = flips + 1 /\ UNCHANGED wishes
       \/ seen = 0 /\ wish = 0 /\ wish' = wishes + 1 /\ wishes' = wishes + 1 /\ flips' = flips + 1
       \/ seen # wish /\ UNCHANGED wishlist
    /\ Return(w)
    /\ UNCHANGED <<catalog, lines, overlapped, calls>>

(* remove: one deleteMany.                                                 *)
Unwish ==
    /\ wish' = 0 /\ flips' = 0
    /\ Spend
    /\ UNCHANGED <<catalog, lines, wishes, overlapped, call>>

-----------------------------------------------------------------------------
(* The vendor's and the admin's edits of the product, and what other       *)
(* customers buy.                                                          *)
EditProduct(n, b) ==
    /\ <<n, b>> # <<stock, onSale>>
    /\ stock' = n /\ onSale' = b
    /\ Spend
    /\ UNCHANGED <<lines, wishlist, overlapped, call>>

(* A process dies or a database call throws: nothing here is half done.    *)
Crash(w) ==
    /\ call[w] # Idle
    /\ Return(w)
    /\ UNCHANGED <<catalog, lines, wishlist, overlapped, calls>>

CartStep(w) ==
    \/ ViewBegin(w) \/ FindCart(w) \/ CreateCart(w)
    \/ \E k \in Keys, q \in Quantities : AddBegin(w, k, q)
    \/ FindLine(w) \/ AddToLine(w)
    \/ \E i \in LineIds : AddNewLine(w, i)
    \/ \E i \in LineIds, q \in Quantities : SetBegin(w, i, q)
    \/ SetQuantity(w)
    \/ \E i \in LineIds : RemoveBegin(w, i)
    \/ ClearBegin(w) \/ Remove(w)
    \/ OrderBegin(w) \/ OrderRefused(w) \/ OrderTx(w)

Next ==
    \/ \E w \in Workers : CartStep(w) \/ ToggleBegin(w) \/ Toggle(w) \/ Crash(w)
    \/ Unwish
    \/ \E n \in 0..MaxStock, b \in BOOLEAN : EditProduct(n, b)

Spec == Init /\ [][Next]_vars

-----------------------------------------------------------------------------
(* Properties.                                                             *)

(* Rows and requests have their types; no line ever asks for more units    *)
(* than the product had at some time (addToCart checks the sum against the *)
(* stock it read, updateItem the new quantity).                            *)
TypeOK ==
    /\ stock \in 0..MaxStock /\ onSale \in BOOLEAN /\ hasCart \in BOOLEAN
    /\ item \in [LineIds -> CartItem]
    /\ \A i \in InCart : item[i].quantity \in Quantities
    /\ wish \in 0..wishes /\ wishes \in Nat /\ flips \in Nat
    /\ asked \in [LineIds -> Nat] /\ edited \subseteq LineIds /\ ordered \in [LineIds -> Nat]
    /\ overlapped \in BOOLEAN
    /\ call \in [Workers -> Calls]
    /\ calls \in 0..MaxCalls

(* Requests that found no line to add k to and have yet to create one.     *)
Creating(k) == {w \in Workers : IsAt(w, "add", "write") /\ call[w].line = None /\ call[w].variantId = k}

(* The cart has one line per variant; without a variant the unique key     *)
(* does not bind, and concurrent addToCart calls leave at most one line    *)
(* per request that can be in flight, those about to be created included.  *)
LinesBounded ==
    /\ \A k \in Variants : Cardinality(Matching(k)) <= 1
    /\ Cardinality(Matching(None)) + Cardinality(Creating(None)) <= Cardinality(Workers)

(* Nothing but the emptied cart stops a second order of the same lines:    *)
(* createOrder requests in flight together all order what they read, and   *)
(* no line is in more orders than that.                                    *)
OrderedBound == \A i \in LineIds : ordered[i] <= Cardinality(Workers)

(* Overlapping additions lose units but never invent them; and as long as  *)
(* no two requests on the cart overlapped, every line holds exactly what   *)
(* was asked for and no order emptied out a line it does not contain.      *)
UnitsAccounted ==
    \A i \in LineIds :
        /\ i \in InCart /\ i \notin edited => item[i].quantity <= asked[i]
        /\ ~overlapped => item[i].fate # "missed" /\ (i \in InCart => item[i].quantity = asked[i])

(* However toggles and removals overlap, the product is on the wishlist    *)
(* exactly if an odd number of toggles was answered without an error since *)
(* the last removal: the losers of a race throw, none is applied twice.    *)
WishParity == wish # 0 <=> flips % 2 = 1
=============================================================================
