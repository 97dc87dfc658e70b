--------------------------- MODULE StorefrontProofs ---------------------------
(***************************************************************************)
(* Theorems about Storefront, for any variants, lines, workers and bounds. *)
(***************************************************************************)
EXTENDS Storefront, FiniteSetTheorems, TLAPS

(* addToCart and updateItem are asked for a unit at least, and for no more *)
(* than there were.                                                        *)
Asking == \A w \in Workers : call[w].op \in {"add", "set"} => call[w].quantity \in Quantities

Typed == TypeOK /\ Asking

(* No request is a request.                                                *)
LEMMA IdleType == Idle \in Calls /\ Idle.op = "idle" /\ Idle.pc = "idle"
  BY BoundsAreNat DEF Idle, Calls, Ops, Labels, Keys

(* A request that ends, goes on or begins is a request.                    *)
LEMMA CallType ==
    ASSUME call \in [Workers -> Calls], Asking, NEW w \in Workers
    PROVE  /\ Return(w) => call' \in [Workers -> Calls] /\ Asking'
           /\ \A pc \in Labels : Goto(w, pc) => call' \in [Workers -> Calls] /\ Asking'
           /\ \A c \in Calls : call' = [call EXCEPT ![w] = c] /\ (c.op \in {"add", "set"} => c.quantity \in Quantities)
                                  => call' \in [Workers -> Calls] /\ Asking'
<1>1. ASSUME NEW c \in Calls, call' = [call EXCEPT ![w] = c], c.op \in {"add", "set"} => c.quantity \in Quantities
      PROVE  call' \in [Workers -> Calls] /\ Asking'
  BY <1>1 DEF Asking
<1>2. Return(w) => call' \in [Workers -> Calls] /\ Asking'
  BY <1>1, IdleType DEF Return
<1>3. ASSUME NEW pc \in Labels, Goto(w, pc) PROVE call' \in [Workers -> Calls] /\ Asking'
  <2>1. [call[w] EXCEPT !.pc = pc] \in Calls
    BY DEF Calls
  <2>2. call' = [call EXCEPT ![w] = [call[w] EXCEPT !.pc = pc]]
    BY <1>3 DEF Goto
  <2>3. /\ [call[w] EXCEPT !.pc = pc].op = call[w].op
        /\ [call[w] EXCEPT !.pc = pc].quantity = call[w].quantity
    BY DEF Calls
  <2> QED BY <1>1, <2>1, <2>2, <2>3 DEF Asking
<1> QED BY <1>1, <1>2, <1>3

(* Deleting lines changes no quantity and puts nothing into the cart.      *)
LEMMA DeleteType ==
    ASSUME item \in [LineIds -> CartItem], NEW ids,
           NEW fate \in [LineIds -> {"removed", "ordered", "missed"}], Delete(ids, fate)
    PROVE  /\ item' \in [LineIds -> CartItem]
           /\ InCart' = InCart \ ids
           /\ \A i \in LineIds : /\ item'[i].quantity = item[i].quantity
                                 /\ item'[i].variantId = item[i].variantId
                                 /\ i \notin InCart \cap ids => item'[i] = item[i]
                                 /\ i \in InCart \cap ids => item'[i].fate = fate[i]
<1>1. ASSUME NEW i \in LineIds
      PROVE  /\ item'[i] \in CartItem /\ item'[i].quantity = item[i].quantity
             /\ item'[i].variantId = item[i].variantId
             /\ i \notin InCart \cap ids => item'[i] = item[i]
             /\ i \in InCart \cap ids => item'[i].fate = fate[i]
  <2>1. item[i] \in CartItem /\ fate[i] \in Fates
    BY DEF Fates
  <2>2. [item[i] EXCEPT !.fate = fate[i]] \in CartItem
    BY <2>1 DEF CartItem
  <2>3. item'[i] = IF i \in ids \cap InCart THEN [item[i] EXCEPT !.fate = fate[i]] ELSE item[i]
    BY DEF Delete
  <2> QED BY <2>1, <2>2, <2>3 DEF CartItem
<1>2. item' \in [LineIds -> CartItem]
  BY <1>1 DEF Delete
<1>3. \A i \in LineIds : fate[i] # "inCart"
  OBVIOUS
<1>4. InCart' = InCart \ ids
  BY <1>1, <1>3 DEF InCart
<1> QED BY <1>1, <1>2, <1>4

(* What a request is once it is accepted.                                  *)
Begins(w) ==
    \/ ViewBegin(w)
    \/ \E k \in Keys, q \in Quantities : AddBegin(w, k, q)
    \/ \E i \in LineIds, q \in Quantities : SetBegin(w, i, q)
    \/ \E i \in LineIds : RemoveBegin(w, i)
    \/ ClearBegin(w) \/ OrderBegin(w) \/ ToggleBegin(w)

LEMMA Begun ==
    ASSUME Typed, NEW w \in Workers, Begins(w)
    PROVE  \E request \in Calls :
              /\ Accept(w, request)
              /\ request.op \in {"add", "set"} => request.quantity \in Quantities
              /\ request.op \in OnCart \cup {"toggle"}
              /\ request.op = "add" => request.pc = "cart" /\ request.line = None
              /\ request.op = "order" =>
                    \A i \in LineIds : request.read[i] = IF i \in InCart THEN item[i].quantity ELSE 0
<1> USE IdleType, BoundsAreNat, NoneIsNoRow DEF Calls, Ops, Labels, OnCart
<1>1. CASE ViewBegin(w)
  <2>1. [Idle EXCEPT !.op = "view", !.pc = "cart"] \in Calls
    OBVIOUS
  <2> QED BY <1>1, <2>1 DEF ViewBegin
<1>2. ASSUME NEW k \in Keys, NEW q \in Quantities, AddBegin(w, k, q)
      PROVE  \E request \in Calls :
                /\ Accept(w, request) /\ request.op = "add" /\ request.quantity \in Quantities
                /\ request.pc = "cart" /\ request.line = None
  <2> DEFINE request == [Idle EXCEPT !.op = "add", !.pc = "cart", !.variantId = k, !.quantity = q, !.stock = stock]
  <2>1. q \in 0..MaxStock /\ stock \in 0..MaxStock
    BY DEF Quantities, Typed, TypeOK
  <2>2. request \in Calls /\ request.op = "add" /\ request.quantity = q /\ request.pc = "cart" /\ request.line = None
    BY <2>1 DEF Idle
  <2>3. Accept(w, request)
    BY <1>2 DEF AddBegin
  <2> QED BY <2>2, <2>3
<1>3. ASSUME NEW i \in LineIds, NEW q \in Quantities, SetBegin(w, i, q)
      PROVE  \E request \in Calls :
                Accept(w, request) /\ request.op = "set" /\ request.quantity \in Quantities
  <2> DEFINE request == [Idle EXCEPT !.op = "set", !.pc = "write", !.line = i, !.quantity = q]
  <2>1. q \in 0..MaxStock
    BY DEF Quantities
  <2>2. request \in Calls /\ request.op = "set" /\ request.quantity = q
    BY <2>1
  <2>3. Accept(w, request)
    BY <1>3 DEF SetBegin
  <2> QED BY <2>2, <2>3
<1>4. ASSUME NEW i \in LineIds, RemoveBegin(w, i)
      PROVE  \E request \in Calls : Accept(w, request) /\ request.op = "remove"
  <2>1. [Idle EXCEPT !.op = "remove", !.pc = "write", !.line = i] \in Calls
    OBVIOUS
  <2> QED BY <1>4, <2>1 DEF RemoveBegin
<1>5. CASE ClearBegin(w)
  <2>1. [Idle EXCEPT !.op = "clear", !.pc = "write"] \in Calls
    OBVIOUS
  <2> QED BY <1>5, <2>1 DEF ClearBegin
<1>6. CASE OrderBegin(w)
  <2> DEFINE read == [i \in LineIds |-> IF i \in InCart THEN item[i].quantity ELSE 0]
             request == [Idle EXCEPT !.op = "order", !.pc = "write", !.read = read]
  <2>1. \A i \in LineIds : read[i] \in 0..MaxStock
    BY DEF Typed, TypeOK, Quantities
  <2>2. read \in [LineIds -> 0..MaxStock]
    BY <2>1
  <2> HIDE DEF read
  <2>3. request \in Calls /\ request.op = "order" /\ request.read = read
    BY <2>2
  <2>4. Accept(w, request)
    BY <1>6 DEF OrderBegin, read
  <2> QED BY <2>3, <2>4 DEF read
<1>7. CASE ToggleBegin(w)
  <2>1. wish \in Nat
    BY DEF Typed, TypeOK
  <2>2. [Idle EXCEPT !.op = "toggle", !.pc = "write", !.wish = wish] \in Calls
    BY <2>1
  <2> QED BY <1>7, <2>2 DEF ToggleBegin
<1> QED BY <1>1, <1>2, <1>3, <1>4, <1>5, <1>6, <1>7 DEF Begins

-----------------------------------------------------------------------------
(* Types.                                                                  *)

(* Accepting a request keeps them.                                         *)
LEMMA BeginTyped ==
    ASSUME Typed, NEW w \in Workers, Begins(w)
    PROVE  Typed'
<1>1. PICK request \in Calls :
         Accept(w, request) /\ (request.op \in {"add", "set"} => request.quantity \in Quantities)
  BY Begun
<1>2. call' \in [Workers -> Calls] /\ Asking'
  BY <1>1, CallType DEF Accept, Typed, TypeOK
<1>3. calls' \in 0..MaxCalls /\ overlapped' \in BOOLEAN
  BY <1>1, BoundsAreNat DEF Accept, Spend, Typed, TypeOK
<1> QED BY <1>1, <1>2, <1>3 DEF Accept, Typed, TypeOK, InCart, catalog, lines, wishlist

(* A new quantity of a line in the cart keeps them.                        *)
LEMMA QuantityTyped ==
    ASSUME item \in [LineIds -> CartItem], \A j \in InCart : item[j].quantity \in Quantities,
           NEW i \in InCart, NEW q \in Quantities, item' = [item EXCEPT ![i].quantity = q]
    PROVE  /\ item' \in [LineIds -> CartItem] /\ InCart' = InCart
           /\ \A j \in InCart : item'[j].quantity \in Quantities
           /\ \A j \in LineIds : /\ item'[j].fate = item[j].fate
                                 /\ item'[j].variantId = item[j].variantId
                                 /\ j # i => item'[j] = item[j]
                                 /\ j = i => item'[j].quantity = q
<1>1. i \in LineIds /\ q \in Nat
  BY BoundsAreNat DEF InCart, Quantities
<1>2. ASSUME NEW j \in LineIds
      PROVE  /\ item'[j] \in CartItem /\ item'[j].fate = item[j].fate
             /\ item'[j].variantId = item[j].variantId
             /\ j # i => item'[j] = item[j]
             /\ j = i => item'[j].quantity = q
  <2>1. item[i] \in CartItem
    BY <1>1
  <2>2. [item[i] EXCEPT !.quantity = q] \in CartItem
    BY <1>1, <2>1 DEF CartItem
  <2>3. item'[j] = IF j = i THEN [item[i] EXCEPT !.quantity = q] ELSE item[j]
    BY <1>1
  <2> QED BY <2>1, <2>2, <2>3 DEF CartItem
<1>3. item' \in [LineIds -> CartItem]
  BY <1>2
<1>4. InCart' = InCart
  BY <1>2 DEF InCart
<1> QED BY <1>2, <1>3, <1>4 DEF InCart

(* addToCart keeps them.                                                   *)
LEMMA AddTyped ==
    ASSUME Typed, NEW w \in Workers,
           FindLine(w) \/ AddToLine(w) \/ \E i \in LineIds : AddNewLine(w, i)
    PROVE  Typed'
<1> DEFINE c == call[w]
<1>1. c \in Calls /\ (c.op = "add" => c.quantity \in Quantities)
  BY DEF Typed, TypeOK, Asking
<1>2. CASE FindLine(w)
  <2>1. ASSUME NEW i \in Matching(c.variantId),
               call' = [call EXCEPT ![w] = [@ EXCEPT !.pc = "write", !.line = i, !.read[i] = item[i].quantity]]
        PROVE  call' \in [Workers -> Calls] /\ Asking'
    <3> DEFINE next == [c EXCEPT !.pc = "write", !.line = i, !.read[i] = item[i].quantity]
    <3>1. i \in LineIds /\ item[i].quantity \in 0..MaxStock
      BY <2>1 DEF Matching, InCart, Typed, TypeOK, Quantities
    <3>2. [c.read EXCEPT ![i] = item[i].quantity] \in [LineIds -> 0..MaxStock]
      BY <1>1, <3>1 DEF Calls
    <3>3. next \in Calls /\ next.op = c.op /\ next.quantity = c.quantity
      BY <1>1, <3>1, <3>2 DEF Calls, Labels
    <3>4. call' = [call EXCEPT ![w] = next]
      BY <2>1
    <3> HIDE DEF next
    <3> QED BY <1>1, <1>2, <3>3, <3>4, CallType DEF FindLine, IsAt, Typed, TypeOK
  <2>2. call' \in [Workers -> Calls] /\ Asking'
    <3>1. Goto(w, "write") => call' \in [Workers -> Calls] /\ Asking'
      BY CallType DEF Typed, TypeOK, Labels
    <3> QED BY <1>2, <2>1, <3>1 DEF FindLine
  <2> QED BY <1>2, <2>2 DEF FindLine, Typed, TypeOK, InCart, catalog, lines, wishlist
<1>3. CASE AddToLine(w)
  <2>1. call' \in [Workers -> Calls] /\ Asking'
    BY <1>3, CallType DEF AddToLine, Typed, TypeOK
  <2>2. CASE item' = item /\ asked' = asked
    BY <1>3, <2>1, <2>2 DEF AddToLine, Typed, TypeOK, InCart, catalog, wishlist
  <2>3. CASE item' # item \/ asked' # asked
    <3> DEFINE i == c.line
               newQty == c.read[i] + c.quantity
    <3>1. i \in LineIds /\ c.op = "add" /\ c.stock \in 0..MaxStock /\ c.read[i] \in 0..MaxStock
      BY <1>1, <1>3 DEF AddToLine, IsAt, Calls
    <3>2. /\ newQty <= c.stock /\ item[i].fate = "inCart"
          /\ item' = [item EXCEPT ![i].quantity = newQty]
          /\ asked' = [asked EXCEPT ![i] = asked[i] + c.quantity]
      BY <1>3, <2>3 DEF AddToLine
    <3>3. newQty \in Quantities /\ i \in InCart
      BY <1>1, <3>1, <3>2, BoundsAreNat DEF Quantities, InCart
    <3>4. asked[i] + c.quantity \in Nat
      BY <1>1, <3>1, BoundsAreNat DEF Typed, TypeOK, Quantities
    <3>5. asked' \in [LineIds -> Nat]
      BY <3>1, <3>2, <3>4 DEF Typed, TypeOK
    <3> HIDE DEF newQty, i
    <3>6. /\ item' \in [LineIds -> CartItem] /\ InCart' = InCart
          /\ \A j \in InCart : item'[j].quantity \in Quantities
      BY <3>2, <3>3, QuantityTyped DEF Typed, TypeOK
    <3> QED BY <1>3, <2>1, <3>5, <3>6 DEF AddToLine, Typed, TypeOK, catalog, wishlist
  <2> QED BY <2>2, <2>3
<1>4. ASSUME NEW i \in LineIds, AddNewLine(w, i) PROVE Typed'
  <2>1. call' \in [Workers -> Calls] /\ Asking'
    BY <1>4, CallType DEF AddNewLine, Typed, TypeOK
  <2>2. CASE item' = item /\ asked' = asked
    BY <1>4, <2>1, <2>2 DEF AddNewLine, Typed, TypeOK, InCart, catalog, wishlist
  <2>3. CASE item' # item \/ asked' # asked
    <3> DEFINE line == [fate |-> "inCart", variantId |-> c.variantId, quantity |-> c.quantity]
    <3>1. item' = [item EXCEPT ![i] = line] /\ asked' = [asked EXCEPT ![i] = c.quantity] /\ c.op = "add"
      BY <1>4, <2>3 DEF AddNewLine, IsAt
    <3>2. c.quantity \in Quantities /\ c.quantity \in Nat
      BY <1>1, <3>1, BoundsAreNat DEF Quantities
    <3>3. line \in CartItem
      BY <1>1, <3>2 DEF CartItem, Calls, Fates
    <3>4. item' \in [LineIds -> CartItem] /\ asked' \in [LineIds -> Nat]
      BY <3>1, <3>2, <3>3 DEF Typed, TypeOK
    <3>5. \A j \in LineIds : item'[j] = IF j = i THEN line ELSE item[j]
      BY <3>1 DEF Typed, TypeOK
    <3>6. \A j \in InCart' : item'[j].quantity \in Quantities
      BY <3>2, <3>5 DEF InCart, Typed, TypeOK
    <3> QED BY <1>4, <2>1, <3>4, <3>6 DEF AddNewLine, Typed, TypeOK, catalog, wishlist
  <2> QED BY <2>2, <2>3
<1> QED BY <1>2, <1>3, <1>4

(* So do the other steps on the cart.                                      *)
LEMMA CartTyped ==
    ASSUME Typed, NEW w \in Workers,
           FindCart(w) \/ CreateCart(w) \/ SetQuantity(w) \/ Remove(w) \/ OrderRefused(w) \/ OrderTx(w)
    PROVE  Typed'
<1>1. call' \in [Workers -> Calls] /\ Asking'
  <2>1. Return(w) \/ Goto(w, "newCart") \/ Goto(w, "find")
    BY DEF FindCart, CreateCart, SetQuantity, Remove, OrderRefused, OrderTx
  <2> QED BY <2>1, CallType DEF Typed, TypeOK, Labels
<1>2. CASE FindCart(w) \/ CreateCart(w) \/ OrderRefused(w)
  BY <1>1, <1>2 DEF FindCart, CreateCart, OrderRefused, Typed, TypeOK, InCart, catalog, lines, wishlist
<1>3. CASE SetQuantity(w)
  <2> DEFINE i == call[w].line
             q == call[w].quantity
  <2>1. q \in Quantities /\ q \in Nat
    BY <1>3, BoundsAreNat DEF SetQuantity, IsAt, Typed, Asking, Quantities
  <2>2. CASE i \in InCart
    <3>1. /\ item' \in [LineIds -> CartItem] /\ InCart' = InCart
          /\ \A j \in InCart : item'[j].quantity \in Quantities
      BY <1>3, <2>1, <2>2, QuantityTyped DEF SetQuantity, Typed, TypeOK
    <3>2. i \in LineIds
      BY <2>2 DEF InCart
    <3>3. asked' \in [LineIds -> Nat] /\ edited' \subseteq LineIds
      BY <1>3, <2>1, <2>2, <3>2 DEF SetQuantity, Typed, TypeOK
    <3> QED BY <1>1, <1>3, <3>1, <3>3 DEF SetQuantity, Typed, TypeOK, catalog, wishlist
  <2>3. CASE i \notin InCart
    BY <1>1, <1>3, <2>3 DEF SetQuantity, Typed, TypeOK, InCart, catalog, wishlist
  <2> QED BY <2>2, <2>3
<1>4. ASSUME NEW ids, NEW fate \in [LineIds -> {"removed", "ordered", "missed"}], Delete(ids, fate)
      PROVE  /\ item' \in [LineIds -> CartItem]
             /\ \A i \in InCart' : item'[i].quantity \in Quantities
  BY <1>4, DeleteType DEF Typed, TypeOK, InCart
<1>5. CASE Remove(w)
  <2>1. [i \in LineIds |-> "removed"] \in [LineIds -> {"removed", "ordered", "missed"}]
    OBVIOUS
  <2> QED BY <1>1, <1>4, <1>5, <2>1 DEF Remove, Typed, TypeOK, catalog, wishlist
<1>6. CASE OrderTx(w)
  <2>1. [i \in LineIds |-> IF call[w].read[i] = item[i].quantity THEN "ordered" ELSE "missed"]
           \in [LineIds -> {"removed", "ordered", "missed"}]
    OBVIOUS
  <2>2. ordered' \in [LineIds -> Nat]
    <3>1. \A i \in LineIds : ordered[i] \in Nat
      BY DEF Typed, TypeOK
    <3>2. \A i \in LineIds : ordered[i] + (IF call[w].read[i] > 0 THEN 1 ELSE 0) \in Nat
      BY <3>1
    <3> QED BY <1>6, <3>2 DEF OrderTx
  <2> QED BY <1>1, <1>4, <1>6, <2>1, <2>2 DEF OrderTx, Typed, TypeOK, catalog, wishlist
<1> QED BY <1>2, <1>3, <1>5, <1>6

(* A step of one request is one of these.                                  *)
LEMMA StepsOf ==
    ASSUME NEW w \in Workers, CartStep(w) \/ ToggleBegin(w)
    PROVE  \/ Begins(w)
           \/ FindLine(w) \/ AddToLine(w) \/ \E i \in LineIds : AddNewLine(w, i)
           \/ FindCart(w) \/ CreateCart(w) \/ SetQuantity(w) \/ Remove(w) \/ OrderRefused(w) \/ OrderTx(w)
  BY DEF CartStep, Begins

LEMMA NextTyped ==
    ASSUME Typed, [Next]_vars
    PROVE  Typed'
<1>1. ASSUME NEW w \in Workers, CartStep(w) \/ ToggleBegin(w) PROVE Typed'
  BY <1>1, StepsOf, BeginTyped, AddTyped, CartTyped
<1>2. ASSUME NEW w \in Workers, Toggle(w) \/ Crash(w) PROVE Typed'
  <2>1. call' \in [Workers -> Calls] /\ Asking'
    BY <1>2, CallType DEF Toggle, Crash, Typed, TypeOK
  <2>2. wish' \in 0..wishes' /\ wishes' \in Nat /\ flips' \in Nat
    BY <1>2 DEF Toggle, Crash, Typed, TypeOK, wishlist
  <2> QED BY <1>2, <2>1, <2>2 DEF Toggle, Crash, Typed, TypeOK, InCart, catalog, lines
<1>3. CASE Unwish
  <2>1. wish' \in 0..wishes' /\ wishes' \in Nat /\ flips' \in Nat /\ calls' \in 0..MaxCalls
    BY <1>3, BoundsAreNat DEF Unwish, Spend, Typed, TypeOK
  <2> QED BY <1>3, <2>1 DEF Unwish, Typed, TypeOK, InCart, Asking, catalog, lines
<1>4. ASSUME NEW n \in 0..MaxStock, NEW b \in BOOLEAN, EditProduct(n, b) PROVE Typed'
  <2>1. calls' \in 0..MaxCalls
    BY <1>4, BoundsAreNat DEF EditProduct, Spend, Typed, TypeOK
  <2> QED BY <1>4, <2>1 DEF EditProduct, Typed, TypeOK, InCart, Asking, lines, wishlist
<1>5. CASE UNCHANGED vars
  BY <1>5 DEF vars, catalog, lines, wishlist, Typed, TypeOK, InCart, Asking
<1> QED BY <1>1, <1>2, <1>3, <1>4, <1>5 DEF Next

LEMMA Typing == Spec => []Typed
<1>1. ASSUME Init PROVE Typed
  <2>1. InCart = {}
    BY <1>1 DEF Init, InCart
  <2>2. [fate |-> "unused", variantId |-> None, quantity |-> 0] \in CartItem
    BY DEF CartItem, Fates, Keys
  <2>3. call \in [Workers -> Calls] /\ Asking
    BY <1>1, IdleType DEF Init, Asking
  <2>4. item \in [LineIds -> CartItem]
    BY <1>1, <2>2 DEF Init
  <2>5. asked \in [LineIds -> Nat] /\ ordered \in [LineIds -> Nat]
    BY <1>1 DEF Init
  <2>6. /\ stock \in 0..MaxStock /\ wish \in 0..wishes /\ wishes \in Nat /\ flips \in Nat
        /\ calls \in 0..MaxCalls
    BY <1>1, BoundsAreNat DEF Init
  <2>7. onSale \in BOOLEAN /\ hasCart \in BOOLEAN /\ overlapped \in BOOLEAN /\ edited \subseteq LineIds
    BY <1>1, Zenon DEF Init
  <2> QED BY <2>1, <2>3, <2>4, <2>5, <2>6, <2>7 DEF Typed, TypeOK
<1> QED BY <1>1, NextTyped, PTL DEF Spec

(* Rows and requests keep their types, and no line in the cart asks for    *)
(* more units than the product had at some time.                           *)
THEOREM TypeCorrect == Spec => []TypeOK
  BY Typing, PTL DEF Typed

-----------------------------------------------------------------------------
(* The wishlist.                                                           *)

(* The product is on the wishlist exactly if an odd number of toggles was  *)
(* answered since the last removal.                                        *)
THEOREM WishesFlip == Spec => []WishParity
<1>1. Init => WishParity
  BY DEF Init, WishParity
<1>2. ASSUME Typed, WishParity, [Next]_vars PROVE WishParity'
  <2>1. ASSUME NEW w \in Workers, Toggle(w) PROVE WishParity'
    <3>1. flips \in Nat /\ wishes \in Nat /\ ((flips + 1) % 2 = 1 <=> flips % 2 # 1)
      BY <1>2 DEF Typed, TypeOK
    <3> QED BY <1>2, <2>1, <3>1 DEF Toggle, WishParity, wishlist
  <2>2. CASE Unwish
    BY <2>2 DEF Unwish, WishParity
  <2>3. ASSUME NEW w \in Workers, CartStep(w) \/ ToggleBegin(w) PROVE UNCHANGED wishlist
    <3>1. CASE Begins(w)
      BY <1>2, <3>1, Begun DEF Accept
    <3> QED BY <2>3, <3>1, StepsOf DEF FindLine, AddToLine, AddNewLine, FindCart, CreateCart,
                                       SetQuantity, Remove, OrderRefused, OrderTx
  <2>4. ASSUME UNCHANGED wishlist PROVE WishParity'
    BY <1>2, <2>4 DEF wishlist, WishParity
  <2> QED BY <1>2, <2>1, <2>2, <2>3, <2>4 DEF Next, Crash, EditProduct, vars
<1> QED BY <1>1, <1>2, Typing, PTL DEF Spec

-----------------------------------------------------------------------------
(* What steps do to the requests and the lines.                            *)

OneStep(w) == CartStep(w) \/ ToggleBegin(w) \/ Toggle(w) \/ Crash(w)

(* The steps that neither accept a request nor look for a line or add one. *)
Rest(w) ==
    \/ AddToLine(w) \/ FindCart(w) \/ CreateCart(w) \/ SetQuantity(w) \/ Remove(w)
    \/ OrderRefused(w) \/ OrderTx(w) \/ Toggle(w) \/ Crash(w)

LEMMA Cases ==
    ASSUME NEW w \in Workers, OneStep(w)
    PROVE  Begins(w) \/ FindLine(w) \/ (\E i \in LineIds : AddNewLine(w, i)) \/ Rest(w)
  BY StepsOf DEF OneStep, Rest

(* A step of one request leaves the others alone.                          *)
LEMMA OtherCalls ==
    ASSUME Typed, NEW w \in Workers, OneStep(w), NEW x \in Workers, x # w
    PROVE  call'[x] = call[x]
<1>1. call \in [Workers -> Calls]
  BY DEF Typed, TypeOK
<1>2. CASE Begins(w)
  BY <1>1, <1>2, Begun DEF Accept
<1>3. CASE FindLine(w)
  BY <1>1, <1>3 DEF FindLine, Goto
<1>4. CASE Rest(w) \/ \E i \in LineIds : AddNewLine(w, i)
  BY <1>1, <1>4 DEF Rest, AddNewLine, AddToLine, FindCart, CreateCart, SetQuantity, Remove,
                    OrderRefused, OrderTx, Toggle, Crash, Goto, Return
<1> QED BY <1>2, <1>3, <1>4, Cases

(* One that does not look for a line ends or has yet to look.              *)
LEMMA OwnCall ==
    ASSUME Typed, NEW w \in Workers
    PROVE  /\ \A i \in LineIds : AddNewLine(w, i) => call'[w] = Idle
           /\ Rest(w) => \/ call'[w] = Idle
                         \/ /\ FindCart(w) \/ CreateCart(w)
                            /\ call'[w].op = call[w].op /\ call'[w].read = call[w].read /\ call'[w].line = call[w].line
                            /\ call'[w].pc \in {"newCart", "find"}
<1>1. call \in [Workers -> Calls] /\ call[w] \in Calls
  BY DEF Typed, TypeOK
<1>2. Return(w) => call'[w] = Idle
  BY <1>1 DEF Return
<1>3. \A pc : Goto(w, pc) => call'[w].op = call[w].op /\ call'[w].read = call[w].read
                           /\ call'[w].line = call[w].line /\ call'[w].pc = pc
  BY <1>1 DEF Goto, Calls
<1>4. \A i \in LineIds : AddNewLine(w, i) => call'[w] = Idle
  BY <1>2 DEF AddNewLine
<1>5. Rest(w) => \/ call'[w] = Idle
                 \/ /\ FindCart(w) \/ CreateCart(w)
                    /\ call'[w].op = call[w].op /\ call'[w].read = call[w].read /\ call'[w].line = call[w].line
                    /\ call'[w].pc \in {"newCart", "find"}
  BY <1>2, <1>3 DEF Rest, AddToLine, FindCart, CreateCart, SetQuantity, Remove,
                    OrderRefused, OrderTx, Toggle, Crash
<1> QED BY <1>4, <1>5

(* A new quantity changes nothing else.                                    *)
LEMMA QuantityOnly ==
    ASSUME item \in [LineIds -> CartItem], NEW i, NEW q, item' = [item EXCEPT ![i].quantity = q]
    PROVE  /\ InCart' = InCart
           /\ \A j \in LineIds : /\ item'[j].fate = item[j].fate
                                 /\ item'[j].variantId = item[j].variantId
                                 /\ j # i => item'[j] = item[j]
                                 /\ j = i => item'[j].quantity = q
<1>1. ASSUME NEW j \in LineIds
      PROVE  /\ item'[j].fate = item[j].fate
             /\ item'[j].variantId = item[j].variantId
             /\ j # i => item'[j] = item[j]
             /\ j = i => item'[j].quantity = q
  <2>1. item[j] \in CartItem
    OBVIOUS
  <2>2. item'[j] = IF j = i THEN [item[j] EXCEPT !.quantity = q] ELSE item[j]
    OBVIOUS
  <2> QED BY <2>1, <2>2 DEF CartItem
<1>2. InCart' = InCart
  BY <1>1 DEF InCart
<1> QED BY <1>1, <1>2

(* The other steps put no line into the cart and change no line's variant. *)
LEMMA RestLines ==
    ASSUME Typed, NEW w \in Workers, Rest(w)
    PROVE  /\ InCart' \subseteq InCart
           /\ \A i \in LineIds : /\ item'[i].variantId = item[i].variantId
                                 /\ i \notin InCart => item'[i].fate = item[i].fate
                                 /\ i \in InCart => item'[i].fate # "unused"
<1>1. item \in [LineIds -> CartItem]
  BY DEF Typed, TypeOK
<1>2. CASE item' = item
  BY <1>2 DEF InCart
<1>3. ASSUME NEW i, NEW q, item' = [item EXCEPT ![i].quantity = q]
      PROVE  /\ InCart' \subseteq InCart
             /\ \A j \in LineIds : /\ item'[j].variantId = item[j].variantId
                                   /\ j \notin InCart => item'[j].fate = item[j].fate
                                   /\ j \in InCart => item'[j].fate # "unused"
  BY <1>1, <1>3, QuantityOnly DEF InCart
<1>4. ASSUME NEW ids, NEW fate \in [LineIds -> {"removed", "ordered", "missed"}], Delete(ids, fate)
      PROVE  /\ InCart' \subseteq InCart
             /\ \A j \in LineIds : /\ item'[j].variantId = item[j].variantId
                                   /\ j \notin InCart => item'[j].fate = item[j].fate
                                   /\ j \in InCart => item'[j].fate # "unused"
  <2>1. \A j \in LineIds : fate[j] # "unused"
    OBVIOUS
  <2> QED BY <1>1, <1>4, <2>1, DeleteType DEF InCart
<1>5. CASE Remove(w)
  <2>1. [i \in LineIds |-> "removed"] \in [LineIds -> {"removed", "ordered", "missed"}]
    OBVIOUS
  <2> QED BY <1>4, <1>5, <2>1 DEF Remove
<1>6. CASE OrderTx(w)
  <2>1. [i \in LineIds |-> IF call[w].read[i] = item[i].quantity THEN "ordered" ELSE "missed"]
           \in [LineIds -> {"removed", "ordered", "missed"}]
    OBVIOUS
  <2> QED BY <1>4, <1>6, <2>1 DEF OrderTx
<1>7. CASE AddToLine(w) \/ SetQuantity(w)
  BY <1>2, <1>3, <1>7 DEF AddToLine, SetQuantity
<1>8. CASE FindCart(w) \/ CreateCart(w) \/ OrderRefused(w) \/ Toggle(w) \/ Crash(w)
  BY <1>2, <1>8 DEF FindCart, CreateCart, OrderRefused, Toggle, Crash, lines
<1> QED BY <1>5, <1>6, <1>7, <1>8 DEF Rest

(* What the environment does leaves lines and requests alone.              *)
LEMMA Elsewhere ==
    ASSUME Unwish \/ (\E n \in 0..MaxStock, b \in BOOLEAN : EditProduct(n, b)) \/ UNCHANGED vars
    PROVE  UNCHANGED <<lines, call, overlapped>>
  BY DEF Unwish, EditProduct, vars, lines

-----------------------------------------------------------------------------
(* Lines of one variant.                                                   *)

LinesInv == IsFiniteSet(InCart) /\ LinesBounded

(* The sets that the bound counts are finite.                              *)
LEMMA CountsLines ==
    ASSUME IsFiniteSet(InCart), NEW k
    PROVE  /\ IsFiniteSet(Matching(k)) /\ Cardinality(Matching(k)) \in Nat
           /\ IsFiniteSet(Creating(k)) /\ Cardinality(Creating(k)) \in Nat
           /\ Cardinality(Creating(k)) <= Cardinality(Workers) /\ Cardinality(Workers) \in Nat
  BY WorkersFinite, FS_Subset, FS_CardinalityType DEF Matching, Creating

(* So they are after a step.                                               *)
LEMMA CountsLinesNext ==
    ASSUME IsFiniteSet(InCart'), NEW k
    PROVE  /\ IsFiniteSet(Matching(k)') /\ Cardinality(Matching(k)') \in Nat
           /\ IsFiniteSet(Creating(k)') /\ Cardinality(Creating(k)') \in Nat
           /\ Cardinality(Creating(k)') <= Cardinality(Workers) /\ Cardinality(Workers) \in Nat
  BY WorkersFinite, FS_Subset, FS_CardinalityType DEF Matching, Creating

(* Fewer lines and fewer requests that create one keep the bound.          *)
LEMMA FewerLines ==
    ASSUME LinesInv, InCart' \subseteq InCart, \A k \in Keys : Matching(k)' \subseteq Matching(k),
           Creating(None)' \subseteq Creating(None)
    PROVE  LinesInv'
<1>1. IsFiniteSet(InCart')
  BY FS_Subset DEF LinesInv
<1>2. \A k \in Keys : Cardinality(Matching(k)') <= Cardinality(Matching(k))
  BY CountsLines, FS_Subset DEF LinesInv
<1>3. Cardinality(Creating(None)') <= Cardinality(Creating(None))
  BY CountsLines, FS_Subset DEF LinesInv
<1>4. \A k \in Variants : Cardinality(Matching(k)') <= 1
  BY <1>1, <1>2, CountsLines, CountsLinesNext DEF LinesInv, LinesBounded, Keys
<1>5. Cardinality(Matching(None)') + Cardinality(Creating(None)') <= Cardinality(Workers)
  <2>1. Cardinality(Matching(None)') <= Cardinality(Matching(None))
    BY <1>2 DEF Keys
  <2> QED BY <1>1, <1>3, <2>1, CountsLines, CountsLinesNext DEF LinesInv, LinesBounded
<1> QED BY <1>1, <1>4, <1>5 DEF LinesInv, LinesBounded

(* A request that found no line finds none of the others' either.          *)
LEMMA FindKeepsLines ==
    ASSUME Typed, LinesInv, NEW w \in Workers, FindLine(w)
    PROVE  LinesInv'
<1>1. InCart' = InCart /\ \A k : Matching(k)' = Matching(k)
  BY DEF FindLine, lines, InCart, Matching
<1>2. Creating(None)' \subseteq Creating(None) \cup {w}
  BY OtherCalls DEF OneStep, CartStep, Creating, IsAt
<1>3. CASE Creating(None)' \subseteq Creating(None)
  BY <1>1, <1>3, FewerLines
<1>4. CASE w \in Creating(None)'
  <2>1. call'[w].line = None /\ call'[w].variantId = None
    BY <1>4 DEF Creating
  <2>2. call[w] \in Calls /\ call \in [Workers -> Calls]
    BY DEF Typed, TypeOK
  <2>3. ASSUME NEW i \in Matching(call[w].variantId),
               call' = [call EXCEPT ![w] = [@ EXCEPT !.pc = "write", !.line = i, !.read[i] = item[i].quantity]]
        PROVE  call'[w].line = i /\ i # None
    BY <2>2, <2>3, NoneIsNoRow DEF Calls, Matching, InCart
  <2>4. Matching(call[w].variantId) = {} /\ Goto(w, "write")
    BY <2>1, <2>3 DEF FindLine
  <2>5. call[w].variantId = None
    BY <2>1, <2>2, <2>4 DEF Goto, Calls
  <2>6. Matching(None)' = {}
    BY <1>1, <2>4, <2>5
  <2>7. IsFiniteSet(InCart')
    BY <1>1 DEF LinesInv
  <2>8. Cardinality(Matching(None)') + Cardinality(Creating(None)') <= Cardinality(Workers)
    BY <2>6, <2>7, CountsLinesNext, FS_EmptySet
  <2> QED BY <1>1, <2>7, <2>8 DEF LinesInv, LinesBounded
<1> QED BY <1>2, <1>3, <1>4

(* One that adds a line no longer adds one.                                *)
LEMMA NewLineKeepsLines ==
    ASSUME Typed, LinesInv, NEW w \in Workers, NEW i \in LineIds, AddNewLine(w, i)
    PROVE  LinesInv'
<1> SUFFICES ASSUME NEW k \in Keys, k = call[w].variantId PROVE LinesInv'
  BY DEF Typed, TypeOK, Calls
<1>1. call'[w] = Idle
  BY OwnCall
<1>2. Creating(None)' \subseteq Creating(None) \ {w}
  BY <1>1, IdleType, OtherCalls DEF OneStep, CartStep, Creating, IsAt
<1>3. call[w].line = None /\ IsAt(w, "add", "write")
  BY DEF AddNewLine
<1>4. CASE item' = item
  BY <1>2, <1>4, FewerLines DEF InCart, Matching
<1>5. CASE item' # item
  <2>1. /\ k = None \/ Matching(k) = {}
        /\ item' = [item EXCEPT ![i] = [fate |-> "inCart", variantId |-> k, quantity |-> call[w].quantity]]
    BY <1>5 DEF AddNewLine
  <2>2. \A j \in LineIds : item'[j] = IF j = i THEN [fate |-> "inCart", variantId |-> k, quantity |-> call[w].quantity]
                                              ELSE item[j]
    BY <2>1 DEF Typed, TypeOK
  <2>3. InCart' = InCart \cup {i}
    BY <2>2 DEF InCart
  <2>4. IsFiniteSet(InCart')
    BY <2>3, FS_AddElement DEF LinesInv
  <2>5. Matching(k)' \subseteq Matching(k) \cup {i} /\ \A j \in Keys \ {k} : Matching(j)' = Matching(j)
    <3>1. i \notin InCart
      BY DEF AddNewLine, InCart
    <3> QED BY <2>2, <2>3, <3>1 DEF Matching, InCart
  <2>6. ASSUME NEW j \in Variants PROVE Cardinality(Matching(j)') <= 1
    <3>1. CASE j # k
      <4>1. Matching(j)' = Matching(j)
        BY <2>5, <3>1 DEF Keys
      <4> QED BY <4>1 DEF LinesInv, LinesBounded
    <3>2. CASE j = k
      <4>1. Matching(j)' \subseteq {i}
        BY <2>1, <2>5, <3>2, NoneIsNoRow
      <4>2. IsFiniteSet({i}) /\ Cardinality({i}) = 1
        BY FS_Singleton
      <4> QED BY <4>1, <4>2, FS_Subset
    <3> QED BY <3>1, <3>2
  <2>7. Cardinality(Matching(None)') + Cardinality(Creating(None)') <= Cardinality(Workers)
    <3>1. Cardinality(Matching(None)) + Cardinality(Creating(None)) <= Cardinality(Workers)
      BY DEF LinesInv, LinesBounded
    <3>2. CASE k # None
      <4>1. Matching(None)' = Matching(None)
        BY <2>5, <3>2 DEF Keys
      <4>2. Cardinality(Creating(None)') <= Cardinality(Creating(None))
        BY <1>2, CountsLines, FS_Subset DEF LinesInv
      <4> QED BY <2>4, <3>1, <4>1, <4>2, CountsLines, CountsLinesNext DEF LinesInv
    <3>3. CASE k = None
      <4>1. w \in Creating(None)
        BY <1>3, <3>3 DEF Creating
      <4>2. /\ IsFiniteSet(Creating(None) \ {w})
            /\ Cardinality(Creating(None) \ {w}) = Cardinality(Creating(None)) - 1
        BY <4>1, CountsLines, FS_RemoveElement DEF LinesInv
      <4>3. Cardinality(Creating(None)') <= Cardinality(Creating(None)) - 1
        BY <1>2, <4>2, FS_Subset
      <4>4. /\ IsFiniteSet(Matching(None) \cup {i})
            /\ Cardinality(Matching(None) \cup {i}) \in {Cardinality(Matching(None)), Cardinality(Matching(None)) + 1}
        BY CountsLines, FS_AddElement DEF LinesInv
      <4>5. Cardinality(Matching(None)') <= Cardinality(Matching(None) \cup {i})
        BY <2>5, <3>3, <4>4, FS_Subset
      <4> QED BY <2>4, <3>1, <4>3, <4>4, <4>5, CountsLines, CountsLinesNext DEF LinesInv
    <3> QED BY <3>2, <3>3
  <2> QED BY <2>4, <2>6, <2>7 DEF LinesInv, LinesBounded
<1> QED BY <1>4, <1>5

(* One line per variant, and without a variant no more than requests run   *)
(* at once.                                                                *)
THEOREM LinesAreBounded == Spec => []LinesBounded
<1>1. ASSUME Init PROVE LinesInv
  <2>1. InCart = {}
    BY <1>1 DEF Init, InCart
  <2>2. Creating(None) = {}
    BY <1>1, IdleType DEF Init, Creating, IsAt
  <2>3. \A k : Matching(k) = {}
    BY <2>1 DEF Matching
  <2>4. IsFiniteSet({}) /\ Cardinality({}) = 0 /\ Cardinality(Workers) \in Nat
    BY FS_EmptySet, WorkersFinite, FS_CardinalityType
  <2> QED BY <2>1, <2>2, <2>3, <2>4 DEF LinesInv, LinesBounded
<1>2. ASSUME Typed, LinesInv, [Next]_vars PROVE LinesInv'
  <2>1. ASSUME NEW w \in Workers, OneStep(w) PROVE LinesInv'
    <3>1. Creating(None)' \subseteq Creating(None) \cup {w}
      BY <1>2, <2>1, OtherCalls DEF Creating, IsAt
    <3>2. CASE Begins(w)
      <4>1. ~ (call'[w].op = "add" /\ call'[w].pc = "write")
        BY <1>2, <3>2, Begun DEF Accept, Typed, TypeOK
      <4>2. InCart' = InCart /\ \A k \in Keys : Matching(k)' = Matching(k)
        BY <1>2, <3>2, Begun DEF Accept, lines, InCart, Matching
      <4>3. Creating(None)' \subseteq Creating(None)
        BY <3>1, <4>1 DEF Creating, IsAt
      <4> QED BY <1>2, <4>2, <4>3, FewerLines
    <3>3. CASE Rest(w)
      <4>1. ~ (call'[w].op = "add" /\ call'[w].pc = "write")
        BY <1>2, <3>3, OwnCall, IdleType
      <4>2. InCart' \subseteq InCart /\ \A k \in Keys : Matching(k)' \subseteq Matching(k)
        BY <1>2, <3>3, RestLines DEF InCart, Matching
      <4>3. Creating(None)' \subseteq Creating(None)
        BY <3>1, <4>1 DEF Creating, IsAt
      <4> QED BY <1>2, <4>2, <4>3, FewerLines
    <3> QED BY <1>2, <2>1, <3>2, <3>3, Cases, FindKeepsLines, NewLineKeepsLines
  <2>2. ASSUME UNCHANGED <<lines, call, overlapped>> PROVE LinesInv'
    BY <1>2, <2>2 DEF lines, LinesInv, LinesBounded, InCart, Matching, Creating, IsAt
  <2> QED BY <1>2, <2>1, <2>2, Elsewhere DEF Next, OneStep
<1>3. LinesInv => LinesBounded
  BY DEF LinesInv
<1> QED BY <1>1, <1>2, <1>3, Typing, PTL DEF Spec

-----------------------------------------------------------------------------
(* Orders of one line.                                                     *)

(* The createOrder requests that read line i and have yet to order it.     *)
Reading(i) == {w \in Workers : call[w].op = "order" /\ call[w].read[i] > 0}

OrdersInv ==
    \A i \in LineIds :
        /\ item[i].fate \in {"unused", "inCart"} => ordered[i] = 0
        /\ item[i].fate = "unused" => Reading(i) = {}
        /\ ordered[i] + Cardinality(Reading(i)) <= Cardinality(Workers)

(* There are never more of them than requests.                             *)
LEMMA CountsReaders ==
    ASSUME NEW i
    PROVE  /\ IsFiniteSet(Reading(i)) /\ Cardinality(Reading(i)) \in Nat
           /\ IsFiniteSet(Reading(i)') /\ Cardinality(Reading(i)') \in Nat
           /\ Cardinality(Reading(i)) <= Cardinality(Workers)
           /\ Cardinality(Reading(i)') <= Cardinality(Workers) /\ Cardinality(Workers) \in Nat
  BY WorkersFinite, FS_Subset, FS_CardinalityType DEF Reading

(* A line that keeps its orders, is not put into the cart after all and is *)
(* read by no one else keeps the bound.                                    *)
LEMMA FewerReaders ==
    ASSUME Typed, OrdersInv, ordered' = ordered,
           \A i \in LineIds : /\ Reading(i)' \subseteq Reading(i)
                              /\ item'[i].fate = "unused" => item[i].fate = "unused"
                              /\ item'[i].fate = "inCart" => item[i].fate \in {"unused", "inCart"}
    PROVE  OrdersInv'
<1> SUFFICES ASSUME NEW i \in LineIds
             PROVE  /\ item'[i].fate \in {"unused", "inCart"} => ordered'[i] = 0
                    /\ item'[i].fate = "unused" => Reading(i)' = {}
                    /\ ordered'[i] + Cardinality(Reading(i)') <= Cardinality(Workers)
  BY DEF OrdersInv
<1>1. Cardinality(Reading(i)') <= Cardinality(Reading(i))
  BY CountsReaders, FS_Subset
<1>2. ordered[i] \in Nat
  BY DEF Typed, TypeOK
<1>3. ordered'[i] + Cardinality(Reading(i)') <= Cardinality(Workers)
  <2>1. ordered[i] + Cardinality(Reading(i)) <= Cardinality(Workers)
    BY DEF OrdersInv
  <2> QED BY <1>1, <1>2, <2>1, CountsReaders
<1>4. item'[i].fate = "unused" => Reading(i)' = {}
  BY DEF OrdersInv
<1>5. item'[i].fate \in {"unused", "inCart"} => ordered'[i] = 0
  BY DEF OrdersInv
<1> QED BY <1>3, <1>4, <1>5

(* A new request reads lines of the cart, which no order contains yet.     *)
LEMMA OrderBeginKeeps ==
    ASSUME Typed, OrdersInv, NEW w \in Workers, Begins(w)
    PROVE  OrdersInv'
<1>1. PICK request \in Calls :
         /\ Accept(w, request)
         /\ request.op = "order" => \A i \in LineIds : request.read[i] = IF i \in InCart THEN item[i].quantity ELSE 0
  BY Begun
<1>2. item' = item /\ ordered' = ordered /\ call' = [call EXCEPT ![w] = request]
  BY <1>1 DEF Accept, lines
<1>3. ASSUME NEW i \in LineIds, w \in Reading(i)' PROVE i \in InCart
  <2>1. call'[w] = request
    BY <1>2 DEF Typed, TypeOK
  <2>2. request.op = "order" /\ request.read[i] > 0
    BY <1>3, <2>1 DEF Reading
  <2> QED BY <1>1, <2>2
<1>4. \A i \in LineIds : Reading(i)' \subseteq Reading(i) \cup {w}
  BY <1>2 DEF Reading, Typed, TypeOK
<1> SUFFICES ASSUME NEW i \in LineIds
             PROVE  /\ item'[i].fate \in {"unused", "inCart"} => ordered'[i] = 0
                    /\ item'[i].fate = "unused" => Reading(i)' = {}
                    /\ ordered'[i] + Cardinality(Reading(i)') <= Cardinality(Workers)
  BY DEF OrdersInv
<1>5. item'[i].fate \in {"unused", "inCart"} => ordered'[i] = 0
  BY <1>2 DEF OrdersInv
<1>6. item'[i].fate = "unused" => Reading(i)' = {}
  <2> SUFFICES ASSUME item[i].fate = "unused" PROVE Reading(i)' = {}
    BY <1>2
  <2>1. Reading(i) = {} /\ i \notin InCart
    BY DEF OrdersInv, InCart
  <2> QED BY <1>3, <1>4, <2>1
<1>7. ordered'[i] + Cardinality(Reading(i)') <= Cardinality(Workers)
  <2>1. CASE i \in InCart
    <3>1. ordered'[i] = 0
      BY <1>2, <2>1 DEF InCart, OrdersInv
    <3> QED BY <3>1, CountsReaders
  <2>2. CASE i \notin InCart
    <3>1. Reading(i)' \subseteq Reading(i)
      BY <1>3, <1>4, <2>2
    <3>2. Cardinality(Reading(i)') <= Cardinality(Reading(i))
      BY <3>1, CountsReaders, FS_Subset
    <3>3. ordered[i] \in Nat /\ ordered[i] + Cardinality(Reading(i)) <= Cardinality(Workers)
      BY DEF OrdersInv, Typed, TypeOK
    <3> QED BY <1>2, <3>2, <3>3, CountsReaders
  <2> QED BY <2>1, <2>2
<1> QED BY <1>5, <1>6, <1>7

(* The transaction orders what was read, and no line stays in the cart.    *)
LEMMA OrderTxKeeps ==
    ASSUME Typed, OrdersInv, NEW w \in Workers, OrderTx(w)
    PROVE  OrdersInv'
<1> DEFINE fate == [j \in LineIds |-> IF call[w].read[j] = item[j].quantity THEN "ordered" ELSE "missed"]
<1>1. fate \in [LineIds -> {"removed", "ordered", "missed"}] /\ Delete(LineIds, fate)
  BY DEF OrderTx
<1>2. InCart' = {} /\ \A j \in LineIds : item'[j].fate = "unused" => item[j].fate = "unused"
  <2> HIDE DEF fate
  <2>1. \A j \in LineIds : /\ j \notin InCart => item'[j] = item[j]
                           /\ j \in InCart => item'[j].fate = fate[j]
    BY <1>1, DeleteType DEF Typed, TypeOK
  <2>2. InCart' = InCart \ LineIds
    BY <1>1, DeleteType DEF Typed, TypeOK
  <2>3. \A j \in LineIds : fate[j] # "unused"
    BY <1>1
  <2> QED BY <2>1, <2>2, <2>3 DEF InCart
<1>3. \A i \in LineIds : Reading(i)' \subseteq Reading(i) \ {w}
  <2>1. call'[w] = Idle
    BY OwnCall, IdleType DEF Rest, OrderTx, Return, Typed, TypeOK
  <2>2. \A x \in Workers : x # w => call'[x] = call[x]
    BY OtherCalls DEF OneStep, CartStep
  <2> QED BY <2>1, <2>2, IdleType DEF Reading
<1> SUFFICES ASSUME NEW i \in LineIds
             PROVE  /\ item'[i].fate \in {"unused", "inCart"} => ordered'[i] = 0
                    /\ item'[i].fate = "unused" => Reading(i)' = {}
                    /\ ordered'[i] + Cardinality(Reading(i)') <= Cardinality(Workers)
  BY DEF OrdersInv
<1>4. ordered'[i] = ordered[i] + (IF call[w].read[i] > 0 THEN 1 ELSE 0)
  BY DEF OrderTx
<1>5. ordered[i] \in Nat /\ call[w].read[i] \in Nat
  BY BoundsAreNat DEF Typed, TypeOK, Calls
<1>6. call[w].read[i] > 0 <=> w \in Reading(i)
  BY DEF OrderTx, IsAt, Reading
<1>7. item'[i].fate = "unused" => Reading(i)' = {} /\ ordered'[i] = 0
  <2> SUFFICES ASSUME item[i].fate = "unused" PROVE Reading(i)' = {} /\ ordered'[i] = 0
    BY <1>2
  <2>1. Reading(i) = {} /\ ordered[i] = 0
    BY DEF OrdersInv
  <2> QED BY <1>3, <1>4, <1>6, <2>1
<1>8. item'[i].fate # "inCart"
  BY <1>2 DEF InCart
<1>9. ordered'[i] + Cardinality(Reading(i)') <= Cardinality(Workers)
  <2>1. ordered[i] + Cardinality(Reading(i)) <= Cardinality(Workers)
    BY DEF OrdersInv
  <2>2. CASE w \in Reading(i)
    <3>1. /\ IsFiniteSet(Reading(i) \ {w})
          /\ Cardinality(Reading(i) \ {w}) = Cardinality(Reading(i)) - 1
      BY <2>2, CountsReaders, FS_RemoveElement
    <3>2. Cardinality(Reading(i)') <= Cardinality(Reading(i)) - 1
      BY <1>3, <3>1, FS_Subset
    <3> QED BY <1>4, <1>5, <1>6, <2>1, <2>2, <3>2, CountsReaders
  <2>3. CASE w \notin Reading(i)
    <3>1. Cardinality(Reading(i)') <= Cardinality(Reading(i))
      BY <1>3, CountsReaders, FS_Subset
    <3> QED BY <1>4, <1>5, <1>6, <2>1, <2>3, <3>1, CountsReaders
  <2> QED BY <2>2, <2>3
<1> QED BY <1>7, <1>8, <1>9

(* No line is in more orders than requests run at once.                    *)
THEOREM OrdersAreBounded == Spec => []OrderedBound
<1>1. ASSUME Init PROVE OrdersInv
  <2>1. \A i \in LineIds : Reading(i) = {} /\ ordered[i] = 0
    BY <1>1, IdleType DEF Init, Reading
  <2>2. Cardinality({}) = 0 /\ Cardinality(Workers) \in Nat
    BY FS_EmptySet, WorkersFinite, FS_CardinalityType
  <2> QED BY <2>1, <2>2 DEF OrdersInv
<1>2. ASSUME Typed, OrdersInv, [Next]_vars PROVE OrdersInv'
  <2>1. ASSUME NEW w \in Workers, OneStep(w), ~ Begins(w), ~ OrderTx(w) PROVE OrdersInv'
    <3>1. \A i \in LineIds : Reading(i)' \subseteq Reading(i) \cup {w}
      BY <1>2, <2>1, OtherCalls DEF Reading
    <3>2. \A i \in LineIds : w \in Reading(i)' => w \in Reading(i)
      <4>1. CASE FindLine(w)
        <5>1. call[w].op = "add" /\ call[w] \in Calls /\ call \in [Workers -> Calls]
          BY <1>2, <4>1 DEF FindLine, IsAt, Typed, TypeOK
        <5>2. call'[w].op = "add"
          BY <4>1, <5>1 DEF FindLine, Goto, Calls
        <5> QED BY <5>2 DEF Reading
      <4>2. CASE Rest(w)
        BY <1>2, <4>2, OwnCall, IdleType DEF Reading
      <4>3. ASSUME NEW j \in LineIds, AddNewLine(w, j) PROVE call'[w].op # "order"
        BY <1>2, <4>3, OwnCall, IdleType
      <4> QED BY <2>1, <4>1, <4>2, <4>3, Cases DEF Reading
    <3>3. \A i \in LineIds : Reading(i)' \subseteq Reading(i)
      BY <3>1, <3>2
    <3>4. ordered' = ordered
      BY <2>1, Cases DEF Rest, FindLine, AddNewLine, AddToLine, FindCart, CreateCart, SetQuantity, Remove,
                         OrderRefused, Toggle, Crash, lines
    <3>5. \A i \in LineIds : /\ item'[i].fate = "unused" => item[i].fate = "unused"
                             /\ item'[i].fate = "inCart" => item[i].fate \in {"unused", "inCart"}
      <4>1. CASE FindLine(w)
        BY <4>1 DEF FindLine, lines
      <4>2. CASE Rest(w)
        BY <1>2, <4>2, RestLines DEF InCart
      <4>3. ASSUME NEW j \in LineIds, AddNewLine(w, j), NEW i \in LineIds
            PROVE  /\ item'[i].fate = "unused" => item[i].fate = "unused"
                   /\ item'[i].fate = "inCart" => item[i].fate \in {"unused", "inCart"}
        BY <1>2, <4>3 DEF AddNewLine, Typed, TypeOK
      <4> QED BY <2>1, <4>1, <4>2, <4>3, Cases
    <3> QED BY <1>2, <3>3, <3>4, <3>5, FewerReaders
  <2>2. ASSUME UNCHANGED <<lines, call, overlapped>> PROVE OrdersInv'
    BY <1>2, <2>2 DEF lines, OrdersInv, Reading
  <2> QED BY <1>2, <2>1, <2>2, Elsewhere, OrderBeginKeeps, OrderTxKeeps DEF Next, OneStep
<1>3. Typed /\ OrdersInv => OrderedBound
  <2> SUFFICES ASSUME Typed, OrdersInv, NEW i \in LineIds PROVE ordered[i] <= Cardinality(Workers)
    BY DEF OrderedBound
  <2>1. ordered[i] \in Nat /\ ordered[i] + Cardinality(Reading(i)) <= Cardinality(Workers)
    BY DEF Typed, TypeOK, OrdersInv
  <2> QED BY <2>1, CountsReaders
<1> QED BY <1>1, <1>2, <1>3, Typing, PTL DEF Spec

-----------------------------------------------------------------------------
(* The units of a line.                                                    *)

Shopping(w) == call[w].op \in OnCart

(* The requests that found a line to add to.                               *)
Adding(w) == call[w].op = "add" /\ call[w].line # None

(* What a request has read of a line never exceeds what was asked for, and *)
(* alone on the cart it is what the line holds.                            *)
ReadInv ==
    \A w \in Workers : Adding(w) =>
       LET i == call[w].line IN
       item[i].fate # "unused" /\ (i \notin edited => call[w].read[i] <= asked[i])

AloneInv ==
    ~ overlapped =>
       /\ \A v, w \in Workers : Shopping(v) /\ Shopping(w) => v = w
       /\ \A w \in Workers : Adding(w) =>
             call[w].line \in InCart /\ call[w].read[call[w].line] = item[call[w].line].quantity
       /\ \A w \in Workers : call[w].op = "order" =>
             \A i \in InCart : call[w].read[i] = item[i].quantity

UnitsInv == ReadInv /\ AloneInv /\ UnitsAccounted

(* Accepting a request keeps it.                                           *)
LEMMA UnitsBegin ==
    ASSUME Typed, UnitsInv, NEW w \in Workers, Begins(w)
    PROVE  UnitsInv'
<1>1. PICK request \in Calls :
         /\ Accept(w, request)
         /\ request.op \in OnCart \cup {"toggle"}
         /\ request.op = "add" => request.line = None
         /\ request.op = "order" => \A i \in LineIds : request.read[i] = IF i \in InCart THEN item[i].quantity ELSE 0
  BY Begun
<1>2. /\ UNCHANGED <<item, asked, edited, InCart>>
      /\ \A v \in Workers : call'[v] = IF v = w THEN request ELSE call[v]
      /\ overlapped' = (overlapped \/ (request.op \in OnCart /\ \E v \in Workers : Shopping(v)))
  BY <1>1 DEF Accept, lines, Shopping, InCart, Typed, TypeOK
<1>3. \A v \in Workers : /\ Adding(v)' => Adding(v) /\ v # w
                         /\ v # w => (Shopping(v)' <=> Shopping(v))
                         /\ v = w => (Shopping(v)' <=> request.op \in OnCart)
  BY <1>1, <1>2 DEF Adding, Shopping
<1>4. ReadInv'
  BY <1>2, <1>3 DEF UnitsInv, ReadInv
<1>5. UnitsAccounted'
  <2>1. overlapped => overlapped'
    BY <1>2
  <2> QED BY <1>2, <2>1 DEF UnitsInv, UnitsAccounted
<1>6. AloneInv'
  <2> SUFFICES ASSUME ~ overlapped' PROVE AloneInv'
    BY DEF AloneInv
  <2>1. ~ overlapped /\ (request.op \in OnCart => \A v \in Workers : ~ Shopping(v))
    BY <1>2
  <2>2. \A v, x \in Workers : Shopping(v)' /\ Shopping(x)' => v = x
    BY <1>3, <2>1 DEF UnitsInv, AloneInv
  <2>3. \A v \in Workers : Adding(v)' =>
           call'[v].line \in InCart' /\ call'[v].read[call'[v].line] = item'[call'[v].line].quantity
    BY <1>2, <1>3, <2>1 DEF UnitsInv, AloneInv
  <2>4. \A v \in Workers : call'[v].op = "order" => \A i \in InCart' : call'[v].read[i] = item'[i].quantity
    BY <1>1, <1>2, <2>1 DEF UnitsInv, AloneInv, InCart
  <2> QED BY <2>2, <2>3, <2>4 DEF AloneInv
<1> QED BY <1>4, <1>5, <1>6 DEF UnitsInv

(* A step that forgets no line and no unit asked for keeps what was read.  *)
LEMMA ReadKeeps ==
    ASSUME Typed, ReadInv, NEW w \in Workers, OneStep(w), edited \subseteq edited', Typed',
           \A i \in LineIds : item[i].fate # "unused" =>
              item'[i].fate # "unused" /\ (i \notin edited' => asked[i] <= asked'[i]),
           Adding(w)' => LET i == call'[w].line IN
                         item'[i].fate # "unused" /\ (i \notin edited' => call'[w].read[i] <= asked'[i])
    PROVE  ReadInv'
<1> SUFFICES ASSUME NEW v \in Workers, v # w, Adding(v)', NEW i \in LineIds, i = call'[v].line
             PROVE  item'[i].fate # "unused" /\ (i \notin edited' => call'[v].read[i] <= asked'[i])
  BY DEF ReadInv, Adding, Typed, TypeOK, Calls
<1>1. call'[v] = call[v] /\ Adding(v)
  BY OtherCalls DEF Adding
<1>2. item[i].fate # "unused" /\ (i \notin edited => call[v].read[i] <= asked[i])
  BY <1>1 DEF ReadInv
<1>3. asked[i] \in Nat /\ asked'[i] \in Nat /\ call[v].read[i] \in 0..MaxStock
  BY DEF Typed, TypeOK, Calls
<1> QED BY <1>1, <1>2, <1>3, BoundsAreNat

(* One of the only request on the cart leaves nothing to be said of others.*)
LEMMA AloneKeeps ==
    ASSUME Typed, AloneInv, NEW w \in Workers, OneStep(w), overlapped' = overlapped,
           Shopping(w) \/ item' = item, Shopping(w)' => Shopping(w),
           ~ overlapped /\ Adding(w)' =>
              call'[w].line \in InCart' /\ call'[w].read[call'[w].line] = item'[call'[w].line].quantity,
           ~ overlapped /\ call'[w].op = "order" => \A i \in InCart' : call'[w].read[i] = item'[i].quantity
    PROVE  AloneInv'
<1> SUFFICES ASSUME ~ overlapped PROVE AloneInv'
  BY DEF AloneInv
<1>1. \A v \in Workers : v # w => call'[v] = call[v]
  BY OtherCalls
<1>2. \A v \in Workers : v # w => (Shopping(v)' <=> Shopping(v)) /\ (Adding(v)' <=> Adding(v))
  BY <1>1 DEF Shopping, Adding
<1>3. \A v, x \in Workers : Shopping(v)' /\ Shopping(x)' => v = x
  BY <1>2 DEF AloneInv
<1>4. \A v \in Workers : (Adding(v) \/ call[v].op = "order") => Shopping(v)
  BY DEF Adding, Shopping, OnCart
<1>5. ASSUME NEW v \in Workers
      PROVE  /\ Adding(v)' =>
                   call'[v].line \in InCart' /\ call'[v].read[call'[v].line] = item'[call'[v].line].quantity
             /\ call'[v].op = "order" => \A i \in InCart' : call'[v].read[i] = item'[i].quantity
  <2>1. CASE v = w
    BY <2>1
  <2>2. CASE v # w /\ Shopping(w)
    <3>1. ~ Shopping(v)
      BY <2>2 DEF AloneInv
    <3> QED BY <1>1, <1>2, <1>4, <2>2, <3>1
  <2>3. CASE v # w /\ item' = item
    <3>1. InCart' = InCart
      BY <2>3 DEF InCart
    <3> QED BY <1>1, <1>2, <2>3, <3>1 DEF AloneInv
  <2> QED BY <2>1, <2>2, <2>3
<1> QED BY <1>3, <1>5 DEF AloneInv

(* Finding a line reads it as it is.                                       *)
LEMMA UnitsFind ==
    ASSUME Typed, Typed', UnitsInv, NEW w \in Workers, FindLine(w)
    PROVE  UnitsInv'
<1>1. UNCHANGED <<item, asked, edited, overlapped, InCart>> /\ call[w].op = "add" /\ OneStep(w)
  BY DEF FindLine, lines, InCart, IsAt, OneStep, CartStep
<1>2. call \in [Workers -> Calls] /\ call[w] \in Calls
  BY DEF Typed, TypeOK
<1>3. /\ call'[w].op = "add"
      /\ \/ /\ call'[w].line \in InCart
            /\ call'[w].read[call'[w].line] = item[call'[w].line].quantity
         \/ call'[w].line = call[w].line /\ call'[w].read = call[w].read
  <2>1. ASSUME NEW i \in Matching(call[w].variantId),
               call' = [call EXCEPT ![w] = [@ EXCEPT !.pc = "write", !.line = i, !.read[i] = item[i].quantity]]
        PROVE  call'[w].op = "add" /\ call'[w].line = i /\ call'[w].read[i] = item[i].quantity /\ i \in InCart
    <3>1. i \in InCart /\ i \in LineIds
      BY DEF Matching, InCart
    <3>2. call'[w] = [call[w] EXCEPT !.pc = "write", !.line = i, !.read[i] = item[i].quantity]
      BY <1>2, <2>1
    <3> QED BY <1>1, <1>2, <3>1, <3>2 DEF Calls
  <2>2. Goto(w, "write") => call'[w].op = "add" /\ call'[w].line = call[w].line /\ call'[w].read = call[w].read
    BY <1>1, <1>2 DEF Goto, Calls
  <2> QED BY <2>1, <2>2 DEF FindLine
<1>4. UnitsAccounted'
  BY <1>1 DEF UnitsInv, UnitsAccounted
<1>5. Adding(w)' => LET i == call'[w].line IN
                    item[i].fate # "unused" /\ (i \notin edited => call'[w].read[i] <= asked[i])
  BY <1>1, <1>3 DEF UnitsInv, ReadInv, UnitsAccounted, Adding, InCart
<1>6. ReadInv'
  <2>1. \A i \in LineIds : asked[i] <= asked[i]
    BY DEF Typed, TypeOK
  <2> QED BY <1>1, <1>5, <2>1, ReadKeeps DEF UnitsInv
<1>7. ~ overlapped /\ Adding(w)' =>
         call'[w].line \in InCart /\ call'[w].read[call'[w].line] = item[call'[w].line].quantity
  BY <1>1, <1>3 DEF UnitsInv, AloneInv, Adding
<1>8. AloneInv'
  BY <1>1, <1>3, <1>7, AloneKeeps DEF UnitsInv, Shopping
<1> QED BY <1>4, <1>6, <1>8 DEF UnitsInv

(* A step that ends a request on the cart ends all that was said of it.    *)
LEMMA UnitsReturn ==
    ASSUME Typed, Typed', UnitsInv, NEW w \in Workers, OneStep(w), Return(w),
           Shopping(w) \/ item' = item, overlapped' = overlapped, edited \subseteq edited',
           \A i \in LineIds : item[i].fate # "unused" =>
              item'[i].fate # "unused" /\ (i \notin edited' => asked[i] <= asked'[i])
    PROVE  ReadInv' /\ AloneInv'
<1>1. call'[w] = Idle
  BY DEF Return, Typed, TypeOK
<1>2. ~ Adding(w)' /\ ~ Shopping(w)' /\ call'[w].op # "order"
  BY <1>1, IdleType DEF Adding, Shopping, OnCart
<1> QED BY <1>2, ReadKeeps, AloneKeeps DEF UnitsInv

(* Adding to a line adds what is asked for to what was read.               *)
LEMMA UnitsAdd ==
    ASSUME Typed, Typed', UnitsInv, NEW w \in Workers, AddToLine(w)
    PROVE  UnitsInv'
<1> DEFINE c == call[w]
<1> SUFFICES ASSUME NEW i \in LineIds, i = c.line PROVE UnitsInv'
  BY DEF AddToLine, Typed, TypeOK, Calls
<1> SUFFICES ASSUME NEW n, n = c.read[i] + c.quantity PROVE UnitsInv'
  OBVIOUS
<1>1. Shopping(w) /\ Adding(w) /\ OneStep(w) /\ Return(w) /\ edited' = edited /\ overlapped' = overlapped
  BY DEF AddToLine, IsAt, Shopping, OnCart, Adding, OneStep, CartStep
<1>2. c.quantity \in Nat /\ c.read[i] \in Nat /\ \A j \in LineIds : asked[j] \in Nat /\ item[j].quantity \in Nat
  BY <1>1, BoundsAreNat DEF Typed, TypeOK, Asking, Adding, Quantities, Calls, CartItem
<1>3. CASE item' = item /\ asked' = asked
  <2>1. UnitsAccounted'
    BY <1>1, <1>3 DEF UnitsInv, UnitsAccounted, InCart
  <2>2. ReadInv' /\ AloneInv'
    BY <1>1, <1>2, <1>3, UnitsReturn
  <2> QED BY <2>1, <2>2 DEF UnitsInv
<1>4. CASE ~ (item' = item /\ asked' = asked)
  <2>1. /\ i \in InCart /\ item' = [item EXCEPT ![i].quantity = n]
        /\ asked' = [asked EXCEPT ![i] = asked[i] + c.quantity]
    BY <1>4 DEF AddToLine, InCart
  <2>2. \A j \in LineIds : asked'[j] = IF j = i THEN asked[i] + c.quantity ELSE asked[j]
    BY <2>1 DEF Typed, TypeOK
  <2>3. /\ InCart' = InCart
        /\ \A j \in LineIds : /\ item'[j].fate = item[j].fate /\ (j # i => item'[j] = item[j])
                              /\ j = i => item'[j].quantity = n
    <3>1. item \in [LineIds -> CartItem] /\ item' = [item EXCEPT ![i].quantity = n]
      BY <2>1 DEF Typed, TypeOK
    <3>2. \A j \in LineIds : /\ item[j] \in CartItem
                             /\ item'[j] = IF j = i THEN [item[j] EXCEPT !.quantity = n] ELSE item[j]
      BY <3>1
    <3>3. \A j \in LineIds : /\ item'[j].fate = item[j].fate /\ (j # i => item'[j] = item[j])
                             /\ j = i => item'[j].quantity = n
      BY <3>2 DEF CartItem
    <3>4. InCart' = InCart
      BY <3>3 DEF InCart
    <3> QED BY <3>3, <3>4
  <2>4. ReadInv' /\ AloneInv'
    <3>1. \A j \in LineIds : asked[j] <= asked'[j]
      BY <1>2, <2>2
    <3> QED BY <1>1, <2>3, <3>1, UnitsReturn
  <2>5. i \notin edited => n <= asked'[i]
    BY <1>1, <1>2, <2>2 DEF UnitsInv, ReadInv
  <2>6. ~ overlapped => n = asked'[i]
    <3>1. ~ overlapped => c.read[i] = item[i].quantity
      BY <1>1 DEF UnitsInv, AloneInv
    <3>2. ~ overlapped => item[i].quantity = asked[i]
      BY <2>1 DEF UnitsInv, UnitsAccounted
    <3>3. asked'[i] = asked[i] + c.quantity
      BY <2>2
    <3> QED BY <3>1, <3>2, <3>3
  <2>7. UnitsAccounted'
    <3> SUFFICES ASSUME NEW j \in LineIds
                 PROVE  /\ j \in InCart' /\ j \notin edited' => item'[j].quantity <= asked'[j]
                        /\ ~ overlapped' => /\ item'[j].fate # "missed"
                                            /\ j \in InCart' => item'[j].quantity = asked'[j]
      BY DEF UnitsAccounted
    <3>1. CASE j = i
      <4>1. item[j].fate # "missed"
        BY <2>1, <3>1 DEF InCart
      <4> QED BY <1>1, <2>3, <2>5, <2>6, <3>1, <4>1
    <3>2. CASE j # i
      BY <1>1, <2>2, <2>3, <3>2 DEF UnitsInv, UnitsAccounted
    <3> QED BY <3>1, <3>2
  <2> QED BY <2>4, <2>7 DEF UnitsInv
<1> QED BY <1>3, <1>4

(* A new line holds what is asked for.                                     *)
LEMMA UnitsNew ==
    ASSUME Typed, Typed', UnitsInv, NEW w \in Workers, NEW i \in LineIds, AddNewLine(w, i)
    PROVE  UnitsInv'
<1> SUFFICES ASSUME NEW q, q = call[w].quantity PROVE UnitsInv'
  OBVIOUS
<1>1. Shopping(w) /\ OneStep(w) /\ Return(w) /\ edited' = edited /\ overlapped' = overlapped
  BY DEF AddNewLine, IsAt, Shopping, OnCart, OneStep, CartStep
<1>2. q \in Nat /\ \A j \in LineIds : asked[j] \in Nat
  BY BoundsAreNat DEF Typed, TypeOK, Calls
<1>3. CASE item' = item /\ asked' = asked
  <2>1. UnitsAccounted'
    BY <1>1, <1>3 DEF UnitsInv, UnitsAccounted, InCart
  <2>2. ReadInv' /\ AloneInv'
    BY <1>1, <1>2, <1>3, UnitsReturn
  <2> QED BY <2>1, <2>2 DEF UnitsInv
<1>4. CASE ~ (item' = item /\ asked' = asked)
  <2>1. /\ item[i].fate = "unused" /\ asked' = [asked EXCEPT ![i] = q]
        /\ \E k : item' = [item EXCEPT ![i] = [fate |-> "inCart", variantId |-> k, quantity |-> q]]
    BY <1>4 DEF AddNewLine
  <2>2. \A j \in LineIds : j # i => item'[j] = item[j] /\ asked'[j] = asked[j]
    BY <2>1 DEF Typed, TypeOK
  <2>3. item'[i].fate = "inCart" /\ item'[i].quantity = q /\ asked'[i] = q
    BY <2>1 DEF Typed, TypeOK
  <2>4. ReadInv' /\ AloneInv'
    <3>1. \A j \in LineIds : item[j].fate # "unused" => item'[j].fate # "unused" /\ asked[j] <= asked'[j]
      BY <1>2, <2>1, <2>2
    <3> QED BY <1>1, <3>1, UnitsReturn
  <2>5. UnitsAccounted'
    <3> SUFFICES ASSUME NEW j \in LineIds
                 PROVE  /\ j \in InCart' /\ j \notin edited' => item'[j].quantity <= asked'[j]
                        /\ ~ overlapped' => /\ item'[j].fate # "missed"
                                            /\ j \in InCart' => item'[j].quantity = asked'[j]
      BY DEF UnitsAccounted
    <3>1. CASE j = i
      BY <1>2, <2>3, <3>1
    <3>2. CASE j # i
      BY <1>1, <2>2, <3>2 DEF UnitsInv, UnitsAccounted, InCart
    <3> QED BY <3>1, <3>2
  <2> QED BY <2>4, <2>5 DEF UnitsInv
<1> QED BY <1>3, <1>4

(* updateItem sets what is asked for.                                      *)
LEMMA UnitsSet ==
    ASSUME Typed, Typed', UnitsInv, NEW w \in Workers, SetQuantity(w)
    PROVE  UnitsInv'
<1> SUFFICES ASSUME NEW q, q = call[w].quantity, NEW i, i = call[w].line PROVE UnitsInv'
  OBVIOUS
<1>1. Shopping(w) /\ OneStep(w) /\ Return(w) /\ edited \subseteq edited' /\ overlapped' = overlapped
  BY DEF SetQuantity, IsAt, Shopping, OnCart, OneStep, CartStep
<1>2. q \in Nat /\ \A j \in LineIds : asked[j] \in Nat
  BY BoundsAreNat DEF Typed, TypeOK, Calls
<1>3. CASE i \notin InCart
  <2>1. UNCHANGED <<item, asked, edited, InCart>>
    BY <1>3 DEF SetQuantity, InCart
  <2>2. UnitsAccounted'
    BY <1>1, <2>1 DEF UnitsInv, UnitsAccounted
  <2>3. ReadInv' /\ AloneInv'
    BY <1>1, <1>2, <2>1, UnitsReturn
  <2> QED BY <2>2, <2>3 DEF UnitsInv
<1>4. CASE i \in InCart
  <2>1. /\ item' = [item EXCEPT ![i].quantity = q] /\ asked' = [asked EXCEPT ![i] = q]
        /\ edited' = edited \cup {i} /\ i \in LineIds
    BY <1>4 DEF SetQuantity, InCart
  <2>2. \A j \in LineIds : asked'[j] = IF j = i THEN q ELSE asked[j]
    BY <2>1 DEF Typed, TypeOK
  <2>3. /\ InCart' = InCart
        /\ \A j \in LineIds : /\ item'[j].fate = item[j].fate /\ (j # i => item'[j] = item[j])
                              /\ j = i => item'[j].quantity = q
    <3>1. item \in [LineIds -> CartItem] /\ item' = [item EXCEPT ![i].quantity = q]
      BY <2>1 DEF Typed, TypeOK
    <3>2. \A j \in LineIds : /\ item[j] \in CartItem
                             /\ item'[j] = IF j = i THEN [item[j] EXCEPT !.quantity = q] ELSE item[j]
      BY <3>1
    <3>3. \A j \in LineIds : /\ item'[j].fate = item[j].fate /\ (j # i => item'[j] = item[j])
                             /\ j = i => item'[j].quantity = q
      BY <3>2 DEF CartItem
    <3>4. InCart' = InCart
      BY <3>3 DEF InCart
    <3> QED BY <3>3, <3>4
  <2>4. ReadInv' /\ AloneInv'
    <3>1. \A j \in LineIds : j \notin edited' => asked[j] <= asked'[j]
      BY <1>2, <2>1, <2>2
    <3> QED BY <1>1, <2>3, <3>1, UnitsReturn
  <2>5. UnitsAccounted'
    <3> SUFFICES ASSUME NEW j \in LineIds
                 PROVE  /\ j \in InCart' /\ j \notin edited' => item'[j].quantity <= asked'[j]
                        /\ ~ overlapped' => /\ item'[j].fate # "missed"
                                            /\ j \in InCart' => item'[j].quantity = asked'[j]
      BY DEF UnitsAccounted
    <3>1. CASE j = i
      <4>1. item[j].fate # "missed"
        BY <1>4, <3>1 DEF InCart
      <4> QED BY <1>2, <2>2, <2>3, <3>1, <4>1
    <3>2. CASE j # i
      BY <1>1, <2>1, <2>2, <2>3, <3>2 DEF UnitsInv, UnitsAccounted
    <3> QED BY <3>1, <3>2
  <2> QED BY <2>4, <2>5 DEF UnitsInv
<1> QED BY <1>3, <1>4

(* Deleting lines loses none of their units, and an order deletes what it  *)
(* has read unless another request came in between.                        *)
LEMMA UnitsDelete ==
    ASSUME Typed, Typed', UnitsInv, NEW w \in Workers, Remove(w) \/ OrderTx(w)
    PROVE  UnitsInv'
<1>1. Shopping(w) /\ OneStep(w) /\ Return(w) /\ UNCHANGED <<asked, edited, overlapped>>
  BY DEF Remove, OrderTx, IsAt, Shopping, OnCart, OneStep, CartStep
<1>2. ASSUME NEW ids, NEW fate \in [LineIds -> {"removed", "ordered", "missed"}], Delete(ids, fate),
             ~ overlapped => \A i \in InCart : fate[i] # "missed"
      PROVE  UnitsInv'
  <2>1. /\ InCart' \subseteq InCart
        /\ \A i \in LineIds : /\ item'[i].quantity = item[i].quantity
                              /\ item'[i].fate = item[i].fate \/ (i \in InCart /\ item'[i].fate = fate[i])
    BY <1>2, DeleteType DEF Typed, TypeOK
  <2>2. ReadInv' /\ AloneInv'
    <3>1. \A i \in LineIds : asked[i] <= asked'[i]
      BY <1>1 DEF Typed, TypeOK
    <3>2. \A i \in LineIds : fate[i] # "unused"
      OBVIOUS
    <3> QED BY <1>1, <2>1, <3>1, <3>2, UnitsReturn
  <2>3. UnitsAccounted'
    BY <1>1, <1>2, <2>1 DEF UnitsInv, UnitsAccounted
  <2> QED BY <2>2, <2>3 DEF UnitsInv
<1>3. CASE Remove(w)
  <2> DEFINE fate == [i \in LineIds |-> "removed"]
  <2>1. fate \in [LineIds -> {"removed", "ordered", "missed"}] /\ \A i \in InCart : fate[i] # "missed"
    BY DEF InCart
  <2> QED BY <1>2, <1>3, <2>1 DEF Remove
<1>4. CASE OrderTx(w)
  <2> DEFINE fate == [i \in LineIds |-> IF call[w].read[i] = item[i].quantity THEN "ordered" ELSE "missed"]
  <2>1. fate \in [LineIds -> {"removed", "ordered", "missed"}] /\ Delete(LineIds, fate)
    BY <1>4 DEF OrderTx
  <2>2. call[w].op = "order"
    BY <1>4 DEF OrderTx, IsAt
  <2>3. ~ overlapped => \A i \in InCart : fate[i] # "missed"
    BY <2>2 DEF UnitsInv, AloneInv, InCart
  <2> HIDE DEF fate
  <2> QED BY <1>2, <2>1, <2>3
<1> QED BY <1>3, <1>4

(* The other steps change no line and end the request or go on with it.    *)
LEMMA UnitsRest ==
    ASSUME Typed, Typed', UnitsInv, NEW w \in Workers,
           FindCart(w) \/ CreateCart(w) \/ OrderRefused(w) \/ Toggle(w) \/ Crash(w)
    PROVE  UnitsInv'
<1>1. UNCHANGED <<item, asked, edited, overlapped, InCart>> /\ OneStep(w) /\ Rest(w)
  BY DEF FindCart, CreateCart, OrderRefused, Toggle, Crash, lines, InCart, OneStep, CartStep, Rest
<1>2. \/ call'[w] = Idle
      \/ call'[w].op = call[w].op /\ call'[w].read = call[w].read /\ call'[w].line = call[w].line
  BY <1>1, OwnCall
<1>3. /\ Adding(w)' => Adding(w) /\ call'[w].read = call[w].read /\ call'[w].line = call[w].line
      /\ call'[w].op = "order" => call[w].op = "order" /\ call'[w].read = call[w].read
      /\ Shopping(w)' => Shopping(w)
  BY <1>2, IdleType DEF Adding, Shopping, OnCart
<1>4. ReadInv'
  <2>1. \A i \in LineIds : asked[i] <= asked[i]
    BY DEF Typed, TypeOK
  <2> QED BY <1>1, <1>3, <2>1, ReadKeeps DEF UnitsInv, ReadInv
<1>5. AloneInv'
  BY <1>1, <1>3, AloneKeeps DEF UnitsInv, AloneInv
<1>6. UnitsAccounted'
  BY <1>1 DEF UnitsInv, UnitsAccounted
<1> QED BY <1>4, <1>5, <1>6 DEF UnitsInv

(* Overlapping additions lose units but invent none, and alone on the cart *)
(* a line holds what was asked for and is ordered as it was read.          *)
THEOREM UnitsAreAccounted == Spec => []UnitsAccounted
<1>1. ASSUME Init PROVE UnitsInv
  <2>1. InCart = {} /\ \A w \in Workers : ~ Adding(w) /\ ~ Shopping(w) /\ call[w].op # "order"
    BY <1>1, IdleType DEF Init, InCart, Adding, Shopping, OnCart
  <2>2. \A i \in LineIds : item[i].fate # "missed"
    BY <1>1 DEF Init
  <2> QED BY <2>1, <2>2 DEF UnitsInv, ReadInv, AloneInv, UnitsAccounted
<1>2. ASSUME Typed, Typed', UnitsInv, [Next]_vars PROVE UnitsInv'
  <2>1. ASSUME NEW w \in Workers, OneStep(w) PROVE UnitsInv'
    BY <1>2, <2>1, Cases, UnitsBegin, UnitsFind, UnitsNew, UnitsAdd, UnitsSet, UnitsDelete, UnitsRest DEF Rest
  <2>2. ASSUME UNCHANGED <<lines, call, overlapped>> PROVE UnitsInv'
    BY <2>2, <1>2 DEF lines, UnitsInv, ReadInv, AloneInv, UnitsAccounted, InCart, Adding, Shopping
  <2> QED BY <1>2, <2>1, <2>2, Elsewhere DEF Next, OneStep
<1>3. UnitsInv => UnitsAccounted
  BY DEF UnitsInv
<1> QED BY <1>1, <1>2, <1>3, Typing, PTL DEF Spec
=============================================================================
