------------------------------- MODULE Amounts -------------------------------
(***************************************************************************)
(* The money of one order: what createOrder charges, and how four handlers *)
(* written at different times split it between tax, platform and vendors - *)
(* createOrder's updateVendorEarnings, the webhook payment.captured, the   *)
(* settlement after delivery, and cancelOrder.  Each rounds in its own     *)
(* places.                                                                 *)
(*                                                                         *)
(* Amounts are paise.  The code computes rupees in floating point and      *)
(* rounds to paise with Math.round(x * 100) / 100: the result is the       *)
(* nearest paise, and of an exact half either neighbour, as binary         *)
(* fractions put it just above or just below.  Each handler's figures are  *)
(* computed here once; how often and in what order the handlers run is in  *)
(* Payments and Fulfilment.                                                *)
(***************************************************************************)
EXTENDS Integers, FiniteSets, FiniteSetsExt

CONSTANTS
    Lines,       \* lines of the order
    Vendors,     \* vendors of the products
    Offers,      \* bound: what a line can be (see Offer)
    Rates,       \* bound: vendor.commissionRate, in percent
    Coupons,     \* rows of the coupon table (see Coupon)
    REALTEST,    \* the coupon code for trying a real payment
    Null         \* no coupon, no variant price, no row

ASSUME SetsAreFinite == IsFiniteSet(Lines) /\ IsFiniteSet(Vendors)
ASSUME RatesArePercent == Rates \subseteq 0..100

(* A line: product.price, the variant's own price if it has one.  Only a   *)
(* new product's price is checked for its sign; an update of the product,  *)
(* or a variant, may put a price below zero.                               *)
Offer == [vendor : Vendors, price : Int, variant : Int \cup {Null}, quantity : Nat \ {0}]
ASSUME OffersAreOffers == Offers \subseteq Offer

(* No handler writes a coupon: the rows are the seed's, which take off a   *)
(* share of the price, or no more than what must be bought.                *)
Coupon == [percentage : BOOLEAN, value : Nat, min : Nat, max : Nat]
ASSUME CouponsAreCoupons ==
    /\ Coupons \subseteq Coupon
    /\ \A c \in Coupons : c.value <= IF c.percentage THEN 100 ELSE c.min

(* What createOrder stores of the amounts it charges.                     *)
OrderRow == [subtotal : Int, gst : Int, commission : Int, discount : Int, shipping : Nat,
             coupon : Coupons \cup {Null, REALTEST}, total : Int]
ASSUME NullIsNoRow == Null \notin OrderRow

FREE_DELIVERY_THRESHOLD == 49900
LocalPayout == 5000

VARIABLES
    item,      \* item[l]: the line as the customer picked it
    rate,      \* rate[v]: vendor.commissionRate
    order,     \* the Order row, and the tax and commission createOrder answers
    total,     \* total[l]: OrderItem.total
    payment,   \* the Payment row
    credit,    \* credit[h][v]: what handler h added to (or took off) totalEarnings
    done,      \* the handlers that have run
    books      \* the GstTransaction and Commission rows and the PaymentLedger

amounts == <<item, rate, order, total, payment, credit, done, books>>

-----------------------------------------------------------------------------
(* Math.round of n/d paise.                                                *)
Rounded(n, d) == {(2 * n + d) \div (2 * d), -((d - 2 * n) \div (2 * d))}

Each(S, values(_)) == {f \in [S -> UNION {values(x) : x \in S}] : \A x \in S : f[x] \in values(x)}

SumOver(S, f(_)) == MapThenSumSet(f, S)
LinesOf(v) == {l \in Lines : item[l].vendor = v}
Gross(v) == SumOver(LinesOf(v), LAMBDA l : total[l])
RateOf(l) == rate[item[l].vendor]

(* enrichItemsFromPayload takes the variant's price if it is set (??),     *)
(* addToCart if it is not zero (||).                                       *)
PayloadPrice(i) == IF i.variant = Null THEN i.price ELSE i.variant
CartPrice(i) == IF i.variant \in {Null, 0} THEN i.price ELSE i.variant

(* applyCoupon; maxDiscount 0 is none.                                     *)
Discounts(c, subtotal) ==
    IF c \notin Coupons \/ subtotal < c.min THEN {0}
    ELSE {IF c.max > 0 /\ d > c.max THEN c.max ELSE d :
             d \in IF c.percentage THEN Rounded(subtotal * c.value, 100) ELSE {c.value}}

NoBooks == [gst |-> Null, commission |-> [v \in Vendors |-> Null], ledger |-> Null]
Handlers == {"createOrder", "captured", "settled", "reversed"}

AmountsInit ==
    /\ item \in [Lines -> Offers]
    /\ rate \in [Vendors -> Rates]
    /\ order = Null
    /\ total = [l \in Lines |-> 0]
    /\ payment = "none"
    /\ credit = [h \in Handlers |-> [v \in Vendors |-> 0]]
    /\ done = {}
    /\ books = NoBooks

(* createOrder, from a cart row or the request's own items.                *)
CreateOrder(coupon, fromCart, local) ==
    LET price(i) == IF fromCart THEN CartPrice(i) ELSE PayloadPrice(i)
        t == [l \in Lines |-> price(item[l]) * item[l].quantity]
        subtotal == SumOver(Lines, LAMBDA l : t[l])
    IN
    /\ order = Null
    /\ total' = t
    /\ \E gst \in Rounded(18 * subtotal, 118), d \in Discounts(coupon, subtotal),
          commission \in Rounded(SumOver(Lines, LAMBDA l : t[l] * RateOf(l)), 100) :
          LET discount == IF coupon = REALTEST THEN subtotal - 100 ELSE d
              shipping == IF subtotal - d >= FREE_DELIVERY_THRESHOLD \/ local \/ coupon = REALTEST
                          THEN 0 ELSE 4900
          IN  order' = [subtotal |-> subtotal, gst |-> gst, commission |-> commission,
                        discount |-> discount, shipping |-> shipping,
                        coupon |-> coupon, total |-> subtotal - discount + shipping]
    /\ UNCHANGED <<item, rate, payment, credit, done, books>>

Run(h) == order # Null /\ h \notin done /\ done' = done \cup {h}

(* updateVendorEarnings: rounded once per vendor.                          *)
UpdateVendorEarnings ==
    /\ Run("createOrder")
    /\ \E earning \in Each(Vendors, LAMBDA v : Rounded(Gross(v) * (100 - rate[v]), 100)) :
          credit' = [credit EXCEPT !["createOrder"] = earning]
    /\ UNCHANGED <<item, rate, order, total, payment, books>>

(* create-order at the gateway, which takes no amount below a rupee, and   *)
(* verifyPayment.                                                          *)
CreatePayment ==
    /\ order # Null /\ payment = "none"
    /\ order.total >= 100
    /\ payment' = "open"
    /\ UNCHANGED <<item, rate, order, total, credit, done, books>>

VerifyPayment ==
    /\ payment = "open"
    /\ payment' = "PAID"
    /\ UNCHANGED <<item, rate, order, total, credit, done, books>>

(* Mutant: the commission is not taken off.                                *)
ProcessPaymentCapturedGross ==
    /\ Run("captured") /\ payment = "open"
    /\ payment' = "PAID"
    /\ credit' = [credit EXCEPT !["captured"] = [v \in Vendors |-> Gross(v)]]
    /\ UNCHANGED <<item, rate, order, total, books>>

(* payment.captured: rounded line by line.  A ledger the settlement has    *)
(* already written keeps its tax and its rider's payout.                   *)
ProcessPaymentCaptured ==
    /\ Run("captured") /\ payment = "open"
    /\ payment' = "PAID"
    /\ \E commission \in Each(Lines, LAMBDA l : Rounded(total[l] * RateOf(l), 100)),
          earning \in Each(Lines, LAMBDA l : Rounded(total[l] * (100 - RateOf(l)), 100)) :
          LET totalCommission == SumOver(Lines, LAMBDA l : commission[l]) IN
          /\ credit' = [credit EXCEPT !["captured"] =
                           [v \in Vendors |-> SumOver(LinesOf(v), LAMBDA l : earning[l])]]
          /\ \E gst \in Rounded(18 * order.subtotal, 118), onCommission \in Rounded(18 * totalCommission, 100) :
                books' = [books EXCEPT !.ledger =
                   [by |-> "captured",
                    gstAmount |-> IF @ = Null THEN gst ELSE @.gstAmount,
                    deliveryPayout |-> IF @ = Null THEN 0 ELSE @.deliveryPayout,
                    platformCommission |-> totalCommission, gstOnCommission |-> onCommission,
                    netPlatformEarning |-> totalCommission - onCommission]]
    /\ UNCHANGED <<item, rate, order, total>>

(* Mutant: the tax is put on top of the price instead of taken out of it.  *)
TaxOnTop(subtotal) ==
    {[taxableAmount |-> subtotal, totalGst |-> gst, half |-> half] :
        gst \in Rounded(18 * subtotal, 100), half \in Rounded(9 * subtotal, 100)}

(* The settlement's tax: what is left of the price without it, in halves.  *)
TaxWithin(subtotal) ==
    UNION {{[taxableAmount |-> taxable, totalGst |-> subtotal - taxable, half |-> half] :
              half \in Rounded(subtotal - taxable, 2)} : taxable \in Rounded(100 * subtotal, 118)}

(* processSettlementsAndPayouts' commission for one vendor.                *)
Commissions(v) ==
    UNION {{[commissionAmount |-> c, gstOnCommission |-> g, vendorPayout |-> Gross(v) - (c + g)] :
              g \in Rounded(18 * c, 100)} : c \in Rounded(Gross(v) * rate[v], 100)}

(* After delivery.  A ledger is written only if there is a Payment row and *)
(* no ledger yet, with 10% for commission whatever the vendors' rates.     *)
Settle ==
    /\ Run("settled")
    /\ \E gst \in TaxWithin(order.subtotal), c \in Each(Vendors, Commissions) :
          LET sold == {v \in Vendors : LinesOf(v) # {}} IN
          /\ credit' = [credit EXCEPT !["settled"] =
                           [v \in Vendors |-> IF v \in sold THEN c[v].vendorPayout ELSE 0]]
          /\ \E p \in Rounded(10 * order.subtotal, 100), g \in Rounded(18 * order.subtotal, 1000),
                net \in Rounded(10 * order.subtotal - 100 * LocalPayout, 100) :
                books' = [gst |-> gst,
                          commission |-> [v \in Vendors |-> IF v \in sold THEN c[v] ELSE Null],
                          ledger |->
                             IF payment = "none" \/ books.ledger # Null THEN books.ledger
                             ELSE [by |-> "settled", gstAmount |-> gst.totalGst,
                                   deliveryPayout |-> LocalPayout, platformCommission |-> p,
                                   gstOnCommission |-> g, netPlatformEarning |-> net]]
    /\ UNCHANGED <<item, rate, order, total, payment>>

(* cancelOrder takes the earnings back, rounded line by line, whichever    *)
(* handler has credited them.                                              *)
ReverseEarnings ==
    /\ Run("reversed") /\ "settled" \notin done
    /\ \E earning \in Each(Lines, LAMBDA l : Rounded(total[l] * (100 - RateOf(l)), 100)) :
          credit' = [credit EXCEPT !["reversed"] =
                        [v \in Vendors |-> SumOver(LinesOf(v), LAMBDA l : earning[l])]]
    /\ UNCHANGED <<item, rate, order, total, payment, books>>

AmountsNext ==
    \/ \E coupon \in Coupons \cup {Null, REALTEST}, fromCart, local \in BOOLEAN :
          CreateOrder(coupon, fromCart, local)
    \/ UpdateVendorEarnings \/ CreatePayment \/ VerifyPayment
    \/ ProcessPaymentCaptured \/ Settle \/ ReverseEarnings

AmountsSpec == AmountsInit /\ [][AmountsNext]_amounts

-----------------------------------------------------------------------------
(* Properties.                                                             *)

Near(a, b, tolerance) == a - b \in (-tolerance)..tolerance

(* Four handlers compute a vendor's share on their own, and all but the    *)
(* settlement mean the same amount: they differ by half a paisa for each   *)
(* rounding.  The settlement pays that amount less the GST on the          *)
(* commission.  An order posted by two handlers is therefore credited      *)
(* twice in full, and a cancellation takes one credit back, not both.      *)
PostingsAgree ==
    \A v \in Vendors :
        LET n == Cardinality(LinesOf(v))
            ran(h) == h \in done
            earned == credit["createOrder"][v]
        IN
        /\ ran("createOrder") /\ ran("captured") => Near(credit["captured"][v], earned, (n + 1) \div 2)
        /\ ran("createOrder") /\ ran("reversed") => Near(credit["reversed"][v], earned, (n + 1) \div 2)
        /\ ran("captured") /\ ran("reversed") => Near(credit["captured"][v], credit["reversed"][v], n)
        /\ ran("createOrder") /\ ran("settled") /\ n > 0 =>
              Near(credit["settled"][v] + books.commission[v].gstOnCommission, earned, 1)

(* A line whose product, or variant, was priced below zero.                *)
BelowZero(i) == i.price < 0 \/ (i.variant # Null /\ i.variant < 0)

(* No coupon, rate or rounding makes an order cost less than nothing: one  *)
(* that does has a line priced below zero, and still costs no less than    *)
(* its goods.  The test coupon aside, the customer pays no more than the   *)
(* goods and their shipping.                                               *)
ChargeIsFair ==
    /\ order.total < 0 => /\ \E l \in Lines : BelowZero(item[l])
                          /\ order.total >= order.subtotal
    /\ order.coupon # REALTEST => order.total <= order.subtotal + 4900

(* The tax that createOrder answers, the ledger and the GstTransaction     *)
(* name is the same to a paisa, and with the taxable amount, in halves, it *)
(* makes up the price to a paisa.                                          *)
TaxAgrees ==
    /\ books.ledger # Null => Near(books.ledger.gstAmount, order.gst, 1)
    /\ books.gst # Null =>
          /\ Near(books.gst.totalGst, order.gst, 1)
          /\ Near(books.gst.taxableAmount + 2 * books.gst.half, order.subtotal, 1)

(* The ledger's net earning is its commission less the GST on it less the  *)
(* rider's payout (README.md:671) only if payment.captured wrote it before *)
(* the settlement: the settlement leaves the GST out, and the webhook that *)
(* finds the settlement's ledger leaves the payout out.                    *)
LedgerBalances ==
    LET ledger == books.ledger
        gross == ledger.platformCommission
    IN  ledger # Null =>
           IF ledger.by = "settled"
           THEN Near(ledger.netPlatformEarning, gross - ledger.deliveryPayout, 1)
           ELSE /\ ledger.netPlatformEarning = gross - ledger.gstOnCommission
                /\ Near(gross, order.commission, (Cardinality(Lines) + 1) \div 2)

(* Charge, tax and ledger of an order fit together.                        *)
BooksBalance == order # Null => ChargeIsFair /\ TaxAgrees /\ LedgerBalances
=============================================================================
