------------------------------- MODULE Reviews -------------------------------
(***************************************************************************)
(* The reviews of one product, and the count and average of their ratings  *)
(* that the product's row repeats.                                         *)
(*                                                                         *)
(* create inserts and aggregates in one transaction.  At READ COMMITTED    *)
(* its statements are steps: its read sees its own row and what others     *)
(* committed, others see nothing of it before it commits, and an insert    *)
(* under a key that another transaction has inserted waits for that one.   *)
(* delete has no transaction.                                              *)
(*                                                                         *)
(* Abstracted: titles, texts and pictures; the average, kept as the sum of *)
(* the ratings beside their count.  Each user has one item of the product. *)
(***************************************************************************)
EXTENDS Integers, FiniteSets, Functions

CONSTANTS
    Users, Workers, None,
    Ratings,      \* the ratings used, of 1 to 5
    MaxReviews    \* bound: reviews a user ever submits

Review == [id : 1..MaxReviews, rating : Ratings]

ASSUME RatingsAssumption == Ratings \subseteq 1..5 /\ MaxReviews \in Nat
ASSUME UsersAssumption == IsFiniteSet(Users)
ASSUME NoneAssumption == None \notin Review

Rows == [Users -> Review \cup {None}]

Authors(rows) == {u \in Users : rows[u] # None}

(* reduce over the ratings found, beside their length.                     *)
Aggregate(rows) ==
    [count |-> Cardinality(Authors(rows)),
     sum |-> FoldFunctionOnSet(LAMBDA review, sum : review.rating + sum, 0, rows, Authors(rows))]

Calls == [op : {"idle", "create", "delete"},
          pc : {"idle", "existing", "insert", "read", "update", "delete"},
          user : Users \cup {None}, review : Review \cup {None},
          found : Rows \cup {None}, alone : BOOLEAN]
Idle == [op |-> "idle", pc |-> "idle", user |-> None, review |-> None, found |-> None, alone |-> FALSE]

VARIABLES
    delivered,   \* delivered[u]: the status of u's item is DELIVERED
    paid,        \* paid[u]: paymentStatus of u's order is PAID
    rows,        \* rows[u]: u's review as committed
    product,     \* averageRating and reviewCount of the product
    call,        \* call[w]: the request in flight on worker w
    serial,      \* serial[u]: reviews u has inserted so far; the last one's id
    received,    \* history: users whose item was delivered and paid for at some time
    smudged      \* history: the last update of product overlapped another writer,
                 \* or a deletion broke off after it

orders == <<delivered, paid, received>>
vars == <<orders, rows, product, call, serial, smudged>>

Init ==
    /\ delivered = [u \in Users |-> FALSE]
    /\ paid = [u \in Users |-> FALSE]
    /\ rows = [u \in Users |-> None]
    /\ product = [count |-> 0, sum |-> 0]
    /\ call = [w \in Workers |-> Idle]
    /\ serial = [u \in Users |-> 0]
    /\ received = {}
    /\ smudged = FALSE

IsAt(w, op, pc) == call[w].op = op /\ call[w].pc = pc
Accept(w, request) == call[w] = Idle /\ call' = [call EXCEPT ![w] = request]
Goto(w, pc) == call' = [call EXCEPT ![w].pc = pc]
Return(w) == call' = [call EXCEPT ![w] = Idle]

(* A writer changed its review and has not updated the product yet.        *)
Writing(w) == call[w].pc \in {"read", "update"}

(* w becomes a writer with the given review; who overlaps is not alone.    *)
StartWriting(w, review) ==
    LET others == {x \in Workers \ {w} : Writing(x)} IN
    call' = [x \in Workers |->
                IF x = w THEN [call[w] EXCEPT !.pc = "read", !.review = review, !.alone = (others = {})]
                ELSE IF x \in others THEN [call[x] EXCEPT !.alone = FALSE]
                ELSE call[x]]

(* What w's connection sees: in a transaction, its own row too.            *)
Visible(w) ==
    IF call[w].op = "create" THEN [rows EXCEPT ![call[w].user] = call[w].review] ELSE rows

-----------------------------------------------------------------------------
(* The vendor sets the item's status to anything; payments come and go.    *)
SetItemStatus(u, isDelivered) ==
    /\ delivered' = [delivered EXCEPT ![u] = isDelivered]
    /\ received' = IF isDelivered /\ paid[u] THEN received \cup {u} ELSE received
    /\ UNCHANGED <<paid, rows, product, call, serial, smudged>>

SetPaid(u, isPaid) ==
    /\ paid' = [paid EXCEPT ![u] = isPaid]
    /\ received' = IF isPaid /\ delivered[u] THEN received \cup {u} ELSE received
    /\ UNCHANGED <<delivered, rows, product, call, serial, smudged>>

(* Mutant: delivered is enough.                                            *)
CreateBeginUnpaid(w, u) ==
    /\ delivered[u]
    /\ Accept(w, [Idle EXCEPT !.op = "create", !.pc = "existing", !.user = u])
    /\ UNCHANGED <<orders, rows, product, serial, smudged>>

CreateBegin(w, u) ==
    /\ delivered[u] /\ paid[u]
    /\ Accept(w, [Idle EXCEPT !.op = "create", !.pc = "existing", !.user = u])
    /\ UNCHANGED <<orders, rows, product, serial, smudged>>

CreateExisting(w) ==
    /\ IsAt(w, "create", "existing")
    /\ IF rows[call[w].user] = None THEN Goto(w, "insert") ELSE Return(w)
    /\ UNCHANGED <<orders, rows, product, serial, smudged>>

(* Mutant: stars are counted from zero.                                    *)
CreateInsertFromZero(w, rating) ==
    LET u == call[w].user IN
    /\ IsAt(w, "create", "insert")
    /\ rows[u] = None /\ serial[u] < MaxReviews
    /\ serial' = [serial EXCEPT ![u] = serial[u] + 1]
    /\ StartWriting(w, [id |-> serial[u] + 1, rating |-> rating - 1])
    /\ UNCHANGED <<orders, rows, product, smudged>>

(* The unique key refuses a second review that the read did not see.       *)
CreateInsert(w, rating) ==
    LET u == call[w].user IN
    /\ IsAt(w, "create", "insert")
    /\ ~ \E x \in Workers : call[x].op = "create" /\ call[x].user = u /\ Writing(x)
    /\ IF rows[u] = None
       THEN /\ serial[u] < MaxReviews
            /\ serial' = [serial EXCEPT ![u] = serial[u] + 1]
            /\ StartWriting(w, [id |-> serial[u] + 1, rating |-> rating])
       ELSE Return(w) /\ UNCHANGED serial
    /\ UNCHANGED <<orders, rows, product, smudged>>

DeleteBegin(w, u) ==
    /\ rows[u] # None
    /\ Accept(w, [Idle EXCEPT !.op = "delete", !.pc = "delete", !.user = u, !.review = rows[u]])
    /\ UNCHANGED <<orders, rows, product, serial, smudged>>

(* By id: nothing is deleted, and the call fails, when that review is gone. *)
DeleteRow(w) ==
    LET u == call[w].user IN
    /\ IsAt(w, "delete", "delete")
    /\ IF rows[u] = call[w].review
       THEN rows' = [rows EXCEPT ![u] = None] /\ StartWriting(w, call[w].review)
       ELSE Return(w) /\ UNCHANGED rows
    /\ UNCHANGED <<orders, product, serial, smudged>>

ReadRatings(w) ==
    /\ call[w].pc = "read"
    /\ call' = [call EXCEPT ![w].pc = "update", ![w].found = Visible(w)]
    /\ UNCHANGED <<orders, rows, product, serial, smudged>>

(* Mutant: the average is computed, the count left to the first review.    *)
UpdateProductSumOnly(w) ==
    /\ call[w].pc = "update"
    /\ product' = [product EXCEPT !.sum = Aggregate(call[w].found).sum]
    /\ rows' = Visible(w)
    /\ smudged' = ~ call[w].alone
    /\ Return(w)
    /\ UNCHANGED <<orders, serial>>

(* The product's row, and with it the commit of create's transaction.      *)
UpdateProduct(w) ==
    /\ call[w].pc = "update"
    /\ product' = Aggregate(call[w].found)
    /\ rows' = Visible(w)
    /\ smudged' = ~ call[w].alone
    /\ Return(w)
    /\ UNCHANGED <<orders, serial>>

(* An await throws or the process dies: create is rolled back, the row     *)
(* that delete deleted stays deleted.                                      *)
Fail(w) ==
    /\ call[w] # Idle
    /\ smudged' = (smudged \/ (call[w].op = "delete" /\ Writing(w)))
    /\ Return(w)
    /\ UNCHANGED <<orders, rows, product, serial>>

Next ==
    \/ \E u \in Users, yes \in BOOLEAN : SetItemStatus(u, yes) \/ SetPaid(u, yes)
    \/ \E w \in Workers, u \in Users : CreateBegin(w, u) \/ DeleteBegin(w, u)
    \/ \E w \in Workers : CreateExisting(w) \/ DeleteRow(w) \/ ReadRatings(w) \/ UpdateProduct(w) \/ Fail(w)
    \/ \E w \in Workers, rating \in Ratings : CreateInsert(w, rating)

Spec == Init /\ [][Next]_vars

-----------------------------------------------------------------------------
(* Properties.                                                             *)

(* Rows, requests and the aggregate have their types; create never divides *)
(* by zero: its transaction finds its own review, whatever is deleted.     *)
TypeOK ==
    /\ delivered \in [Users -> BOOLEAN] /\ paid \in [Users -> BOOLEAN]
    /\ rows \in Rows
    /\ product \in [count : Nat, sum : Nat]
    /\ call \in [Workers -> Calls]
    /\ serial \in [Users -> 0..MaxReviews]
    /\ received \subseteq Users
    /\ smudged \in BOOLEAN
    /\ \A w \in Workers : IsAt(w, "create", "update") => Aggregate(call[w].found).count > 0

(* The aggregate is wrong only where two writers met or a deletion broke   *)
(* off, and the next writer that meets no other sets it right: an error    *)
(* neither spreads nor adds up.                                            *)
AggregateExact ==
    smudged \/ (\E w \in Workers : call[w].op = "delete" /\ Writing(w)) \/ product = Aggregate(rows)

(* Who reviews has once had the product delivered and paid for, though the *)
(* review is written long after that was looked at.                        *)
ReviewBacked == Authors(rows) \subseteq received
===========================================================================
