------------------------ MODULE AmountsReviewsProofs ------------------------
(***************************************************************************)
(* Theorems about Reviews, for any workers, ratings and finitely many      *)
(* users, and about Amounts, for any lines, offers, rates and coupons.     *)
(* The two have nothing in common but the sums over finite sets: of the    *)
(* ratings of a product, and of the lines of an order.                     *)
(***************************************************************************)
EXTENDS Reviews, Amounts, Sums

USE DEF orders

-----------------------------------------------------------------------------
(* The aggregate.                                                          *)

(* The fold over the ratings is a sum of natural numbers: it is one        *)
(* whatever the order.                                                     *)
LEMMA AggregateType ==
    ASSUME NEW r \in Rows
    PROVE  /\ Aggregate(r) \in [count : Nat, sum : Nat]
           /\ \A u \in Users : r[u] # None => Aggregate(r).count > 0
<1> DEFINE f == [u \in Authors(r) |-> r[u].rating]
<1>1. IsFiniteSet(Authors(r))
  BY UsersAssumption, FS_Subset DEF Authors
<1>2. FoldFunctionOnSet(LAMBDA review, sum : review.rating + sum, 0, r, Authors(r)) = Total(f, Authors(r))
  BY PickIn DEF Total, FoldFunctionOnSet, MapThenSumSet, MapThenFoldSet, Pick
<1>3. ASSUME NEW u \in Authors(r)
      PROVE  f[u] \in Nat
  <2>1. r[u] \in Review
    BY DEF Authors, Rows
  <2>2. r[u].rating \in Ratings
    BY <2>1 DEF Review
  <2>3. r[u].rating \in 1..5
    BY <2>2, RatingsAssumption, Zenon
  <2>4. r[u].rating \in Nat
    BY <2>3
  <2> QED BY <2>4
<1>4. Total(f, Authors(r)) \in Nat
  BY <1>1, <1>3, TotalNat
<1>5. Cardinality(Authors(r)) \in Nat
  BY <1>1, FS_CardinalityType
<1>6. ASSUME NEW u \in Users, r[u] # None
      PROVE  Cardinality(Authors(r)) > 0
  <2>1. Authors(r) # {}
    BY <1>6 DEF Authors
  <2> QED BY <1>1, <1>5, <2>1, FS_EmptySet
<1> QED BY <1>2, <1>4, <1>5, <1>6 DEF Aggregate

-----------------------------------------------------------------------------
(* What a request carries.                                                 *)

(* Its user, who when creating has received the product; while writing,    *)
(* the review written; before the update, the ratings found, its own among *)
(* them.                                                                   *)
Sound(c, good) ==
    /\ c.op # "idle" => c.user \in Users
    /\ c.op = "create" => c.user \in good
    /\ c.pc \in {"read", "update"} => c.op # "idle" /\ c.review \in Review
    /\ c.pc = "delete" => c.review \in Review
    /\ c.pc = "update" => c.found \in Rows
    /\ c.op = "create" /\ c.pc = "update" => c.found[c.user] # None

Requests == \A w \in Workers : Sound(call[w], received)

Types ==
    /\ delivered \in [Users -> BOOLEAN] /\ paid \in [Users -> BOOLEAN]
    /\ rows \in Rows
    /\ product \in [count : Nat, sum : Nat]
    /\ call \in [Workers -> Calls]
    /\ serial \in [Users -> 0..MaxReviews]
    /\ received \subseteq Users
    /\ smudged \in BOOLEAN

(* Who has the product, delivered and paid for, is noted.                  *)
Noted == \A u \in Users : delivered[u] /\ paid[u] => u \in received

Inv == Types /\ Requests /\ Noted /\ ReviewBacked

LEMMA IdleType == Idle \in Calls /\ Idle.op = "idle" /\ Idle.pc = "idle" /\ \A good : Sound(Idle, good)
<1>1. Idle \in Calls /\ Idle.op = "idle" /\ Idle.pc = "idle"
  BY DEF Idle, Calls
<1> QED BY <1>1 DEF Sound

(* A request that begins, goes on or ends; nobody else's is touched.       *)
LEMMA Moves ==
    ASSUME Inv, NEW w \in Workers
    PROVE  /\ call[w] \in Calls /\ Sound(call[w], received)
           /\ Return(w) => /\ call' \in [Workers -> Calls] /\ call'[w] = Idle
                           /\ \A x \in Workers : x # w => call'[x] = call[x]
           /\ \A request \in Calls :
                 Accept(w, request) => /\ call' \in [Workers -> Calls] /\ call[w] = Idle /\ call'[w] = request
                                       /\ \A x \in Workers : x # w => call'[x] = call[x]
  BY IdleType DEF Inv, Types, Requests, Return, Accept

(* What a new writer carries, and the others who write.                    *)
LEMMA Started ==
    ASSUME Inv, NEW w \in Workers, NEW review \in Review, StartWriting(w, review)
    PROVE  /\ call' \in [Workers -> Calls]
           /\ \A x \in Workers : /\ call'[x].op = call[x].op /\ call'[x].user = call[x].user
                                 /\ call'[x].found = call[x].found
                                 /\ x # w => call'[x].pc = call[x].pc /\ call'[x].review = call[x].review
           /\ call'[w].pc = "read" /\ call'[w].review = review
           /\ call'[w].alone => \A x \in Workers \ {w} : ~Writing(x)
           /\ \A x \in Workers \ {w} : call'[x].alone => call[x].alone /\ ~Writing(x)
<1> DEFINE others == {x \in Workers \ {w} : Writing(x)}
           first == others = {}
           new == [call[w] EXCEPT !.pc = "read", !.review = review, !.alone = first]
           met(x) == [call[x] EXCEPT !.alone = FALSE]
<1>1. \A x \in Workers : call[x] \in Calls
  BY DEF Inv, Types
<1>2. first \in BOOLEAN
  OBVIOUS
<1>3. call' = [x \in Workers |-> IF x = w THEN new ELSE IF x \in others THEN met(x) ELSE call[x]]
  BY DEF StartWriting
<1>4. /\ new \in Calls /\ new.op = call[w].op /\ new.user = call[w].user /\ new.found = call[w].found
      /\ new.pc = "read" /\ new.review = review /\ new.alone = first
  <2> HIDE DEF first
  <2> QED BY <1>1, <1>2 DEF Calls
<1>5. ASSUME NEW x \in Workers
      PROVE  /\ met(x) \in Calls /\ met(x).op = call[x].op /\ met(x).user = call[x].user
             /\ met(x).found = call[x].found /\ met(x).pc = call[x].pc /\ met(x).review = call[x].review
             /\ met(x).alone = FALSE
  BY <1>1 DEF Calls
<1>6. \A x \in Workers \ {w} : x \in others \/ (~Writing(x) /\ x \notin others)
  OBVIOUS
<1>7. first => \A x \in Workers \ {w} : ~Writing(x)
  OBVIOUS
<1> HIDE DEF new, met, others, first
<1>8. call' \in [Workers -> Calls]
  BY <1>1, <1>3, <1>4, <1>5
<1>9. call'[w] = new
  BY <1>3
<1>10. \A x \in Workers \ {w} : call'[x] = met(x) \/ (call'[x] = call[x] /\ ~Writing(x))
  BY <1>3, <1>6
<1> QED BY <1>4, <1>5, <1>7, <1>8, <1>9, <1>10

(* Others stay sound where they keep all they carry but alone.             *)
LEMMA Same ==
    ASSUME NEW c, NEW d, NEW good, NEW better, good \subseteq better, Sound(c, good),
           d.op = c.op, d.pc = c.pc, d.user = c.user, d.review = c.review, d.found = c.found
    PROVE  Sound(d, better)
  BY DEF Sound

(* What a connection sees is a set of rows; in a transaction its own row   *)
(* is there.                                                               *)
LEMMA VisibleType ==
    ASSUME Inv, NEW w \in Workers, Writing(w)
    PROVE  /\ Visible(w) \in Rows
           /\ call[w].op = "create" => Visible(w)[call[w].user] # None
           /\ Authors(Visible(w)) \subseteq received
<1>1. Sound(call[w], received) /\ rows \in Rows /\ Authors(rows) \subseteq received /\ call[w] \in Calls
  BY DEF Inv, Types, Requests, ReviewBacked
<1>2. CASE call[w].op = "create"
  <2>1. call[w].user \in Users /\ call[w].user \in received /\ call[w].review \in Review
    BY <1>1, <1>2 DEF Sound, Writing
  <2>2. Visible(w) = [rows EXCEPT ![call[w].user] = call[w].review]
    BY <1>2 DEF Visible
  <2>3. Visible(w) \in Rows /\ Visible(w)[call[w].user] = call[w].review
        /\ \A u \in Users : u # call[w].user => Visible(w)[u] = rows[u]
    BY <1>1, <2>1, <2>2 DEF Rows
  <2> QED BY <1>1, <2>1, <2>3, NoneAssumption DEF Authors
<1>3. CASE call[w].op # "create"
  BY <1>1, <1>3 DEF Visible
<1> QED BY <1>2, <1>3

-----------------------------------------------------------------------------
(* Types, and whose reviews there are.                                     *)

(* A step that moves at most request w, and neither takes back a receipt   *)
(* nor writes a review.                                                    *)
LEMMA Moved ==
    ASSUME Inv, NEW w \in Workers, call' \in [Workers -> Calls], Sound(call'[w], received),
           \A x \in Workers : x # w => call'[x] = call[x],
           UNCHANGED <<orders, rows, product, serial>>, smudged' \in BOOLEAN
    PROVE  Inv'
<1>1. \A x \in Workers : Sound(call[x], received) /\ Sound(call'[x], received)
  BY DEF Inv, Requests
<1> QED BY <1>1 DEF Inv, Types, Requests, Noted, ReviewBacked

LEMMA BeginInv ==
    ASSUME Inv, NEW w \in Workers, NEW u \in Users, CreateBegin(w, u) \/ DeleteBegin(w, u)
    PROVE  Inv'
<1>1. CASE CreateBegin(w, u)
  <2> DEFINE request == [Idle EXCEPT !.op = "create", !.pc = "existing", !.user = u]
  <2>1. request \in Calls /\ request.op = "create" /\ request.pc = "existing" /\ request.user = u
    BY IdleType DEF Calls
  <2>2. Accept(w, request) /\ u \in received /\ UNCHANGED <<orders, rows, product, serial, smudged>>
    BY <1>1 DEF CreateBegin, Inv, Noted
  <2> HIDE DEF request
  <2>3. Sound(request, received)
    BY <2>1, <2>2 DEF Sound
  <2> QED BY <2>1, <2>2, <2>3, Moves, Moved DEF Inv, Types
<1>2. CASE DeleteBegin(w, u)
  <2> DEFINE review == rows[u]
             request == [Idle EXCEPT !.op = "delete", !.pc = "delete", !.user = u, !.review = review]
  <2>1. review \in Review
    BY <1>2 DEF DeleteBegin, Inv, Types, Rows
  <2>2. Accept(w, request) /\ UNCHANGED <<orders, rows, product, serial, smudged>>
    BY <1>2 DEF DeleteBegin
  <2> HIDE DEF review
  <2>3. request \in Calls /\ request.op = "delete" /\ request.pc = "delete" /\ request.user = u
        /\ request.review = review
    BY <2>1, IdleType DEF Calls
  <2> HIDE DEF request
  <2>4. Sound(request, received)
    BY <2>1, <2>3 DEF Sound
  <2> QED BY <2>2, <2>3, <2>4, Moves, Moved DEF Inv, Types
<1> QED BY <1>1, <1>2

LEMMA StartInv ==
    ASSUME Inv, NEW w \in Workers, NEW review \in Review, StartWriting(w, review), call[w].op # "idle",
           serial' \in [Users -> 0..MaxReviews], rows' \in Rows, Authors(rows') \subseteq Authors(rows),
           UNCHANGED <<orders, product, smudged>>
    PROVE  Inv'
<1>1. call' \in [Workers -> Calls]
  BY Started
<1>2. ASSUME NEW x \in Workers
      PROVE  Sound(call'[x], received')
  <2>1. Sound(call[x], received)
    BY DEF Inv, Requests
  <2>2. CASE x = w
    BY <2>1, <2>2, Started DEF Sound
  <2>3. CASE x # w
    BY <2>1, <2>3, Started, Same
  <2> QED BY <2>2, <2>3
<1> QED BY <1>1, <1>2 DEF Inv, Types, Requests, Noted, ReviewBacked

LEMMA WriteInv ==
    ASSUME Inv, NEW w \in Workers,
           \/ CreateExisting(w) \/ DeleteRow(w) \/ ReadRatings(w) \/ UpdateProduct(w) \/ Fail(w)
           \/ \E rating \in Ratings : CreateInsert(w, rating)
    PROVE  Inv'
<1> DEFINE u == call[w].user
<1>0. call[w] \in Calls /\ Sound(call[w], received) /\ rows \in Rows /\ smudged \in BOOLEAN
      /\ serial \in [Users -> 0..MaxReviews]
  BY Moves DEF Inv, Types
<1>1. CASE CreateExisting(w)
  <2>1. CASE Goto(w, "insert")
    <3> DEFINE next == [call[w] EXCEPT !.pc = "insert"]
    <3>1. next \in Calls /\ Sound(next, received)
      BY <1>0 DEF Calls, Sound
    <3>2. call' = [call EXCEPT ![w] = next]
      BY <2>1 DEF Goto
    <3> HIDE DEF next
    <3> QED BY <1>0, <1>1, <3>1, <3>2, Moved DEF CreateExisting, Inv, Types
  <2>2. CASE Return(w)
    BY <1>0, <1>1, <2>2, Moves, Moved, IdleType DEF CreateExisting
  <2> QED BY <1>1, <2>1, <2>2 DEF CreateExisting
<1>2. ASSUME NEW rating \in Ratings, CreateInsert(w, rating)
      PROVE  Inv'
  <2>0. call[w].op = "create" /\ u \in Users /\ UNCHANGED <<orders, rows, product, smudged>>
    BY <1>0, <1>2 DEF CreateInsert, IsAt, Sound
  <2>1. CASE rows[u] = None
    <3> DEFINE id == serial[u] + 1
               review == [id |-> id, rating |-> rating]
    <3>1. id \in 1..MaxReviews /\ serial' = [serial EXCEPT ![u] = id] /\ StartWriting(w, review)
      BY <1>0, <1>2, <2>0, <2>1, RatingsAssumption DEF CreateInsert
    <3> HIDE DEF id
    <3>2. review \in Review
      BY <3>1 DEF Review
    <3>3. serial' \in [Users -> 0..MaxReviews]
      BY <1>0, <2>0, <3>1, RatingsAssumption
    <3> HIDE DEF review
    <3> QED BY <1>0, <2>0, <3>1, <3>2, <3>3, StartInv
  <2>2. CASE rows[u] # None
    BY <1>0, <1>2, <2>2, Moves, Moved, IdleType DEF CreateInsert
  <2> QED BY <2>1, <2>2
<1>3. CASE DeleteRow(w)
  <2>0. call[w].op = "delete" /\ u \in Users /\ call[w].review \in Review
        /\ UNCHANGED <<orders, product, serial, smudged>>
    BY <1>0, <1>3 DEF DeleteRow, IsAt, Sound
  <2>1. CASE rows[u] = call[w].review
    <3>1. rows' = [rows EXCEPT ![u] = None] /\ StartWriting(w, call[w].review)
      BY <1>3, <2>1 DEF DeleteRow
    <3>2. rows' \in Rows /\ Authors(rows') \subseteq Authors(rows)
      BY <1>0, <2>0, <3>1 DEF Rows, Authors
    <3> QED BY <1>0, <2>0, <3>1, <3>2, StartInv
  <2>2. CASE rows[u] # call[w].review
    BY <1>0, <1>3, <2>2, Moves, Moved, IdleType DEF DeleteRow
  <2> QED BY <2>1, <2>2
<1>4. CASE ReadRatings(w)
  <2> DEFINE seen == Visible(w)
             next == [call[w] EXCEPT !.pc = "update", !.found = seen]
  <2>1. seen \in Rows /\ (call[w].op = "create" => seen[u] # None)
    BY <1>4, VisibleType DEF ReadRatings, Writing
  <2>2. call' = [call EXCEPT ![w] = next] /\ call[w].pc = "read"
        /\ UNCHANGED <<orders, rows, product, serial, smudged>>
    BY <1>4 DEF ReadRatings
  <2> HIDE DEF seen
  <2>3. next \in Calls /\ Sound(next, received)
    BY <1>0, <2>1, <2>2 DEF Calls, Sound
  <2> HIDE DEF next
  <2> QED BY <1>0, <2>2, <2>3, Moved DEF Inv, Types
<1>5. CASE UpdateProduct(w)
  <2>1. Visible(w) \in Rows /\ Authors(Visible(w)) \subseteq received
    BY <1>5, VisibleType DEF UpdateProduct, Writing
  <2>2. product' \in [count : Nat, sum : Nat]
    BY <1>0, <1>5, AggregateType DEF UpdateProduct, Sound
  <2>3. call' \in [Workers -> Calls] /\ \A x \in Workers : Sound(call'[x], received)
    BY <1>5, Moves, IdleType DEF UpdateProduct, Inv, Requests
  <2>4. smudged' \in BOOLEAN /\ rows' = Visible(w) /\ UNCHANGED <<orders, serial>>
    BY <1>5 DEF UpdateProduct
  <2> QED BY <2>1, <2>2, <2>3, <2>4 DEF Inv, Types, Requests, Noted, ReviewBacked
<1>6. CASE Fail(w)
  <2>1. smudged' \in BOOLEAN
    BY <1>0, <1>6 DEF Fail
  <2> QED BY <1>6, <2>1, Moves, Moved, IdleType DEF Fail
<1> QED BY <1>1, <1>2, <1>3, <1>4, <1>5, <1>6

LEMMA NextInv == Inv /\ [Next]_vars => Inv'
<1> SUFFICES ASSUME Inv, [Next]_vars PROVE Inv'
  OBVIOUS
<1>1. CASE UNCHANGED vars
  BY <1>1 DEF vars, Inv, Types, Requests, Noted, ReviewBacked
<1>2. ASSUME NEW u \in Users, NEW yes \in BOOLEAN, SetItemStatus(u, yes) \/ SetPaid(u, yes)
      PROVE  Inv'
  <2>1. UNCHANGED <<rows, product, call, serial, smudged>>
    BY <1>2 DEF SetItemStatus, SetPaid
  <2>2. /\ delivered' \in [Users -> BOOLEAN] /\ paid' \in [Users -> BOOLEAN]
        /\ received \subseteq received' /\ received' \subseteq Users /\ Noted'
    BY <1>2 DEF SetItemStatus, SetPaid, Inv, Types, Noted
  <2>3. \A w \in Workers : Sound(call[w], received')
    BY <2>2, Same DEF Inv, Requests
  <2> QED BY <2>1, <2>2, <2>3 DEF Inv, Types, Requests, ReviewBacked
<1> QED BY <1>1, <1>2, BeginInv, WriteInv DEF Next

(* Requests carry what their next statement needs: who creates a review    *)
(* has received the product, and what was read before an update has the    *)
(* review it was read for.                                                 *)
THEOREM Invariance == Spec => []Inv
<1>1. Init => Inv
  <2> SUFFICES ASSUME Init PROVE Inv
    OBVIOUS
  <2>1. rows \in Rows /\ Authors(rows) = {} /\ received = {} /\ Noted
    BY DEF Init, Rows, Authors, Noted
  <2>2. MaxReviews \in Nat
    BY RatingsAssumption
  <2>3. Types
    <3>1. 0 \in 0..MaxReviews
      BY <2>2
    <3>2. serial \in [Users -> 0..MaxReviews]
      BY <3>1 DEF Init
    <3>3. call \in [Workers -> Calls]
      BY IdleType DEF Init
    <3>4. /\ delivered \in [Users -> BOOLEAN] /\ paid \in [Users -> BOOLEAN] /\ smudged \in BOOLEAN
          /\ product \in [count : Nat, sum : Nat]
      BY DEF Init
    <3> QED BY <2>1, <3>2, <3>3, <3>4 DEF Types
  <2>4. Requests
    BY IdleType DEF Init, Requests
  <2> QED BY <2>1, <2>3, <2>4 DEF Inv, ReviewBacked
<1> QED BY <1>1, NextInv, PTL DEF Spec

(* The aggregate always is a count and a sum of natural numbers, and the   *)
(* average of a new review's transaction never is one of no reviews.       *)
THEOREM TypeCorrect == Spec => []TypeOK
<1>1. Inv => TypeOK
  <2> SUFFICES ASSUME Inv PROVE TypeOK
    OBVIOUS
  <2>1. ASSUME NEW w \in Workers, IsAt(w, "create", "update")
        PROVE  Aggregate(call[w].found).count > 0
    BY <2>1, AggregateType DEF Inv, Requests, Sound, IsAt
  <2> QED BY <2>1 DEF Inv, Types, TypeOK
<1> QED BY <1>1, Invariance, PTL

(* Nobody reviews who has not had the product, delivered and paid for.     *)
THEOREM ReviewsAreBacked == Spec => []ReviewBacked
<1>1. Inv => ReviewBacked
  BY DEF Inv
<1> QED BY <1>1, Invariance, PTL

-----------------------------------------------------------------------------
(* How the aggregate goes wrong, and how it is set right.                  *)

(* Who is alone is the only writer, and what it found is what it sees.     *)
Alone ==
    \A w \in Workers : call[w].alone /\ Writing(w) =>
        /\ \A x \in Workers : Writing(x) => x = w
        /\ call[w].pc = "update" => call[w].found = Visible(w)

Exact == Alone /\ AggregateExact

Deleting(w) == call[w].op = "delete" /\ Writing(w)

(* Nothing but the calls of those who do not write has moved.              *)
LEMMA IdleExact ==
    ASSUME Inv, Exact, UNCHANGED <<rows, product>>, smudged => smudged',
           \A x \in Workers : call'[x] = call[x] \/ (~Writing(x) /\ ~Writing(x)')
    PROVE  Exact'
<1>1. \A x \in Workers : Writing(x)' = Writing(x) /\ (Writing(x) => call'[x] = call[x])
  BY DEF Writing
<1>2. Alone'
  BY <1>1 DEF Exact, Alone, Visible
<1>3. AggregateExact'
  BY <1>1 DEF Exact, AggregateExact
<1> QED BY <1>2, <1>3 DEF Exact

(* A writer starts.                                                        *)
LEMMA StartExact ==
    ASSUME Inv, Exact, NEW w \in Workers, ~Writing(w), NEW review \in Review, StartWriting(w, review),
           UNCHANGED <<product, smudged>>, rows' = rows \/ call[w].op = "delete"
    PROVE  Exact'
<1>1. \A x \in Workers : /\ call'[x].op = call[x].op /\ call'[x].user = call[x].user
                         /\ call'[x].found = call[x].found
                         /\ x # w => call'[x].pc = call[x].pc /\ call'[x].review = call[x].review
  BY Started
<1>2. /\ call'[w].pc = "read" /\ call'[w].review = review
      /\ call'[w].alone => \A x \in Workers \ {w} : ~Writing(x)
      /\ \A x \in Workers \ {w} : call'[x].alone => call[x].alone /\ ~Writing(x)
  BY Started
<1>3. Writing(w)' /\ \A x \in Workers \ {w} : Writing(x)' = Writing(x)
  BY <1>1, <1>2 DEF Writing
<1>4. Alone'
  BY <1>2, <1>3 DEF Alone
<1>5. AggregateExact'
  <2>1. CASE call[w].op = "delete"
    BY <1>1, <1>3, <2>1 DEF AggregateExact
  <2>2. CASE rows' = rows
    BY <1>1, <1>3, <2>2 DEF Exact, AggregateExact
  <2> QED BY <2>1, <2>2
<1> QED BY <1>4, <1>5 DEF Exact

LEMMA ExactStep == Inv /\ Exact /\ [Next]_vars => Exact'
<1> SUFFICES ASSUME Inv, Exact, [Next]_vars PROVE Exact'
  OBVIOUS
<1>1. CASE UNCHANGED <<rows, product, call, smudged>>
  BY <1>1, IdleExact
<1>2. ASSUME NEW w \in Workers, NEW u \in Users, CreateBegin(w, u) \/ DeleteBegin(w, u)
      PROVE  Exact'
  <2>1. /\ call[w] = Idle /\ call'[w].pc \in {"existing", "delete"} /\ UNCHANGED <<rows, product, smudged>>
        /\ \A x \in Workers : x # w => call'[x] = call[x]
    BY <1>2 DEF CreateBegin, DeleteBegin, Accept, Idle, Inv, Types
  <2>2. ~Writing(w) /\ ~Writing(w)'
    BY <2>1, IdleType DEF Writing
  <2> QED BY <2>1, <2>2, IdleExact
<1>3. ASSUME NEW w \in Workers, ~Writing(w), Return(w), UNCHANGED <<rows, product>>, smudged => smudged'
      PROVE  Exact'
  <2>1. ~Writing(w)' /\ \A x \in Workers : x # w => call'[x] = call[x]
    BY <1>3, Moves, IdleType DEF Writing
  <2> QED BY <1>3, <2>1, IdleExact
<1>4. ASSUME NEW w \in Workers, CreateExisting(w)
      PROVE  Exact'
  <2>0. ~Writing(w) /\ call[w] \in Calls
    BY <1>4, Moves DEF CreateExisting, IsAt, Writing
  <2>1. CASE Goto(w, "insert")
    <3>1. ~Writing(w)' /\ \A x \in Workers : x # w => call'[x] = call[x]
      BY <2>0, <2>1 DEF Goto, Writing, Inv, Types, Calls
    <3> QED BY <1>4, <2>0, <3>1, IdleExact DEF CreateExisting
  <2> QED BY <1>3, <1>4, <2>0, <2>1 DEF CreateExisting
<1>5. ASSUME NEW w \in Workers, NEW rating \in Ratings, CreateInsert(w, rating)
      PROVE  Exact'
  <2> DEFINE u == call[w].user
  <2>0. ~Writing(w) /\ u \in Users /\ serial \in [Users -> 0..MaxReviews] /\ UNCHANGED <<rows, product, smudged>>
    BY <1>5, Moves DEF CreateInsert, IsAt, Writing, Sound, Inv, Types
  <2>1. CASE rows[u] = None
    <3> DEFINE id == serial[u] + 1
               review == [id |-> id, rating |-> rating]
    <3>1. id \in 1..MaxReviews /\ StartWriting(w, review)
      BY <1>5, <2>0, <2>1, RatingsAssumption DEF CreateInsert
    <3> HIDE DEF id
    <3>2. review \in Review
      BY <3>1 DEF Review
    <3> HIDE DEF review
    <3> QED BY <2>0, <3>1, <3>2, StartExact
  <2>2. CASE rows[u] # None
    BY <1>3, <1>5, <2>0, <2>2 DEF CreateInsert
  <2> QED BY <2>1, <2>2
<1>6. ASSUME NEW w \in Workers, DeleteRow(w)
      PROVE  Exact'
  <2>1. ~Writing(w) /\ call[w].review \in Review /\ call[w].op = "delete" /\ UNCHANGED <<product, smudged>>
    BY <1>6, Moves DEF DeleteRow, IsAt, Writing, Sound
  <2>2. CASE StartWriting(w, call[w].review)
    BY <2>1, <2>2, StartExact
  <2>3. CASE Return(w) /\ UNCHANGED rows
    BY <1>3, <2>1, <2>3
  <2> QED BY <1>6, <2>2, <2>3 DEF DeleteRow
<1>7. ASSUME NEW w \in Workers, ReadRatings(w)
      PROVE  Exact'
  <2> DEFINE seen == Visible(w)
             next == [call[w] EXCEPT !.pc = "update", !.found = seen]
  <2>1. call' = [call EXCEPT ![w] = next] /\ call[w].pc = "read" /\ UNCHANGED <<rows, product, smudged>>
    BY <1>7 DEF ReadRatings
  <2>2. /\ next.op = call[w].op /\ next.user = call[w].user /\ next.review = call[w].review
        /\ next.alone = call[w].alone /\ next.pc = "update" /\ next.found = seen
    BY Moves DEF Calls
  <2> HIDE DEF next
  <2>3. call'[w] = next /\ \A x \in Workers : x # w => call'[x] = call[x]
    BY <2>1 DEF Inv, Types
  <2>4. /\ Writing(w) /\ \A x \in Workers : Writing(x)' = Writing(x)
        /\ \A x \in Workers : Visible(x)' = Visible(x)
    BY <2>1, <2>2, <2>3 DEF Writing, Visible
  <2>5. Alone'
    BY <2>2, <2>3, <2>4 DEF Exact, Alone
  <2>6. AggregateExact'
    BY <2>1, <2>2, <2>3, <2>4 DEF Exact, AggregateExact
  <2> QED BY <2>5, <2>6 DEF Exact
<1>8. ASSUME NEW w \in Workers, UpdateProduct(w)
      PROVE  Exact'
  <2>1. /\ Writing(w) /\ call[w].pc = "update" /\ product' = Aggregate(call[w].found)
        /\ rows' = Visible(w) /\ smudged' = ~call[w].alone
    BY <1>8 DEF UpdateProduct, Writing
  <2>2. ~Writing(w)' /\ \A x \in Workers : x # w => call'[x] = call[x]
    BY <1>8, Moves, IdleType DEF UpdateProduct, Writing
  <2>3. Alone'
    BY <2>1, <2>2 DEF Exact, Alone, Writing
  <2>4. AggregateExact'
    BY <2>1 DEF Exact, Alone, AggregateExact
  <2> QED BY <2>3, <2>4 DEF Exact
<1>9. ASSUME NEW w \in Workers, Fail(w)
      PROVE  Exact'
  <2>1. UNCHANGED <<rows, product>> /\ smudged' = (smudged \/ Deleting(w))
    BY <1>9 DEF Fail, Deleting
  <2>2. ~Writing(w)' /\ \A x \in Workers : x # w => call'[x] = call[x]
    BY <1>9, Moves, IdleType DEF Fail, Writing
  <2>3. Alone'
    BY <2>1, <2>2 DEF Exact, Alone, Writing, Visible
  <2>4. AggregateExact'
    <3>1. CASE Deleting(w)
      BY <2>1, <3>1 DEF AggregateExact
    <3>2. CASE ~Deleting(w)
      BY <2>1, <2>2, <3>2 DEF Exact, AggregateExact, Deleting, Writing
    <3> QED BY <3>1, <3>2
  <2> QED BY <2>3, <2>4 DEF Exact
<1>10. ASSUME NEW u \in Users, NEW yes \in BOOLEAN, SetItemStatus(u, yes) \/ SetPaid(u, yes)
       PROVE  Exact'
  BY <1>1, <1>10 DEF SetItemStatus, SetPaid
<1> QED BY <1>1, <1>2, <1>4, <1>5, <1>6, <1>7, <1>8, <1>9, <1>10 DEF Next, vars

(* The count and the sum in the product's row are those of its reviews,    *)
(* unless the last writer was not alone, a deletion broke off since, or    *)
(* one is at work.                                                         *)
THEOREM AggregatesExact == Spec => []AggregateExact
<1>1. Init => Exact
  <2> SUFFICES ASSUME Init PROVE Exact
    OBVIOUS
  <2>1. \A w \in Workers : ~Writing(w)
    BY IdleType DEF Init, Writing
  <2>2. Authors(rows) = {}
    BY DEF Init, Authors
  <2>3. FoldFunctionOnSet(LAMBDA review, sum : review.rating + sum, 0, rows, {}) = Total([u \in {} |-> 0], {})
    BY PickIn DEF Total, FoldFunctionOnSet, MapThenSumSet, MapThenFoldSet, Pick
  <2>4. Aggregate(rows) = [count |-> 0, sum |-> 0]
    BY <2>2, <2>3, TotalEmpty, FS_EmptySet DEF Aggregate
  <2> QED BY <2>1, <2>4 DEF Init, Exact, Alone, AggregateExact
<1>2. Exact => AggregateExact
  BY DEF Exact
<1> QED BY <1>1, <1>2, Invariance, ExactStep, PTL DEF Spec

-----------------------------------------------------------------------------
(* The nearest paisa, a half to either side.                               *)
LEMMA RoundedNear ==
    /\ \A n \in Int : \A r \in Rounded(n, 100) : r \in Int /\ 100 * r - n \in (-50)..50
    /\ \A n \in Int : \A r \in Rounded(n, 118) : r \in Int /\ 118 * r - n \in (-59)..59
    /\ \A n \in Int : \A r \in Rounded(n, 1000) : r \in Int
    /\ \A n \in Int : \A r \in Rounded(n, 2) : r \in Int /\ 2 * r - n \in (-1)..1
  BY SMTT(20) DEF Rounded

(* A share in percent of what a line or a vendor's lines cost.             *)
LEMMA Percent ==
    /\ \A a \in Nat, b \in 0..100 : a * b \in Nat /\ a * b <= 100 * a
    /\ \A a \in Int, b \in 0..100 :
          a * b \in Int /\ a * (100 - b) \in Int /\ a * (100 - b) = 100 * a - a * b
  OBVIOUS

-----------------------------------------------------------------------------
(* What the handlers round: a hundred times what the lines of v earn, and  *)
(* a hundred times the commission.                                         *)
Shares == [l \in Lines |-> total[l] * (100 - RateOf(l))]
Fees == [l \in Lines |-> total[l] * RateOf(l)]
Due(v) == Total(Shares, LinesOf(v))

AmountsTypes ==
    /\ item \in [Lines -> Offers]
    /\ rate \in [Vendors -> Rates]
    /\ total \in [Lines -> Int]
    /\ order \in OrderRow \cup {Null}
    /\ credit \in [Handlers -> [Vendors -> Int]]
    /\ books = [gst |-> books.gst, commission |-> books.commission, ledger |-> books.ledger]
    /\ order = Null => done = {} /\ books = NoBooks

(* A posting of v's lines that was rounded n times.                        *)
Posted(h, v, n) == h \in done => 100 * credit[h][v] - Due(v) \in (-(50 * n))..(50 * n)

Settled(v) ==
    LET c == books.commission[v].gstOnCommission IN
    "settled" \in done /\ LinesOf(v) # {} =>
        c \in Int /\ 100 * (credit["settled"][v] + c) - Due(v) \in (-50)..50

PostsOf(v) ==
    LET n == Cardinality(LinesOf(v)) IN
    Posted("createOrder", v, 1) /\ Posted("captured", v, n) /\ Posted("reversed", v, n) /\ Settled(v)

Posts == \A v \in Vendors : PostsOf(v)

(* The tax in a price of s, to the half paisa.                             *)
Taxes(tax, s) == tax \in Int /\ 118 * tax - 18 * s \in (-59)..59

Charged ==
    order # Null =>
        /\ ChargeIsFair
        /\ Taxes(order.gst, order.subtotal)
        /\ 100 * order.commission - Total(Fees, Lines) \in (-50)..50

Balanced(ledger) ==
    LET gross == ledger.platformCommission
        net == ledger.netPlatformEarning
        payout == ledger.deliveryPayout
    IN  gross \in Int /\
        IF ledger.by = "settled"
        THEN net \in Int /\ payout \in Int /\ net - (gross - payout) \in (-1)..1
        ELSE /\ net = gross - ledger.gstOnCommission
             /\ 100 * gross - Total(Fees, Lines) \in (-(50 * Cardinality(Lines)))..(50 * Cardinality(Lines))

Booked ==
    LET ledger == books.ledger gst == books.gst IN
    /\ ledger # Null => Taxes(ledger.gstAmount, order.subtotal) /\ Balanced(ledger)
    /\ gst # Null => /\ Taxes(gst.totalGst, order.subtotal)
                     /\ Near(gst.taxableAmount + 2 * gst.half, order.subtotal, 1)

AmountsInv == AmountsTypes /\ Posts /\ Charged /\ Booked

-----------------------------------------------------------------------------
(* The terms.                                                              *)
LEMMA TermTypes ==
    ASSUME AmountsTypes
    PROVE  /\ \A l \in Lines : total[l] \in Int /\ item[l] \in Offer /\ RateOf(l) \in 0..100
           /\ \A l \in Lines : Fees[l] \in Int /\ Shares[l] \in Int
           /\ \A v \in Vendors : rate[v] \in 0..100
<1>1. ASSUME NEW v \in Vendors PROVE rate[v] \in 0..100
  BY RatesArePercent DEF AmountsTypes
<1>2. ASSUME NEW l \in Lines PROVE total[l] \in Int /\ item[l] \in Offer /\ RateOf(l) \in 0..100
  <2>1. item[l] \in Offer
    BY OffersAreOffers DEF AmountsTypes
  <2>2. item[l].vendor \in Vendors
    BY <2>1 DEF Offer
  <2> QED BY <1>1, <2>1, <2>2 DEF AmountsTypes, RateOf
<1>3. ASSUME NEW l \in Lines PROVE Fees[l] \in Int /\ Shares[l] \in Int
  BY <1>2, Percent DEF Fees, Shares
<1> QED BY <1>1, <1>2, <1>3

LEMMA LinesFinite ==
    /\ IsFiniteSet(Lines) /\ Cardinality(Lines) \in Nat
    /\ \A v : LinesOf(v) \subseteq Lines /\ IsFiniteSet(LinesOf(v)) /\ Cardinality(LinesOf(v)) \in Nat
<1>1. IsFiniteSet(Lines)
  BY SetsAreFinite
<1>2. \A v : LinesOf(v) \subseteq Lines
  BY DEF LinesOf
<1> QED BY <1>1, <1>2, FS_Subset, FS_CardinalityType

(* The lines of a vendor have one rate.                                    *)
LEMMA DueIsShare ==
    ASSUME AmountsTypes, NEW v \in Vendors
    PROVE  Gross(v) \in Int /\ Due(v) = Gross(v) * (100 - rate[v]) /\ Due(v) \in Int
<1>1. IsFiniteSet(LinesOf(v)) /\ \A l \in LinesOf(v) : l \in Lines /\ RateOf(l) = rate[v]
  BY LinesFinite DEF LinesOf, RateOf
<1>2. Gross(v) = Total(total, LinesOf(v))
  BY DEF Gross, SumOver, Total
<1>3. \A l \in LinesOf(v) : total[l] \in Int
  BY <1>1, TermTypes
<1>4. Total(total, LinesOf(v)) \in Int
  BY <1>1, <1>3, TotalInt DEF Terms
<1>5. rate[v] \in 0..100
  BY TermTypes
<1>6. Due(v) = Total(total, LinesOf(v)) * (100 - rate[v])
  <2>1. \A l \in LinesOf(v) : Shares[l] = total[l] * (100 - rate[v])
    BY <1>1 DEF Shares
  <2>2. Terms(total, LinesOf(v))
    BY <1>3 DEF Terms
  <2>3. 100 - rate[v] \in Int
    BY <1>5
  <2> QED BY <1>1, <2>1, <2>2, <2>3, TotalScaled DEF Due
<1> QED BY <1>2, <1>4, <1>5, <1>6, Percent

-----------------------------------------------------------------------------
(* The order.                                                              *)
LEMMA AmountsInitInv == AmountsInit => AmountsInv
<1> SUFFICES ASSUME AmountsInit PROVE AmountsInv
  OBVIOUS
<1>1. AmountsTypes
  BY DEF AmountsInit, AmountsTypes, NoBooks
<1>2. Posts
  BY DEF AmountsInit, Posts, PostsOf, Posted, Settled
<1>3. Charged /\ Booked
  BY DEF AmountsInit, Charged, Booked, NoBooks
<1> QED BY <1>1, <1>2, <1>3 DEF AmountsInv

(* What a discount may be: nothing, or at most the price of the goods.     *)
LEMMA DiscountIsFair ==
    ASSUME NEW c, NEW s \in Int, NEW d \in Discounts(c, s)
    PROVE  d \in Nat /\ (d = 0 \/ d <= s)
<1>1. CASE c \notin Coupons \/ s < c.min
  BY <1>1 DEF Discounts
<1>2. CASE c \in Coupons /\ ~(s < c.min)
  <2>1. c \in Coupon /\ c.value <= IF c.percentage THEN 100 ELSE c.min
    BY <1>2, CouponsAreCoupons
  <2>2. c.percentage \in BOOLEAN /\ c.value \in Nat /\ c.min \in Nat /\ c.max \in Nat
    BY <2>1 DEF Coupon
  <2>3. PICK e \in IF c.percentage THEN Rounded(s * c.value, 100) ELSE {c.value} :
            d = IF c.max > 0 /\ e > c.max THEN c.max ELSE e
    BY <1>2 DEF Discounts
  <2>4. s \in Nat
    BY <1>2, <2>2
  <2>5. e \in 0..s
    <3>1. CASE c.percentage
      <4>1. c.value <= 100
        BY <2>1, <3>1
      <4>2. s * c.value \in Nat /\ s * c.value <= 100 * s
        BY <2>2, <2>4, <4>1, Percent
      <4>3. e \in Int /\ 100 * e - s * c.value \in (-50)..50
        BY <2>3, <3>1, <4>2, RoundedNear
      <4> QED BY <2>4, <4>2, <4>3
    <3>2. CASE ~c.percentage
      BY <1>2, <2>1, <2>2, <2>3, <2>4, <3>2
    <3> QED BY <3>1, <3>2
  <2> QED BY <2>2, <2>3, <2>4, <2>5
<1> QED BY <1>1, <1>2

LEMMA FeesTotal ==
    ASSUME NEW t
    PROVE  SumOver(Lines, LAMBDA l : t[l] * RateOf(l)) = Total([l \in Lines |-> t[l] * RateOf(l)], Lines)
  BY PickIn DEF SumOver, Total, MapThenSumSet, MapThenFoldSet, Pick

LEMMA CreateOrderInv ==
    ASSUME AmountsInv, NEW coupon \in Coupons \cup {Null, REALTEST},
           NEW fromCart \in BOOLEAN, NEW local \in BOOLEAN, CreateOrder(coupon, fromCart, local)
    PROVE  AmountsInv'
<1> DEFINE price(i) == IF fromCart THEN CartPrice(i) ELSE PayloadPrice(i)
           t == [l \in Lines |-> price(item[l]) * item[l].quantity]
           s == SumOver(Lines, LAMBDA l : t[l])
           c == SumOver(Lines, LAMBDA l : t[l] * RateOf(l))
<1>1. ASSUME NEW l \in Lines
      PROVE  t[l] \in Int /\ (~BelowZero(item[l]) => t[l] \in Nat)
  <2>1. item[l] \in Offer
    BY TermTypes DEF AmountsInv
  <2>2. item[l].price \in Int /\ item[l].quantity \in Nat /\ item[l].variant \in Int \cup {Null}
    BY <2>1 DEF Offer
  <2>3. price(item[l]) \in Int /\ (~BelowZero(item[l]) => price(item[l]) \in Nat)
    BY <2>2 DEF CartPrice, PayloadPrice, BelowZero
  <2>4. t[l] = price(item[l]) * item[l].quantity
    OBVIOUS
  <2> HIDE DEF price, t
  <2>5. (\A a, b \in Int : a * b \in Int) /\ (\A a, b \in Nat : a * b \in Nat)
    OBVIOUS
  <2> QED BY <2>2, <2>3, <2>4, <2>5
<1>2. total' = t /\ UNCHANGED <<item, rate, payment, credit, done, books>> /\ order = Null
  BY DEF CreateOrder
<1>3. \E gst \in Rounded(18 * s, 118), d \in Discounts(coupon, s), commission \in Rounded(c, 100) :
             LET discount == IF coupon = REALTEST THEN s - 100 ELSE d
                 shipping == IF s - d >= FREE_DELIVERY_THRESHOLD \/ local \/ coupon = REALTEST
                             THEN 0 ELSE 4900
             IN  order' = [subtotal |-> s, gst |-> gst, commission |-> commission,
                           discount |-> discount, shipping |-> shipping,
                           coupon |-> coupon, total |-> s - discount + shipping]
  BY DEF CreateOrder
<1> HIDE DEF t
<1>4. s = Total(t, Lines)
  BY DEF SumOver, Total
<1>5. s \in Int /\ (s < 0 => \E l \in Lines : BelowZero(item[l]))
  BY <1>1, <1>4, LinesFinite, TotalInt, TotalNat DEF Terms
<1>6. Fees' = [l \in Lines |-> t[l] * RateOf(l)]
  BY <1>2 DEF Fees, RateOf
<1>7. \A l \in Lines : Fees'[l] \in Int
  <2>1. \A l \in Lines : t[l] \in Int /\ RateOf(l) \in 0..100
    BY <1>1, TermTypes DEF AmountsInv
  <2> QED BY <1>6, <2>1, Percent
<1> DEFINE fees == Total(Fees', Lines)
<1>8. fees \in Int /\ c = fees
  BY <1>6, <1>7, LinesFinite, TotalInt, FeesTotal DEF Terms
<1> HIDE DEF s, c, fees
<1>9. PICK gst \in Rounded(18 * s, 118), d \in Discounts(coupon, s), commission \in Rounded(c, 100) :
             LET discount == IF coupon = REALTEST THEN s - 100 ELSE d
                 shipping == IF s - d >= FREE_DELIVERY_THRESHOLD \/ local \/ coupon = REALTEST
                             THEN 0 ELSE 4900
             IN  order' = [subtotal |-> s, gst |-> gst, commission |-> commission,
                           discount |-> discount, shipping |-> shipping,
                           coupon |-> coupon, total |-> s - discount + shipping]
  BY <1>3
<1>10. gst \in Int /\ 118 * gst - 18 * s \in (-59)..59
  <2>1. 18 * s \in Int
    BY <1>5
  <2> QED BY <1>9, <2>1, RoundedNear
<1>11. commission \in Int /\ 100 * commission - fees \in (-50)..50
  <2>1. fees \in Int /\ commission \in Rounded(fees, 100)
    BY <1>8, <1>9
  <2> QED BY <2>1, RoundedNear
<1>12. d \in Nat /\ (d = 0 \/ d <= s)
  BY <1>5, <1>9, DiscountIsFair
<1> DEFINE discount == IF coupon = REALTEST THEN s - 100 ELSE d
           shipping == IF s - d >= FREE_DELIVERY_THRESHOLD \/ local \/ coupon = REALTEST
                       THEN 0 ELSE 4900
<1>13. order' = [subtotal |-> s, gst |-> gst, commission |-> commission,
                 discount |-> discount, shipping |-> shipping,
                 coupon |-> coupon, total |-> s - discount + shipping]
  BY <1>9
<1>14. /\ discount \in Int /\ shipping \in {0, 4900}
       /\ IF coupon = REALTEST THEN discount = s - 100 /\ shipping = 0 ELSE discount = d
  BY <1>5, <1>12
<1> HIDE DEF discount, shipping
<1>15. order' \in OrderRow /\ ChargeIsFair'
  <2>1. /\ order' \in OrderRow
        /\ order'.total < 0 => s < 0 /\ order'.total >= order'.subtotal
        /\ order'.coupon # REALTEST => order'.total <= order'.subtotal + 4900
    <3> DEFINE row == order'
    <3> HIDE DEF row
    <3>1. row = [subtotal |-> s, gst |-> gst, commission |-> commission,
                 discount |-> discount, shipping |-> shipping,
                 coupon |-> coupon, total |-> s - discount + shipping]
      BY <1>13 DEF row
    <3>2. /\ s - discount + shipping \in Int
          /\ s - discount + shipping < 0 => s < 0 /\ s - discount + shipping >= s
          /\ coupon # REALTEST => s - discount + shipping <= s + 4900
      BY <1>5, <1>12, <1>14
    <3>3. gst \in Int /\ commission \in Int /\ shipping \in Nat
      BY <1>10, <1>11, <1>14
    <3>4. row \in OrderRow
      BY <1>5, <1>14, <3>1, <3>2, <3>3 DEF OrderRow
    <3>5. /\ row.total < 0 => s < 0 /\ row.total >= row.subtotal
          /\ row.coupon # REALTEST => row.total <= row.subtotal + 4900
      BY <3>1, <3>2
    <3> QED BY <3>4, <3>5 DEF row
  <2>2. \A l \in Lines : BelowZero(item[l])' = BelowZero(item[l])
    BY <1>2 DEF BelowZero
  <2> QED BY <1>5, <2>1, <2>2 DEF ChargeIsFair
<1>16. done = {} /\ books = NoBooks
  BY <1>2 DEF AmountsInv, AmountsTypes
<1>17. AmountsTypes'
  <2>1. total' \in [Lines -> Int]
    BY <1>1, <1>2 DEF t
  <2> QED BY <1>2, <1>15, <2>1, NullIsNoRow DEF AmountsInv, AmountsTypes, Handlers
<1>18. Posts'
  BY <1>2, <1>16 DEF Posts, PostsOf, Posted, Settled
<1>19. Charged'
  BY <1>10, <1>11, <1>13, <1>15 DEF Charged, Taxes, fees
<1>20. Booked'
  BY <1>2, <1>16 DEF Booked, NoBooks
<1> QED BY <1>17, <1>18, <1>19, <1>20 DEF AmountsInv

-----------------------------------------------------------------------------
(* The postings.                                                           *)
LEMMA DueKept ==
    ASSUME UNCHANGED <<item, rate, total>>
    PROVE  /\ \A v \in Vendors : LinesOf(v)' = LinesOf(v) /\ Due(v)' = Due(v)
           /\ Total(Fees, Lines)' = Total(Fees, Lines)
<1>1. Shares' = Shares /\ Fees' = Fees
  BY DEF Shares, Fees, RateOf
<1>2. ASSUME NEW v \in Vendors PROVE LinesOf(v)' = LinesOf(v) /\ Due(v)' = Due(v)
  BY <1>1 DEF LinesOf, Due
<1> QED BY <1>1, <1>2

LEMMA RunOf == ASSUME AmountsInv, NEW h, Run(h) PROVE order \in OrderRow /\ order # Null /\ h \notin done /\ done' = done \cup {h}
  BY DEF Run, AmountsInv, AmountsTypes

(* One handler more has posted.                                            *)
LEMMA PostsKept ==
    ASSUME AmountsInv, NEW h \in {"createOrder", "captured", "reversed"}, NEW earning \in [Vendors -> Int],
           Run(h), credit' = [credit EXCEPT ![h] = earning],
           UNCHANGED <<item, rate, total>>, books'.commission = books.commission,
           \A v \in Vendors :
              /\ h = "createOrder" => 100 * earning[v] - Due(v) \in (-50)..50
              /\ h # "createOrder" =>
                    100 * earning[v] - Due(v) \in (-(50 * Cardinality(LinesOf(v))))..(50 * Cardinality(LinesOf(v)))
    PROVE  Posts' /\ credit' \in [Handlers -> [Vendors -> Int]]
<1>1. credit \in [Handlers -> [Vendors -> Int]] /\ h \in Handlers /\ Posts
  BY DEF AmountsInv, AmountsTypes, Handlers
<1>2. credit' \in [Handlers -> [Vendors -> Int]] /\ credit'[h] = earning /\ \A k \in Handlers : k # h => credit'[k] = credit[k]
  BY <1>1
<1>3. h \notin done /\ done' = done \cup {h}
  BY RunOf
<1>4. ASSUME NEW v \in Vendors PROVE PostsOf(v)'
  <2> DEFINE n == Cardinality(LinesOf(v))
  <2>1. n' = n /\ LinesOf(v)' = LinesOf(v) /\ Due(v)' = Due(v)
    BY DueKept
  <2>2. PostsOf(v)
    BY <1>1 DEF Posts
  <2>3. Posted("createOrder", v, 1)'
    BY <1>2, <1>3, <2>1, <2>2 DEF PostsOf, Posted, Handlers
  <2>4. Posted("captured", v, n)'
    BY <1>2, <1>3, <2>1, <2>2 DEF PostsOf, Posted, Handlers
  <2>5. Posted("reversed", v, n)'
    BY <1>2, <1>3, <2>1, <2>2 DEF PostsOf, Posted, Handlers
  <2>6. Settled(v)'
    BY <1>2, <1>3, <2>1, <2>2 DEF PostsOf, Settled, Handlers
  <2> QED BY <2>3, <2>4, <2>5, <2>6 DEF PostsOf
<1> QED BY <1>2, <1>4 DEF Posts

(* The order, and what was charged for it, stays.                          *)
LEMMA ChargedKept ==
    ASSUME AmountsInv, UNCHANGED <<item, rate, total, order>>
    PROVE  Charged' /\ (books' = books => Booked')
<1>1. Total(Fees, Lines)' = Total(Fees, Lines)
  BY DueKept
<1> QED BY <1>1 DEF AmountsInv, Charged, Booked, ChargeIsFair, Taxes, Balanced, Near

LEMMA UpdateVendorEarningsInv == AmountsInv /\ UpdateVendorEarnings => AmountsInv'
<1> SUFFICES ASSUME AmountsInv, UpdateVendorEarnings PROVE AmountsInv'
  OBVIOUS
<1>1. Run("createOrder") /\ UNCHANGED <<item, rate, order, total, payment, books>>
  BY DEF UpdateVendorEarnings
<1>2. PICK earning :
          /\ credit' = [credit EXCEPT !["createOrder"] = earning]
          /\ DOMAIN earning = Vendors
          /\ earning = [v \in Vendors |-> earning[v]]
          /\ \A v \in Vendors : earning[v] \in Rounded(Gross(v) * (100 - rate[v]), 100)
  BY DEF UpdateVendorEarnings, Each
<1>3. ASSUME NEW v \in Vendors PROVE earning[v] \in Int /\ 100 * earning[v] - Due(v) \in (-50)..50
  <2>1. Due(v) \in Int /\ earning[v] \in Rounded(Due(v), 100)
    BY <1>2, DueIsShare DEF AmountsInv
  <2> QED BY <2>1, RoundedNear
<1>4. earning \in [Vendors -> Int]
  BY <1>2, <1>3
<1>5. Posts' /\ credit' \in [Handlers -> [Vendors -> Int]]
  <2>1. books'.commission = books.commission
    BY <1>1
  <2> QED BY <1>1, <1>2, <1>3, <1>4, <2>1, PostsKept
<1>6. AmountsTypes'
  BY <1>1, <1>5, RunOf DEF AmountsInv, AmountsTypes
<1> QED BY <1>1, <1>5, <1>6, ChargedKept DEF AmountsInv

LEMMA CreatePaymentInv == AmountsInv /\ (CreatePayment \/ VerifyPayment) => AmountsInv'
<1> SUFFICES ASSUME AmountsInv, CreatePayment \/ VerifyPayment PROVE AmountsInv'
  OBVIOUS
<1>1. UNCHANGED <<item, rate, order, total, credit, done, books>>
  BY DEF CreatePayment, VerifyPayment
<1>2. AmountsTypes'
  BY <1>1 DEF AmountsInv, AmountsTypes
<1>3. Posts'
  BY <1>1, DueKept DEF AmountsInv, Posts, PostsOf, Posted, Settled
<1> QED BY <1>1, <1>2, <1>3, ChargedKept DEF AmountsInv

(* Shares rounded line by line, and their sum for a vendor.                *)
LEMMA LineByLine ==
    ASSUME AmountsTypes, NEW earning,
           \A l \in Lines : earning[l] \in Rounded(total[l] * (100 - RateOf(l)), 100),
           NEW v \in Vendors
    PROVE  LET sum == Total(earning, LinesOf(v))
               n == Cardinality(LinesOf(v))
           IN  sum \in Int /\ 100 * sum - Due(v) \in (-(50 * n))..(50 * n)
<1>1. ASSUME NEW l \in Lines
      PROVE  earning[l] \in Int /\ Shares[l] \in Int /\ 100 * earning[l] - Shares[l] \in (-50)..50
  <2>1. Shares[l] \in Int /\ earning[l] \in Rounded(Shares[l], 100)
    BY TermTypes DEF Shares
  <2> QED BY <2>1, RoundedNear
<1>2. LinesOf(v) \subseteq Lines /\ IsFiniteSet(LinesOf(v))
  BY LinesFinite
<1>3. Terms(earning, LinesOf(v)) /\ Terms(Shares, LinesOf(v))
  BY <1>1, <1>2 DEF Terms
<1>4. Total(earning, LinesOf(v)) \in Int
  BY <1>2, <1>3, TotalInt
<1>5. \A l \in LinesOf(v) : 100 * earning[l] - Shares[l] \in (-50)..50
  BY <1>1, <1>2
<1>6. 100 * Total(earning, LinesOf(v)) - Due(v)
          \in (-(50 * Cardinality(LinesOf(v))))..(50 * Cardinality(LinesOf(v)))
  BY <1>2, <1>3, <1>5, TotalNear DEF Due
<1> QED BY <1>4, <1>6

LEMMA FeesLineByLine ==
    ASSUME AmountsTypes, NEW commission,
           \A l \in Lines : commission[l] \in Rounded(total[l] * RateOf(l), 100)
    PROVE  LET sum == Total(commission, Lines)
               n == Cardinality(Lines)
           IN  sum \in Int /\ 100 * sum - Total(Fees, Lines) \in (-(50 * n))..(50 * n)
<1>1. ASSUME NEW l \in Lines
      PROVE  commission[l] \in Int /\ Fees[l] \in Int /\ 100 * commission[l] - Fees[l] \in (-50)..50
  <2>1. Fees[l] \in Int /\ commission[l] \in Rounded(Fees[l], 100)
    BY TermTypes DEF Fees
  <2> QED BY <2>1, RoundedNear
<1>2. Terms(commission, Lines) /\ Terms(Fees, Lines)
  BY <1>1 DEF Terms
<1>3. Total(commission, Lines) \in Int
  BY <1>2, LinesFinite, TotalInt
<1>4. 100 * Total(commission, Lines) - Total(Fees, Lines) \in (-(50 * Cardinality(Lines)))..(50 * Cardinality(Lines))
  BY <1>1, <1>2, LinesFinite, TotalNear
<1> QED BY <1>3, <1>4

LEMMA ReverseEarningsInv == AmountsInv /\ ReverseEarnings => AmountsInv'
<1> SUFFICES ASSUME AmountsInv, ReverseEarnings PROVE AmountsInv'
  OBVIOUS
<1>1. Run("reversed") /\ UNCHANGED <<item, rate, order, total, payment, books>> /\ books'.commission = books.commission
  BY DEF ReverseEarnings
<1>2. PICK earning :
          /\ credit' = [credit EXCEPT !["reversed"] =
                           [v \in Vendors |-> SumOver(LinesOf(v), LAMBDA l : earning[l])]]
          /\ \A l \in Lines : earning[l] \in Rounded(total[l] * (100 - RateOf(l)), 100)
  BY DEF ReverseEarnings, Each
<1> DEFINE sum == [v \in Vendors |-> Total(earning, LinesOf(v))]
<1>3. ASSUME NEW v \in Vendors
      PROVE  /\ sum[v] \in Int
             /\ 100 * sum[v] - Due(v) \in (-(50 * Cardinality(LinesOf(v))))..(50 * Cardinality(LinesOf(v)))
  BY <1>2, LineByLine DEF AmountsInv
<1>4. sum \in [Vendors -> Int] /\ credit' = [credit EXCEPT !["reversed"] = sum]
  <2>1. credit' = [credit EXCEPT !["reversed"] = sum]
    BY <1>2 DEF SumOver, Total
  <2> QED BY <1>3, <2>1
<1> HIDE DEF sum
<1>5. Posts' /\ credit' \in [Handlers -> [Vendors -> Int]]
  BY <1>1, <1>3, <1>4, PostsKept
<1>6. AmountsTypes'
  BY <1>1, <1>5, RunOf DEF AmountsInv, AmountsTypes
<1> QED BY <1>1, <1>5, <1>6, ChargedKept DEF AmountsInv

LEMMA ProcessPaymentCapturedInv == AmountsInv /\ ProcessPaymentCaptured => AmountsInv'
<1> SUFFICES ASSUME AmountsInv, ProcessPaymentCaptured PROVE AmountsInv'
  OBVIOUS
<1>1. Run("captured") /\ UNCHANGED <<item, rate, order, total>>
  BY DEF ProcessPaymentCaptured
<1>2. PICK commission \in Each(Lines, LAMBDA l : Rounded(total[l] * RateOf(l), 100)),
           earning \in Each(Lines, LAMBDA l : Rounded(total[l] * (100 - RateOf(l)), 100)) :
             LET totalCommission == SumOver(Lines, LAMBDA l : commission[l]) IN
             /\ credit' = [credit EXCEPT !["captured"] =
                              [v \in Vendors |-> SumOver(LinesOf(v), LAMBDA l : earning[l])]]
             /\ \E gst \in Rounded(18 * order.subtotal, 118), onCommission \in Rounded(18 * totalCommission, 100) :
                   books' = [books EXCEPT !.ledger =
                      [by |-> "captured",
                       gstAmount |-> IF @ = Null THEN gst ELSE @.gstAmount,
                       deliveryPayout |-> IF @ = Null THEN 0 ELSE @.deliveryPayout,
                       platformCommission |-> totalCommission, gstOnCommission |-> onCommission,
                       netPlatformEarning |-> totalCommission - onCommission]]
  BY DEF ProcessPaymentCaptured
<1>3. /\ \A l \in Lines : commission[l] \in Rounded(total[l] * RateOf(l), 100)
      /\ \A l \in Lines : earning[l] \in Rounded(total[l] * (100 - RateOf(l)), 100)
  BY <1>2 DEF Each
<1> DEFINE sum == [v \in Vendors |-> Total(earning, LinesOf(v))]
           gross == Total(commission, Lines)
<1>4. credit' = [credit EXCEPT !["captured"] = sum]
  BY <1>2 DEF SumOver, Total
<1>5. PICK gst, onCommission :
          /\ gst \in Rounded(18 * order.subtotal, 118)
          /\ books' = [books EXCEPT !.ledger =
                [by |-> "captured",
                 gstAmount |-> IF books.ledger = Null THEN gst ELSE books.ledger.gstAmount,
                 deliveryPayout |-> IF books.ledger = Null THEN 0 ELSE books.ledger.deliveryPayout,
                 platformCommission |-> gross, gstOnCommission |-> onCommission,
                 netPlatformEarning |-> gross - onCommission]]
  BY <1>2 DEF SumOver, Total
<1>6. ASSUME NEW v \in Vendors
      PROVE  /\ sum[v] \in Int
             /\ 100 * sum[v] - Due(v) \in (-(50 * Cardinality(LinesOf(v))))..(50 * Cardinality(LinesOf(v)))
  BY <1>3, LineByLine DEF AmountsInv
<1>7. sum \in [Vendors -> Int]
  BY <1>6
<1>8. gross \in Int /\ 100 * gross - Total(Fees, Lines) \in (-(50 * Cardinality(Lines)))..(50 * Cardinality(Lines))
  BY <1>3, FeesLineByLine DEF AmountsInv
<1> HIDE DEF sum, gross
<1>9. order \in OrderRow /\ order # Null /\ order.subtotal \in Int
  BY <1>1, RunOf DEF OrderRow
<1>10. Taxes(gst, order.subtotal)
  <2>1. 18 * order.subtotal \in Int
    BY <1>9
  <2> QED BY <1>5, <2>1, RoundedNear DEF Taxes
<1> DEFINE ledger == [by |-> "captured",
                      gstAmount |-> IF books.ledger = Null THEN gst ELSE books.ledger.gstAmount,
                      deliveryPayout |-> IF books.ledger = Null THEN 0 ELSE books.ledger.deliveryPayout,
                      platformCommission |-> gross, gstOnCommission |-> onCommission,
                      netPlatformEarning |-> gross - onCommission]
<1>11. /\ books'.commission = books.commission /\ books'.gst = books.gst /\ books'.ledger = ledger
       /\ books' = [gst |-> books'.gst, commission |-> books'.commission, ledger |-> books'.ledger]
  BY <1>5 DEF AmountsInv, AmountsTypes
<1>12. Taxes(ledger.gstAmount, order.subtotal)
  BY <1>10 DEF AmountsInv, Booked
<1>13. Balanced(ledger)
  BY <1>8 DEF Balanced
<1> HIDE DEF ledger
<1>14. Booked'
  <2>1. Total(Fees, Lines)' = Total(Fees, Lines)
    BY <1>1, DueKept
  <2>2. Taxes(books'.ledger.gstAmount, order'.subtotal) /\ Balanced(books.ledger)'
    BY <1>1, <1>11, <1>12, <1>13, <2>1 DEF Balanced
  <2> QED BY <1>1, <1>11, <2>2 DEF AmountsInv, Booked, Taxes, Near
<1>15. Posts' /\ credit' \in [Handlers -> [Vendors -> Int]]
  BY <1>1, <1>4, <1>6, <1>7, <1>11, PostsKept
<1>16. AmountsTypes'
  BY <1>1, <1>11, <1>15, RunOf DEF AmountsInv, AmountsTypes
<1> QED BY <1>1, <1>14, <1>15, <1>16, ChargedKept DEF AmountsInv

(* The settlement's tax and commission.                                    *)
LEMMA TaxIsWithin ==
    ASSUME NEW s \in Int, NEW gst \in TaxWithin(s)
    PROVE  Taxes(gst.totalGst, s) /\ Near(gst.taxableAmount + 2 * gst.half, s, 1)
<1>1. PICK taxable, half :
          /\ taxable \in Rounded(100 * s, 118) /\ half \in Rounded(s - taxable, 2)
          /\ gst = [taxableAmount |-> taxable, totalGst |-> s - taxable, half |-> half]
  BY DEF TaxWithin
<1>2. taxable \in Int /\ 118 * taxable - 100 * s \in (-59)..59
  <2>1. 100 * s \in Int
    OBVIOUS
  <2> QED BY <1>1, <2>1, RoundedNear
<1>3. half \in Int /\ 2 * half - (s - taxable) \in (-1)..1
  <2>1. s - taxable \in Int
    BY <1>2
  <2> QED BY <1>1, <2>1, RoundedNear
<1> QED BY <1>1, <1>2, <1>3 DEF Taxes, Near

LEMMA CommissionIsShare ==
    ASSUME AmountsTypes, NEW v \in Vendors, NEW c \in Commissions(v)
    PROVE  /\ c.vendorPayout \in Int /\ c.gstOnCommission \in Int
           /\ 100 * (c.vendorPayout + c.gstOnCommission) - Due(v) \in (-50)..50
<1> DEFINE g == Gross(v)
<1>1. g \in Int /\ rate[v] \in 0..100 /\ Due(v) = g * (100 - rate[v])
  BY DueIsShare, TermTypes
<1>2. g * rate[v] \in Int /\ Due(v) = 100 * g - g * rate[v]
  BY <1>1, Percent
<1>3. PICK x, y :
          /\ x \in Rounded(g * rate[v], 100) /\ y \in Rounded(18 * x, 100)
          /\ c = [commissionAmount |-> x, gstOnCommission |-> y, vendorPayout |-> g - (x + y)]
  BY DEF Commissions
<1> HIDE DEF g
<1>4. x \in Int /\ 100 * x - g * rate[v] \in (-50)..50
  BY <1>2, <1>3, RoundedNear
<1>5. y \in Int
  <2>1. 18 * x \in Int
    BY <1>4
  <2> QED BY <1>3, <2>1, RoundedNear
<1> QED BY <1>1, <1>2, <1>3, <1>4, <1>5

LEMMA SettleInv == AmountsInv /\ Settle => AmountsInv'
<1> SUFFICES ASSUME AmountsInv, Settle PROVE AmountsInv'
  OBVIOUS
<1> DEFINE sold == {v \in Vendors : LinesOf(v) # {}}
           s == order.subtotal
<1>1. Run("settled") /\ UNCHANGED <<item, rate, order, total, payment>>
  BY DEF Settle
<1>2. PICK gst \in TaxWithin(order.subtotal), c \in Each(Vendors, Commissions) :
          /\ credit' = [credit EXCEPT !["settled"] =
                           [v \in Vendors |-> IF v \in sold THEN c[v].vendorPayout ELSE 0]]
          /\ \E p \in Rounded(10 * order.subtotal, 100), g \in Rounded(18 * order.subtotal, 1000),
                net \in Rounded(10 * order.subtotal - 100 * LocalPayout, 100) :
                books' = [gst |-> gst,
                          commission |-> [v \in Vendors |-> IF v \in sold THEN c[v] ELSE Null],
                          ledger |->
                             IF payment = "none" \/ books.ledger # Null THEN books.ledger
                             ELSE [by |-> "settled", gstAmount |-> gst.totalGst,
                                   deliveryPayout |-> LocalPayout, platformCommission |-> p,
                                   gstOnCommission |-> g, netPlatformEarning |-> net]]
  BY DEF Settle
<1>3. \A v \in Vendors : c[v] \in Commissions(v)
  BY <1>2 DEF Each
<1>4. ASSUME NEW v \in Vendors
      PROVE  /\ c[v].vendorPayout \in Int /\ c[v].gstOnCommission \in Int
             /\ 100 * (c[v].vendorPayout + c[v].gstOnCommission) - Due(v) \in (-50)..50
  BY <1>3, CommissionIsShare DEF AmountsInv
<1>5. order \in OrderRow /\ order # Null /\ s \in Int /\ "settled" \notin done /\ done' = done \cup {"settled"}
  BY <1>1, RunOf DEF OrderRow
<1>6. Taxes(gst.totalGst, s) /\ Near(gst.taxableAmount + 2 * gst.half, s, 1)
  BY <1>2, <1>5, TaxIsWithin
<1> DEFINE payout == [v \in Vendors |-> IF v \in sold THEN c[v].vendorPayout ELSE 0]
<1>7. payout \in [Vendors -> Int]
  BY <1>4
<1>8. /\ credit' \in [Handlers -> [Vendors -> Int]] /\ credit'["settled"] = payout
      /\ \A h \in Handlers : h # "settled" => credit'[h] = credit[h]
  <2>1. credit \in [Handlers -> [Vendors -> Int]]
    BY DEF AmountsInv, AmountsTypes
  <2>2. "settled" \in Handlers /\ credit' = [credit EXCEPT !["settled"] = payout]
    BY <1>2 DEF Handlers
  <2> HIDE DEF payout
  <2> QED BY <1>7, <2>1, <2>2
<1>9. /\ books' = [gst |-> books'.gst, commission |-> books'.commission, ledger |-> books'.ledger]
      /\ books'.gst = gst
      /\ books'.commission = [v \in Vendors |-> IF v \in sold THEN c[v] ELSE Null]
      /\ books'.ledger # books.ledger =>
            \E p \in Rounded(10 * s, 100), g \in Rounded(18 * s, 1000), net \in Rounded(10 * s - 100 * LocalPayout, 100) :
               books'.ledger = [by |-> "settled", gstAmount |-> gst.totalGst,
                                deliveryPayout |-> LocalPayout, platformCommission |-> p,
                                gstOnCommission |-> g, netPlatformEarning |-> net]
  BY <1>2
<1>10. AmountsTypes'
  BY <1>1, <1>5, <1>8, <1>9 DEF AmountsInv, AmountsTypes
<1>11. ASSUME NEW v \in Vendors PROVE PostsOf(v)'
  <2> DEFINE n == Cardinality(LinesOf(v))
  <2>1. n' = n /\ LinesOf(v)' = LinesOf(v) /\ Due(v)' = Due(v)
    BY <1>1, DueKept
  <2>2. PostsOf(v)
    BY DEF AmountsInv, Posts
  <2>3. Posted("createOrder", v, 1)' /\ Posted("captured", v, n)' /\ Posted("reversed", v, n)'
    BY <1>5, <1>8, <2>1, <2>2 DEF PostsOf, Posted, Handlers
  <2>4. Settled(v)'
    <3> SUFFICES ASSUME LinesOf(v) # {}
                 PROVE  /\ books'.commission[v].gstOnCommission \in Int
                        /\ 100 * (credit'["settled"][v] + books'.commission[v].gstOnCommission) - Due(v) \in (-50)..50
      BY <2>1 DEF Settled
    <3>1. books'.commission[v] = c[v] /\ credit'["settled"][v] = c[v].vendorPayout
      BY <1>8, <1>9
    <3> QED BY <1>4, <3>1
  <2> QED BY <2>3, <2>4 DEF PostsOf
<1>12. books'.ledger = books.ledger \/ (Taxes(books'.ledger.gstAmount, s) /\ Balanced(books.ledger)')
  <2> SUFFICES ASSUME books'.ledger # books.ledger
               PROVE  Taxes(books'.ledger.gstAmount, s) /\ Balanced(books.ledger)'
    OBVIOUS
  <2>1. PICK p, g, net :
            /\ p \in Rounded(10 * s, 100) /\ net \in Rounded(10 * s - 500000, 100)
            /\ books'.ledger = [by |-> "settled", gstAmount |-> gst.totalGst,
                                deliveryPayout |-> LocalPayout, platformCommission |-> p,
                                gstOnCommission |-> g, netPlatformEarning |-> net]
    BY <1>9 DEF LocalPayout
  <2>2. 10 * s \in Int /\ 10 * s - 500000 \in Int
    BY <1>5
  <2>3. p \in Int /\ 100 * p - 10 * s \in (-50)..50
    BY <2>1, <2>2, RoundedNear
  <2>4. net \in Int /\ 100 * net - (10 * s - 500000) \in (-50)..50
    BY <2>1, <2>2, RoundedNear
  <2>5. net - (p - 5000) \in (-1)..1
    BY <1>5, <2>3, <2>4
  <2> QED BY <1>6, <2>1, <2>3, <2>4, <2>5 DEF Balanced, LocalPayout
<1>13. Booked'
  <2>1. Total(Fees, Lines)' = Total(Fees, Lines)
    BY <1>1, DueKept
  <2> QED BY <1>1, <1>6, <1>9, <1>12, <2>1 DEF AmountsInv, Booked, Balanced, Taxes, Near
<1> QED BY <1>1, <1>10, <1>11, <1>13, ChargedKept DEF AmountsInv, Posts

-----------------------------------------------------------------------------
(* Invariance and theorems.                                                *)
(* Every figure the handlers write is within half a paisa, for each of its *)
(* roundings, of the exact one: a hundred times a credit is what the       *)
(* vendor's lines cost at a hundred less the vendor's rate.                *)
THEOREM AmountsInvariance == AmountsSpec => []AmountsInv
<1>1. AmountsInv /\ [AmountsNext]_amounts => AmountsInv'
  <2> SUFFICES ASSUME AmountsInv, [AmountsNext]_amounts PROVE AmountsInv'
    OBVIOUS
  <2>1. CASE \E coupon \in Coupons \cup {Null, REALTEST}, fromCart, local \in BOOLEAN :
                CreateOrder(coupon, fromCart, local)
    BY <2>1, CreateOrderInv
  <2>2. CASE UpdateVendorEarnings
    BY <2>2, UpdateVendorEarningsInv
  <2>3. CASE CreatePayment \/ VerifyPayment
    BY <2>3, CreatePaymentInv
  <2>4. CASE ProcessPaymentCaptured
    BY <2>4, ProcessPaymentCapturedInv
  <2>5. CASE Settle
    BY <2>5, SettleInv
  <2>6. CASE ReverseEarnings
    BY <2>6, ReverseEarningsInv
  <2>7. CASE UNCHANGED amounts
    <3>1. UNCHANGED <<item, rate, order, total, payment, credit, done, books>>
      BY <2>7 DEF amounts
    <3>2. AmountsTypes'
      BY <3>1 DEF AmountsInv, AmountsTypes
    <3>3. Posts'
      BY <3>1, DueKept DEF AmountsInv, Posts, PostsOf, Posted, Settled
    <3> QED BY <3>1, <3>2, <3>3, ChargedKept DEF AmountsInv
  <2> QED BY <2>1, <2>2, <2>3, <2>4, <2>5, <2>6, <2>7 DEF AmountsNext
<1> QED BY <1>1, AmountsInitInv, PTL DEF AmountsSpec

(* createOrder, payment.captured and cancelOrder credit and take back the  *)
(* same amount but for their roundings, and the settlement that amount     *)
(* less the GST on the commission: an order that two of them post is paid  *)
(* for twice.                                                              *)
THEOREM PostingsDoAgree == AmountsSpec => []PostingsAgree
<1>1. AmountsInv => PostingsAgree
  <2> SUFFICES ASSUME AmountsInv, NEW v \in Vendors
               PROVE  LET n == Cardinality(LinesOf(v))
                          ran(h) == h \in done
                          earned == credit["createOrder"][v]
                      IN
                      /\ ran("createOrder") /\ ran("captured") => Near(credit["captured"][v], earned, (n + 1) \div 2)
                      /\ ran("createOrder") /\ ran("reversed") => Near(credit["reversed"][v], earned, (n + 1) \div 2)
                      /\ ran("captured") /\ ran("reversed") => Near(credit["captured"][v], credit["reversed"][v], n)
                      /\ ran("createOrder") /\ ran("settled") /\ n > 0 =>
                            Near(credit["settled"][v] + books.commission[v].gstOnCommission, earned, 1)
    BY DEF PostingsAgree
  <2> DEFINE n == Cardinality(LinesOf(v))
             due == Due(v)
             c == books.commission[v].gstOnCommission
  <2>1. n \in Nat /\ due \in Int /\ (n > 0 => LinesOf(v) # {})
    BY LinesFinite, DueIsShare, FS_EmptySet DEF AmountsInv
  <2>2. \A h \in Handlers : credit[h][v] \in Int
    BY DEF AmountsInv, AmountsTypes
  <2>3. PostsOf(v)
    BY DEF AmountsInv, Posts
  <2>4. /\ "createOrder" \in done => 100 * credit["createOrder"][v] - due \in (-50)..50
        /\ "captured" \in done => 100 * credit["captured"][v] - due \in (-(50 * n))..(50 * n)
        /\ "reversed" \in done => 100 * credit["reversed"][v] - due \in (-(50 * n))..(50 * n)
        /\ "settled" \in done /\ n > 0 => c \in Int /\ 100 * (credit["settled"][v] + c) - due \in (-50)..50
    BY <2>1, <2>3 DEF PostsOf, Posted, Settled
  <2> HIDE DEF n, due, c
  <2>5. \A a, b \in Int : 100 * a - due \in (-(50 * n))..(50 * n) /\ 100 * b - due \in (-50)..50
                             => Near(a, b, (n + 1) \div 2)
    BY <2>1 DEF Near
  <2>6. \A a, b \in Int : 100 * a - due \in (-(50 * n))..(50 * n) /\ 100 * b - due \in (-(50 * n))..(50 * n)
                             => Near(a, b, n)
    BY <2>1 DEF Near
  <2>7. \A a, b \in Int : 100 * a - due \in (-50)..50 /\ 100 * b - due \in (-50)..50 => Near(a, b, 1)
    BY <2>1 DEF Near
  <2>8. /\ credit["createOrder"][v] \in Int /\ credit["captured"][v] \in Int
        /\ credit["reversed"][v] \in Int /\ credit["settled"][v] \in Int
    BY <2>2 DEF Handlers
  <2>9. /\ "createOrder" \in done /\ "captured" \in done => Near(credit["captured"][v], credit["createOrder"][v], (n + 1) \div 2)
        /\ "createOrder" \in done /\ "reversed" \in done => Near(credit["reversed"][v], credit["createOrder"][v], (n + 1) \div 2)
    BY <2>4, <2>5, <2>8
  <2>10. "captured" \in done /\ "reversed" \in done => Near(credit["captured"][v], credit["reversed"][v], n)
    BY <2>4, <2>6, <2>8
  <2>11. "createOrder" \in done /\ "settled" \in done /\ n > 0 => Near(credit["settled"][v] + c, credit["createOrder"][v], 1)
    BY <2>4, <2>7, <2>8
  <2> QED BY <2>9, <2>10, <2>11 DEF n, c
<1> QED BY <1>1, AmountsInvariance, PTL

(* What createOrder charges is at most the goods and their shipping, and   *)
(* below nothing only for a line priced below zero; the tax and the ledger *)
(* that three handlers write fit to the paisa with the order they are      *)
(* about.                                                                  *)
THEOREM BooksDoBalance == AmountsSpec => []BooksBalance
<1>1. AmountsInv => BooksBalance
  <2> SUFFICES ASSUME AmountsInv, order # Null PROVE ChargeIsFair /\ TaxAgrees /\ LedgerBalances
    BY DEF BooksBalance
  <2>1. order \in OrderRow /\ Charged /\ Booked
    BY DEF AmountsInv, AmountsTypes
  <2>2. order.subtotal \in Int /\ order.gst \in Int /\ order.commission \in Int
    BY <2>1 DEF OrderRow
  <2>3. \A tax : Taxes(tax, order.subtotal) => Near(tax, order.gst, 1)
    <3> DEFINE s == order.subtotal
               gst == order.gst
    <3>1. Taxes(gst, s) /\ s \in Int
      BY <2>1, <2>2 DEF Charged
    <3> HIDE DEF s, gst
    <3>2. \A tax : Taxes(tax, s) => Near(tax, gst, 1)
      BY <3>1 DEF Taxes, Near
    <3> QED BY <3>2 DEF s, gst
  <2>4. TaxAgrees
    BY <2>1, <2>3 DEF Booked, TaxAgrees
  <2> DEFINE n == Cardinality(Lines)
             fees == Total(Fees, Lines)
  <2>5. n \in Nat /\ fees \in Int
    BY TermTypes, LinesFinite, TotalInt DEF AmountsInv, Terms
  <2>6. 100 * order.commission - fees \in (-50)..50
    BY <2>1 DEF Charged
  <2>7. ASSUME books.ledger # Null PROVE Balanced(books.ledger)
    BY <2>1, <2>7 DEF Booked
  <2> HIDE DEF n, fees
  <2>8. \A a \in Int : 100 * a - fees \in (-(50 * n))..(50 * n) => Near(a, order.commission, (n + 1) \div 2)
    BY <2>2, <2>5, <2>6 DEF Near
  <2>9. LedgerBalances
    BY <2>7, <2>8 DEF LedgerBalances, Balanced, Near, n, fees
  <2> QED BY <2>1, <2>4, <2>9 DEF Charged
<1> QED BY <1>1, AmountsInvariance, PTL
=============================================================================
