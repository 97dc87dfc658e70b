----------------------------- MODULE OrderMoney -----------------------------
(***************************************************************************)
(* What the marketplace promises about the money of an order, apart from   *)
(* requests, webhooks, retries and crashes: a payment is recorded only     *)
(* after Razorpay took it, for that order or, on the customer's word, for  *)
(* another; only what was recorded is marked returned, a recorded payment  *)
(* is never forgotten, and goods leave only on cash or on a recorded       *)
(* payment.  Payments implements it (see its operator Promise).            *)
(***************************************************************************)
CONSTANTS Orders, Attempts, None

VARIABLES
    cash,    \* orders to be paid at the door
    taken,   \* taken[o]: the attempts by which Razorpay took money for o
    word,    \* word[o]: the attempts recorded on o on the customer's word
    book,    \* book[o]: the status the payment of o has in the books
    shown,   \* shown[o]: the payment status the order shows
    proof,   \* proof[o]: the attempt the books name, once there is one
    riding   \* orders handed to a rider

vars == <<cash, taken, word, book, shown, proof, riding>>

Init ==
    /\ cash = {}
    /\ taken = [o \in Orders |-> {}]
    /\ word = [o \in Orders |-> {}]
    /\ book = [o \in Orders |-> "ABSENT"]
    /\ shown = [o \in Orders |-> "PENDING"]
    /\ proof = [o \in Orders |-> None]
    /\ riding = {}

(* Books are opened for an order, in cash or not.                          *)
Open(o) ==
    /\ book[o] = "ABSENT"
    /\ book' = [book EXCEPT ![o] = "PENDING"]
    /\ cash' \in {cash, cash \cup {o}}
    /\ UNCHANGED <<taken, word, shown, proof, riding>>

(* Razorpay takes money, once per attempt and for one order.               *)
Take(o, p) ==
    /\ \A q \in Orders : p \notin taken[q]
    /\ taken' = [taken EXCEPT ![o] = @ \cup {p}]
    /\ UNCHANGED <<cash, word, book, shown, proof, riding>>

Booked(o, p) ==
    /\ book' = [book EXCEPT ![o] = "PAID"]
    /\ shown' = [shown EXCEPT ![o] = "PAID"]
    /\ proof' = [proof EXCEPT ![o] = p]
    /\ UNCHANGED <<cash, taken, riding>>

(* Money taken for o is recorded; both statuses say so at once.            *)
Record(o, p) == p \in taken[o] /\ Booked(o, p) /\ UNCHANGED word

(* Money taken for another order is recorded, and whose word it was.       *)
RecordOnWord(o, p) ==
    /\ \E q \in Orders \ {o} : p \in taken[q]
    /\ Booked(o, p)
    /\ word' = [word EXCEPT ![o] = @ \cup {p}]

(* A failure is recorded, over whatever the books said; the proof stays.   *)
Fail(o) ==
    /\ book' = [book EXCEPT ![o] = "FAILED"]
    /\ shown' = [shown EXCEPT ![o] = "FAILED"]
    /\ UNCHANGED <<cash, taken, word, proof, riding>>

(* Money is marked returned only where some was recorded; the order may    *)
(* show it with the books, or later.                                       *)
Return(o) ==
    /\ proof[o] # None
    /\ book' = [book EXCEPT ![o] = "REFUNDED"]
    /\ shown' \in {shown, [shown EXCEPT ![o] = "REFUNDED"]}
    /\ UNCHANGED <<cash, taken, word, proof, riding>>

ShowReturned(o) ==
    /\ proof[o] # None
    /\ shown' = [shown EXCEPT ![o] = "REFUNDED"]
    /\ UNCHANGED <<cash, taken, word, book, proof, riding>>

HandOver(o) ==
    /\ o \in cash \/ proof[o] # None
    /\ riding' = riding \cup {o}
    /\ UNCHANGED <<cash, taken, word, book, shown, proof>>

Next ==
    \E o \in Orders :
        \/ Open(o) \/ Fail(o) \/ Return(o) \/ ShowReturned(o) \/ HandOver(o)
        \/ \E p \in Attempts : Take(o, p) \/ Record(o, p) \/ RecordOnWord(o, p)

Spec == Init /\ [][Next]_vars
=============================================================================
