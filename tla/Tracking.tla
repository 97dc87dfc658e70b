------------------------------ MODULE Tracking ------------------------------
(***************************************************************************)
(* What people see of one order while it is on its way: the socket.io      *)
(* gateway (tracking.gateway.ts), the handlers that announce a status, a   *)
(* position or a notice through it, the Notification rows                  *)
(* (notifications.service.ts) and the tracking page that is loaded over    *)
(* HTTP (getOrderTracking) and then kept up to date by events.             *)
(*                                                                         *)
(* Each handler is the list of its writes and emits, one step each, since  *)
(* it awaits between them.  socket.io keeps rooms in the memory of one     *)
(* process: an event reaches the sockets of the process that emits it.     *)
(* Which of the handlers may run when is in Payments and Fulfilment; here  *)
(* they run at any time, the status they look at themselves excepted.      *)
(* A rider chosen by createOrder or verifyPayment is told by a push alone,  *)
(* no row is written.  Notices of vendors, which go the way of those of    *)
(* admins, broadcasts about products and settlements, and the rider's own  *)
(* row, which only the choice of the nearest rider reads, are left out.    *)
(* Pages are external: they connect, join, leave and load as they like.    *)
(***************************************************************************)
EXTENDS Integers, Sequences, FiniteSets

CONSTANTS
    Processes,   \* Node processes of the cluster
    Slots,       \* requests in flight at once
    Clients,     \* pages open on this order
    Viewers,     \* who may be logged in on them
    Overrides,   \* bound: statuses an admin sets by hand
    Places,      \* positions of the rider
    Nothing,     \* no socket, no position, nothing shown
    MaxCalls     \* bound: requests and events that come in

ASSUME MaxCallsIsNat == MaxCalls \in Nat

OrderStatus == {"PENDING", "CONFIRMED", "PACKED", "SHIPPED", "OUT_FOR_DELIVERY",
                "DELIVERED", "CANCELLED", "RETURNED"}
ASSUME OverridesAreStatuses == Overrides \subseteq OrderStatus
ASSUME NothingIsNone == Nothing \notin Processes \cup Places \cup OrderStatus

Users == {"customer", "admin"}       \* who get Notification rows
ASSUME ViewersArePeople == Viewers \subseteq Users \cup {"rider"}
Aspects == {"status", "place"}

VARIABLES
    viewer,   \* viewer[c]: who is logged in on page c
    order,    \* order.status; place: the newest DeliveryTracking row
    socket,   \* socket[c]: process the client is connected to, and its rooms
    shown,    \* shown[c]: status and place on the client's screen
    pushed,   \* pushed[c]: notices the client was sent over its socket
    notice,   \* notice[<<n, u>>]: Notification row written for user u by request n
    job,      \* job[w]: the request in slot w and what it has yet to do
    calls,    \* requests and socket messages received so far
    stored,   \* history: values each aspect had, and places riders reported by socket
    doubt     \* history: aspects whose screen may be wrong until reloaded

tracked == <<viewer, order, socket, shown, pushed, notice, job, calls, stored, doubt>>

-----------------------------------------------------------------------------
(* What each handler does, in its order, where it touches this module's    *)
(* state.                                                                  *)
Do(what, to) == [do |-> what, to |-> to]
Write == Do("write", "status")
Announce == Do("emit", "status")
Note(u) == Do("notice", u)
Tell(u) == Do("push", u)

(* createOrder, its transaction committed: sendOrderNotifications; a COD   *)
(* order, CONFIRMED from the start, may then get a rider at once; where    *)
(* none is near it ends as if the write had thrown.                        *)
Placed == <<Note("admin"), Tell("admin")>>
AutoAssign == <<Write, Tell("rider"), Announce>>
PlacedAssigned == <<Note("admin"), Tell("admin"), Write, Tell("rider"), Announce>>

(* Mutant: the customer is told before the row is there.                   *)
CapturedPushesFirst == <<Write, Tell("customer"), Note("customer"), Announce>>

Captured == <<Write, Note("customer"), Tell("customer"), Announce>>
Failed == <<Write, Note("customer"), Announce>>
Verified == <<Write, Announce, Note("customer")>>

VerifiedAssigned == <<Write, Write, Tell("rider"), Announce, Announce, Note("customer")>>
Override == <<Write, Announce, Note("customer")>>
Assign == <<Write, Announce>>
Ship == <<Write, Announce, Note("customer")>>
ShipMock == <<Write, Announce>>
Ride == <<Write, Announce>>
Cancel == <<Write>>
Locate == <<Do("write", "place"), Do("emit", "place")>>
NewProduct == <<Note("admin"), Tell("admin")>>
Load == <<Do("read", "page"), Do("answer", "page")>>

Handlers ==
    {<<"captured", Captured, "CONFIRMED">>, <<"failed", Failed, "CANCELLED">>,
     <<"verified", Verified, "CONFIRMED">>, <<"verified", VerifiedAssigned, "CONFIRMED">>,
     <<"assign", Assign, "PACKED">>, <<"ship", Ship, "SHIPPED">>,
     <<"ride", Ride, "OUT_FOR_DELIVERY">>, <<"ride", Ride, "DELIVERED">>}
    \cup {<<"override", Override, s>> : s \in Overrides}
    \cup {<<"locate", Locate, p>> : p \in Places}

Blank == [status |-> Nothing, place |-> Nothing]
Free == [op |-> "idle", todo |-> <<>>, at |-> Nothing, value |-> Nothing, n |-> 0, page |-> Nothing, read |-> Blank]

TrackingInit ==
    /\ viewer \in [Clients -> Viewers]
    /\ socket = [c \in Clients |-> [at |-> Nothing, rooms |-> {}]]
    /\ shown = [c \in Clients |-> Blank]
    /\ pushed = [c \in Clients |-> {}]
    /\ notice = [r \in (0..MaxCalls) \X Users |-> "absent"]
    /\ \E w \in Slots, p \in Processes, todo \in {Placed, PlacedAssigned}, s \in {"PENDING", "CONFIRMED"} :
          /\ todo = PlacedAssigned <=> s = "CONFIRMED"
          /\ order = [status |-> s, place |-> Nothing]
          /\ stored = [status |-> {s}, place |-> {Nothing}]
          /\ job = [[v \in Slots |-> Free] EXCEPT ![w] =
                       [Free EXCEPT !.op = "placed", !.todo = todo, !.at = p, !.value = "CONFIRMED"]]
    /\ calls = 0
    /\ doubt = [c \in Clients |-> Aspects]

Spend == calls < MaxCalls /\ calls' = calls + 1

Admit(w, request) ==
    /\ job[w] = Free
    /\ \E p \in Processes : job' = [job EXCEPT ![w] = [request EXCEPT !.at = p, !.n = calls + 1]]
    /\ Spend
    /\ UNCHANGED <<viewer, order, socket, shown, pushed, notice, stored, doubt>>

Begin(w, op, todo, value) == Admit(w, [Free EXCEPT !.op = op, !.todo = todo, !.value = value])

Handle(w) == \E h \in Handlers : Begin(w, h[1], h[2], h[3])

(* cancelOrder tells no one.                                               *)
HandleCancel(w) ==
    /\ order.status \in {"PENDING", "CONFIRMED"}
    /\ Begin(w, "cancel", Cancel, "CANCELLED")

(* A vendor's new product: admins are told.                                *)
HandleNewProduct(w) == Begin(w, "product", NewProduct, Nothing)

-----------------------------------------------------------------------------
(* The steps of the handlers.                                              *)
Doing(w, what) == job[w].todo # <<>> /\ Head(job[w].todo).do = what
To(w) == Head(job[w].todo).to
Rest(w) == IF Len(job[w].todo) = 1 THEN Free ELSE [job[w] EXCEPT !.todo = Tail(@)]
Advance(w) == job' = [job EXCEPT ![w] = Rest(w)]

(* w has stored a value of aspect a and has yet to announce it.            *)
Left(todo, what, a) == Cardinality({i \in DOMAIN todo : todo[i] = Do(what, a)})
Owes(w, a) == Left(job[w].todo, "emit", a) > Left(job[w].todo, "write", a)
Doubt(a, who) == doubt' = [c \in Clients |-> IF c \in who THEN doubt[c] \cup {a} ELSE doubt[c]]

WriteRow(w) ==
    LET a == To(w) IN
    /\ Doing(w, "write")
    /\ order' = [order EXCEPT ![a] = job[w].value]
    /\ stored' = [stored EXCEPT ![a] = @ \cup {job[w].value}]
    /\ Doubt(a, IF Left(job[w].todo, "emit", a) = 0 \/ \E v \in Slots \ {w} : Owes(v, a) THEN Clients ELSE {})
    /\ Advance(w)
    /\ UNCHANGED <<viewer, socket, shown, pushed, notice, calls>>

(* Sockets an event of this order reaches from process p: its room, and    *)
(* for a status every socket of the process, which admins listen to.       *)
Hears(c, p, a) ==
    socket[c].at = p /\ ("order" \in socket[c].rooms \/ (a = "status" /\ viewer[c] = "admin"))

Loading(c) == {w \in Slots : job[w].page = c /\ job[w].read # Blank}

(* Mutant: only the admins are told.                                       *)
EmitToAdmins(w) ==
    LET a == To(w) v == job[w].value
        heard == {c \in Clients : Hears(c, job[w].at, a)} IN
    /\ Doing(w, "emit")
    /\ shown' = [c \in Clients |-> IF c \in heard /\ viewer[c] = "admin" THEN [shown[c] EXCEPT ![a] = v] ELSE shown[c]]
    /\ Doubt(a, {c \in Clients : c \notin heard \/ \E l \in Loading(c) : job[l].read[a] # v})
    /\ Advance(w)
    /\ UNCHANGED <<viewer, order, socket, pushed, notice, calls, stored>>

(* emitOrderStatusUpdate, emitLocationUpdate.  A screen that missed the    *)
(* event, or is about to show an answer read before it, is in doubt.       *)
Emit(w) ==
    LET a == To(w) v == job[w].value
        heard == {c \in Clients : Hears(c, job[w].at, a)} IN
    /\ Doing(w, "emit")
    /\ shown' = [c \in Clients |-> IF c \in heard THEN [shown[c] EXCEPT ![a] = v] ELSE shown[c]]
    /\ Doubt(a, {c \in Clients : c \notin heard \/ \E l \in Loading(c) : job[l].read[a] # v})
    /\ Advance(w)
    /\ UNCHANGED <<viewer, order, socket, pushed, notice, calls, stored>>

(* NotificationsService.create, and the push to the user's room.           *)
CreateNotice(w) ==
    /\ Doing(w, "notice")
    /\ notice' = [notice EXCEPT ![<<job[w].n, To(w)>>] = "unread"]
    /\ Advance(w)
    /\ UNCHANGED <<viewer, order, socket, shown, pushed, calls, stored, doubt>>

Push(w) ==
    /\ Doing(w, "push")
    /\ pushed' = [c \in Clients |->
                     IF socket[c].at = job[w].at /\ "user" \in socket[c].rooms /\ viewer[c] = To(w)
                     THEN pushed[c] \cup {job[w].n} ELSE pushed[c]]
    /\ Advance(w)
    /\ UNCHANGED <<viewer, order, socket, shown, notice, calls, stored, doubt>>

-----------------------------------------------------------------------------
(* getOrderTracking: the page reads the order, may ask Shiprocket where    *)
(* the parcel is, and shows what it read.  One load of a page at a time.   *)
LoadBegin(w, c) ==
    /\ \A v \in Slots : job[v].page # c
    /\ Admit(w, [Free EXCEPT !.op = "load", !.todo = Load, !.page = c])

(* What another request has yet to announce may be older than what is      *)
(* read here.                                                              *)
LoadRead(w) ==
    /\ Doing(w, "read")
    /\ job' = [job EXCEPT ![w] = [Rest(w) EXCEPT !.read = order]]
    /\ doubt' = [doubt EXCEPT ![job[w].page] =
                    {a \in Aspects : \E v \in Slots : Owes(v, a) /\ job[v].value # order[a]}]
    /\ UNCHANGED <<viewer, order, socket, shown, pushed, notice, calls, stored>>

LoadAnswer(w) ==
    /\ Doing(w, "answer")
    /\ shown' = [shown EXCEPT ![job[w].page] = job[w].read]
    /\ Advance(w)
    /\ UNCHANGED <<viewer, order, socket, pushed, notice, calls, stored, doubt>>

-----------------------------------------------------------------------------
(* The sockets.  A token that does not verify disconnects at once.         *)
Connect(c, p) ==
    /\ socket[c].at = Nothing
    /\ socket' = [socket EXCEPT ![c] = [at |-> p, rooms |-> {}]]
    /\ Spend
    /\ UNCHANGED <<viewer, order, shown, pushed, notice, job, stored, doubt>>

Join(c, room) ==
    /\ socket[c].at # Nothing
    /\ socket' = [socket EXCEPT ![c].rooms = @ \cup {room}]
    /\ UNCHANGED <<viewer, order, shown, pushed, notice, job, calls, stored, doubt>>

LeaveOrderRoom(c) ==
    /\ socket[c].at # Nothing
    /\ socket' = [socket EXCEPT ![c].rooms = @ \ {"order"}]
    /\ Spend
    /\ UNCHANGED <<viewer, order, shown, pushed, notice, job, stored, doubt>>

Disconnect(c) ==
    /\ socket[c].at # Nothing
    /\ socket' = [socket EXCEPT ![c] = [at |-> Nothing, rooms |-> {}]]
    /\ Spend
    /\ UNCHANGED <<viewer, order, shown, pushed, notice, job, stored, doubt>>

(* The rider's 'delivery-location' message: announced, never stored.       *)
DeliveryLocation(p, place) ==
    LET heard == {c \in Clients : Hears(c, p, "place")} IN
    /\ shown' = [c \in Clients |-> IF c \in heard THEN [shown[c] EXCEPT !.place = place] ELSE shown[c]]
    /\ stored' = [stored EXCEPT !.place = @ \cup {place}]
    /\ Doubt("place", heard)
    /\ Spend
    /\ UNCHANGED <<viewer, order, socket, pushed, notice, job>>

-----------------------------------------------------------------------------
(* The user's own notices.                                                 *)
MarkAsRead(r) ==
    /\ notice[r] = "unread"
    /\ notice' = [notice EXCEPT ![r] = "read"]
    /\ Spend
    /\ UNCHANGED <<viewer, order, socket, shown, pushed, job, stored, doubt>>

MarkAllAsRead(u) ==
    /\ notice' = [r \in DOMAIN notice |->
                     IF r[2] = u /\ notice[r] = "unread" THEN "read" ELSE notice[r]]
    /\ Spend
    /\ UNCHANGED <<viewer, order, socket, shown, pushed, job, stored, doubt>>

DeleteNotification(r) ==
    /\ notice[r] \in {"unread", "read"}
    /\ notice' = [notice EXCEPT ![r] = "deleted"]
    /\ Spend
    /\ UNCHANGED <<viewer, order, socket, shown, pushed, job, stored, doubt>>

-----------------------------------------------------------------------------
(* What follows a database call that throws: createOrder and verifyPayment *)
(* catch and go on, shipWithShiprocket ships a mock, all others give up.   *)
Recovery(w) ==
    LET c == job[w] IN
    CASE c.op = "placed" /\ Len(c.todo) > Len(AutoAssign) -> [c EXCEPT !.todo = AutoAssign]
      [] c.op = "verified" /\ Len(c.todo) = Len(AutoAssign) + 2 ->
            [c EXCEPT !.todo = <<Announce, Note("customer")>>]
      [] c.op = "ship" -> [c EXCEPT !.op = "shipMock", !.todo = ShipMock]
      [] OTHER -> Free

(* Screens in doubt when the requests in gone die: what they have yet to   *)
(* announce, and the page whose load they were.                            *)
Lose(gone) ==
    doubt' = [c \in Clients |->
                 doubt[c] \cup {a \in Aspects : \E w \in gone : Owes(w, a) \/ job[w].page = c}]

Throw(w) ==
    /\ \E what \in {"write", "notice"} : Doing(w, what)
    /\ job' = [job EXCEPT ![w] = Recovery(w)]
    /\ Lose(IF Recovery(w) = Free THEN {w} ELSE {})
    /\ UNCHANGED <<viewer, order, socket, shown, pushed, notice, calls, stored>>

(* A process dies with its requests, its sockets and their rooms.          *)
Crash(p) ==
    LET dying == {w \in Slots : job[w].at = p} IN
    /\ job' = [w \in Slots |-> IF w \in dying THEN Free ELSE job[w]]
    /\ socket' = [c \in Clients |-> IF socket[c].at = p THEN [at |-> Nothing, rooms |-> {}] ELSE socket[c]]
    /\ Lose(dying)
    /\ Spend
    /\ UNCHANGED <<viewer, order, shown, pushed, notice, stored>>

HandlerStep(w) ==
    \/ Handle(w) \/ HandleCancel(w) \/ HandleNewProduct(w)
    \/ WriteRow(w) \/ Emit(w) \/ CreateNotice(w) \/ Push(w) \/ Throw(w)

ClientStep(c) ==
    \/ \E p \in Processes : Connect(c, p)
    \/ \E room \in {"order", "user"} : Join(c, room)
    \/ LeaveOrderRoom(c) \/ Disconnect(c)

TrackingNext ==
    \/ \E w \in Slots : HandlerStep(w) \/ LoadRead(w) \/ LoadAnswer(w)
    \/ \E w \in Slots, c \in Clients : LoadBegin(w, c)
    \/ \E c \in Clients : ClientStep(c)
    \/ \E p \in Processes, place \in Places : DeliveryLocation(p, place)
    \/ \E r \in DOMAIN notice : MarkAsRead(r) \/ DeleteNotification(r)
    \/ \E u \in Users : MarkAllAsRead(u)
    \/ \E p \in Processes : Crash(p)

TrackingSpec == TrackingInit /\ [][TrackingNext]_tracked

-----------------------------------------------------------------------------
(* Properties.                                                             *)

Follows(c, a) == socket[c].at # Nothing /\ Hears(c, socket[c].at, a)
Quiet == \A w \in Slots : job[w] = Free

(* When no request is in flight, a page that is in the order's room shows  *)
(* the order's status and the newest position stored, unless since it was  *)
(* loaded: an event was emitted that it did not hear (other process, not   *)
(* joined yet), it loaded while the event passed, two updates overlapped,  *)
(* a handler died before its emit or answer, the order was cancelled by    *)
(* its customer or the rider sent its position over the socket.            *)
ScreenCurrent ==
    Quiet => \A c \in Clients, a \in Aspects :
                Follows(c, a) /\ a \notin doubt[c] => shown[c][a] = order[a]

(* Nothing is announced that cannot be looked up: a screen shows statuses  *)
(* and positions the order has had (or that riders sent by socket); every  *)
(* push to a customer or an admin has a Notification row, unless the user  *)
(* deleted it; a rider, whose push has none, is told of an order that was  *)
(* CONFIRMED before.                                                       *)
StoredFirst ==
    \A c \in Clients :
        /\ shown[c].status \in stored.status \cup {Nothing}
        /\ shown[c].place \in stored.place
        /\ viewer[c] \in Users => \A n \in pushed[c] : notice[<<n, viewer[c]>>] # "absent"
        /\ viewer[c] = "rider" /\ pushed[c] # {} => "CONFIRMED" \in stored.status
=============================================================================
