------------------------------- MODULE Catalog -------------------------------
(***************************************************************************)
(* What a customer may find: vendors and categories an admin admits, the   *)
(* products vendors create under them and admins approve, and the list of  *)
(* featured products, which every process caches for itself.               *)
(*                                                                         *)
(* A request in flight occupies a worker of one process and each await is  *)
(* a step; handlers that read only to answer 404 and then write one row    *)
(* without using what they read are one step.                              *)
(*                                                                         *)
(* Time is counted in ticks.  Instead of a clock the model keeps what is   *)
(* left of each cache entry's life and how long ago each product was last  *)
(* on offer as featured.                                                   *)
(*                                                                         *)
(* Abstracted: names, prices, pictures and search filters; pages (there is *)
(* one) and the total shown beside it; the uniqueness of PAN, Aadhaar and  *)
(* slugs, which the database enforces when the row is created.             *)
(***************************************************************************)
EXTENDS Integers, FiniteSets

CONSTANTS
    Vendors, Categories, Products, Processes, Workers, None,
    TTL,       \* ticks a cached page lives (five minutes)
    Latency    \* ticks a handler may take from its query's snapshot to its next statement

ASSUME TimesAssumption == TTL \in Nat \ {0} /\ Latency \in Nat
ASSUME NoneAssumption == None \notin Vendors \cup Categories \cup Products \cup Processes

Approval == {"NONE", "PENDING", "APPROVED", "REJECTED"}
(* OTHER is DELIVERY_BOY or ADMIN.                                         *)
Role == {"CUSTOMER", "VENDOR", "OTHER"}

(* A product row; status NONE is no row.  bornIn is history: the category  *)
(* it was created in.  Its owner may move it to any other, inactive ones   *)
(* too, and nothing here depends on where it is then.                      *)
ProductRow == [status : Approval, published : BOOLEAN, approvedBy : BOOLEAN, active : BOOLEAN,
               featured : BOOLEAN, vendor : Vendors \cup {None}, bornIn : Categories \cup {None}]
NoProduct == [status |-> "NONE", published |-> FALSE, approvedBy |-> FALSE, active |-> FALSE,
              featured |-> FALSE, vendor |-> None, bornIn |-> None]

(* What findAll shows, and what getFeatured selects.                       *)
Listed(row) == row.active /\ row.status = "APPROVED" /\ row.published
OnOffer(row) == Listed(row) /\ row.featured

Stale == TTL + Latency

CacheEntry == [page : SUBSET Products, left : 0..TTL]
NoEntry == [page |-> {}, left |-> 0]

Calls == [op : {"idle", "create", "approve", "featured"},
          pc : {"idle", "vendor", "category", "insert", "role", "query", "store"},
          process : Processes \cup {None}, vendor : Vendors \cup {None},
          category : Categories \cup {None}, rows : SUBSET Products, waited : 0..Latency]
Idle == [op |-> "idle", pc |-> "idle", process |-> None, vendor |-> None,
         category |-> None, rows |-> {}, waited |-> 0]

VARIABLES
    approval,   \* approval[v]: vendor.approvalStatus
    role,       \* role[v]: the role of the vendor's user
    category,   \* category[c]: "NONE" (no row), "INACTIVE" or "ACTIVE"
    product,    \* product[p]: the product row
    cache,      \* cache[n]: the featuredCache of process n
    call,       \* call[w]: the request in flight on worker w
    age,        \* ticks since p was last on offer, Stale or more as Stale
    answer,     \* the products getFeatured answered last, until the next tick
    admitted,   \* history: vendors approved and categories active at some time
    unseated    \* history: vendors whose role was changed or left unwritten since it was VENDOR

vendors == <<approval, role, unseated>>
offers == <<product, age>>
vars == <<vendors, category, offers, cache, call, answer, admitted>>

Init ==
    /\ approval = [v \in Vendors |-> "NONE"]
    /\ role \in [Vendors -> {"CUSTOMER", "VENDOR"}]
    /\ category = [c \in Categories |-> "NONE"]
    /\ product = [p \in Products |-> NoProduct]
    /\ cache = [n \in Processes |-> NoEntry]
    /\ call = [w \in Workers |-> Idle]
    /\ age = [p \in Products |-> Stale]
    /\ answer = {}
    /\ admitted = {}
    /\ unseated = {}

IsAt(w, op, pc) == call[w].op = op /\ call[w].pc = pc
Accept(w, request) == call[w] = Idle /\ call' = [call EXCEPT ![w] = request]
Goto(w, pc) == call' = [call EXCEPT ![w].pc = pc]
Return(w) == call' = [call EXCEPT ![w] = Idle]

(* One statement writes the row of p.                                      *)
Write(p, row) ==
    /\ product' = [product EXCEPT ![p] = row]
    /\ age' = IF OnOffer(row) THEN [age EXCEPT ![p] = 0] ELSE age

-----------------------------------------------------------------------------
(* Vendors and categories.                                                 *)

(* vendor.service onboard; a second profile of the user is refused.        *)
Onboard(v) ==
    /\ approval[v] = "NONE"
    /\ role[v] \in {"CUSTOMER", "VENDOR"}
    /\ approval' = [approval EXCEPT ![v] = "PENDING"]
    /\ UNCHANGED <<role, unseated, category, offers, cache, call, answer, admitted>>

RejectVendor(v) ==
    /\ approval[v] \in {"PENDING", "APPROVED"}
    /\ approval' = [approval EXCEPT ![v] = "REJECTED"]
    /\ UNCHANGED <<role, unseated, category, offers, cache, call, answer, admitted>>

(* approveVendor writes the vendor, then in a second statement the role of *)
(* its user.                                                               *)
ApproveVendorRow(w, n, v) ==
    /\ approval[v] # "NONE"
    /\ Accept(w, [Idle EXCEPT !.op = "approve", !.pc = "role", !.process = n, !.vendor = v])
    /\ approval' = [approval EXCEPT ![v] = "APPROVED"]
    /\ admitted' = admitted \cup {v}
    /\ UNCHANGED <<role, unseated, category, offers, cache, answer>>

(* Mutant: only a customer becomes a vendor.                               *)
ApproveVendorRoleOnce(w) ==
    LET v == call[w].vendor IN
    /\ IsAt(w, "approve", "role")
    /\ role' = IF role[v] = "CUSTOMER" THEN [role EXCEPT ![v] = "VENDOR"] ELSE role
    /\ unseated' = unseated \ {v}
    /\ Return(w)
    /\ UNCHANGED <<approval, category, offers, cache, answer, admitted>>

ApproveVendorRole(w) ==
    LET v == call[w].vendor IN
    /\ IsAt(w, "approve", "role")
    /\ role' = [role EXCEPT ![v] = "VENDOR"]
    /\ unseated' = unseated \ {v}
    /\ Return(w)
    /\ UNCHANGED <<approval, category, offers, cache, answer, admitted>>

(* changeUserRole, and approveDeliveryBoy for a user who is also a rider.  *)
ChangeUserRole(v, r) ==
    /\ role[v] # r
    /\ role' = [role EXCEPT ![v] = r]
    /\ unseated' = IF r = "VENDOR" THEN unseated \ {v} ELSE unseated \cup {v}
    /\ UNCHANGED <<approval, category, offers, cache, call, answer, admitted>>

(* categories create: an admin's is active at once, a vendor's is not.     *)
CreateCategory(c, byAdmin) ==
    /\ category[c] = "NONE"
    /\ byAdmin \/ \E v \in Vendors : role[v] = "VENDOR"
    /\ category' = [category EXCEPT ![c] = IF byAdmin THEN "ACTIVE" ELSE "INACTIVE"]
    /\ admitted' = IF byAdmin THEN admitted \cup {c} ELSE admitted
    /\ UNCHANGED <<vendors, offers, cache, call, answer>>

(* approveCategory, update and remove write isActive without looking.      *)
SetCategory(c, active) ==
    /\ category[c] # "NONE"
    /\ category' = [category EXCEPT ![c] = IF active THEN "ACTIVE" ELSE "INACTIVE"]
    /\ admitted' = IF active THEN admitted \cup {c} ELSE admitted
    /\ UNCHANGED <<vendors, offers, cache, call, answer>>

-----------------------------------------------------------------------------
(* Products.                                                               *)

(* The guard reads the user's role; the handler then reads the vendor, the *)
(* category, and inserts.                                                  *)
CreateBegin(w, n, v, c) ==
    /\ role[v] = "VENDOR"
    /\ Accept(w, [Idle EXCEPT !.op = "create", !.pc = "vendor", !.process = n,
                              !.vendor = v, !.category = c])
    /\ UNCHANGED <<vendors, category, offers, cache, answer, admitted>>

CreateReadVendor(w) ==
    /\ IsAt(w, "create", "vendor")
    /\ IF approval[call[w].vendor] = "APPROVED" THEN Goto(w, "category") ELSE Return(w)
    /\ UNCHANGED <<vendors, category, offers, cache, answer, admitted>>

(* Mutant: an inactive category will do.                                   *)
CreateReadCategoryAny(w) ==
    /\ IsAt(w, "create", "category")
    /\ IF category[call[w].category] # "NONE" THEN Goto(w, "insert") ELSE Return(w)
    /\ UNCHANGED <<vendors, category, offers, cache, answer, admitted>>

CreateReadCategory(w) ==
    /\ IsAt(w, "create", "category")
    /\ IF category[call[w].category] = "ACTIVE" THEN Goto(w, "insert") ELSE Return(w)
    /\ UNCHANGED <<vendors, category, offers, cache, answer, admitted>>

(* The notifications that follow keep no state.                            *)
CreateInsert(w, p) ==
    /\ IsAt(w, "create", "insert")
    /\ product[p].status = "NONE"
    /\ Write(p, [status |-> "PENDING", published |-> FALSE, approvedBy |-> FALSE, active |-> TRUE,
                 featured |-> FALSE, vendor |-> call[w].vendor, bornIn |-> call[w].category])
    /\ Return(w)
    /\ UNCHANGED <<vendors, category, cache, answer, admitted>>

ApproveProduct(p, yes) ==
    /\ product[p].status # "NONE"
    /\ Write(p, [product[p] EXCEPT !.status = IF yes THEN "APPROVED" ELSE "REJECTED",
                                   !.published = yes, !.approvedBy = yes])
    /\ UNCHANGED <<vendors, category, cache, call, answer, admitted>>

FeatureProduct(p, yes) ==
    /\ product[p].status # "NONE"
    /\ Write(p, [product[p] EXCEPT !.featured = yes])
    /\ UNCHANGED <<vendors, category, cache, call, answer, admitted>>

(* The owner's update may set isActive, isFeatured and the category (see   *)
(* bornIn); remove clears isActive.  The vendor's approval and the new     *)
(* category are not looked at.                                             *)
UpdateProduct(p, active, featured) ==
    /\ product[p].status # "NONE"
    /\ role[product[p].vendor] = "VENDOR"
    /\ Write(p, [product[p] EXCEPT !.active = active, !.featured = featured])
    /\ UNCHANGED <<vendors, category, cache, call, answer, admitted>>

-----------------------------------------------------------------------------
(* getFeatured, and time.                                                  *)

(* Mutant: the page is answered whatever its age.                          *)
ServeCachedAnyAge(n) ==
    /\ cache[n].page # {}
    /\ answer' = cache[n].page
    /\ UNCHANGED <<vendors, category, offers, cache, call, admitted>>

ServeCached(n) ==
    /\ cache[n].left > 0
    /\ answer' = cache[n].page
    /\ UNCHANGED <<vendors, category, offers, cache, call, admitted>>

QueryBegin(w, n) ==
    /\ cache[n].left = 0
    /\ Accept(w, [Idle EXCEPT !.op = "featured", !.pc = "query", !.process = n])
    /\ UNCHANGED <<vendors, category, offers, cache, answer, admitted>>

QueryRows(w) ==
    /\ IsAt(w, "featured", "query")
    /\ call' = [call EXCEPT ![w].pc = "store", ![w].rows = {p \in Products : OnOffer(product[p])}]
    /\ UNCHANGED <<vendors, category, offers, cache, answer, admitted>>

(* The entry's life starts now, not at the query; an entry that another    *)
(* request stored meanwhile is replaced.                                   *)
Store(w) ==
    /\ IsAt(w, "featured", "store")
    /\ cache' = [cache EXCEPT ![call[w].process] = [page |-> call[w].rows, left |-> TTL]]
    /\ answer' = call[w].rows
    /\ Return(w)
    /\ UNCHANGED <<vendors, category, offers, admitted>>

(* Mutant: the life of an entry that has none left goes on falling.        *)
TickUnder ==
    /\ cache' = [n \in Processes |-> [cache[n] EXCEPT !.left = cache[n].left - 1]]
    /\ answer' = {}
    /\ UNCHANGED <<vendors, category, offers, call, admitted>>

(* Time passes, but not beyond what a query may take.                      *)
Tick ==
    /\ \A w \in Workers : IsAt(w, "featured", "store") => call[w].waited < Latency
    /\ cache' = [n \in Processes |->
                    [cache[n] EXCEPT !.left = IF cache[n].left > 0 THEN cache[n].left - 1 ELSE 0]]
    /\ call' = [w \in Workers |->
                   IF IsAt(w, "featured", "store")
                   THEN [call[w] EXCEPT !.waited = call[w].waited + 1] ELSE call[w]]
    /\ age' = [p \in Products |->
                  IF OnOffer(product[p]) THEN 0 ELSE IF age[p] < Stale THEN age[p] + 1 ELSE Stale]
    /\ answer' = {}
    /\ UNCHANGED <<vendors, category, product, admitted>>

(* The requests of the workers in lost end where they are.                 *)
BreakOff(lost) ==
    /\ call' = [w \in Workers |-> IF w \in lost THEN Idle ELSE call[w]]
    /\ unseated' = unseated \cup
          {v \in Vendors : role[v] # "VENDOR" /\ \E w \in lost : IsAt(w, "approve", "role") /\ call[w].vendor = v}
    /\ UNCHANGED <<approval, role, category, offers, answer, admitted>>

(* An await throws.                                                        *)
Fail(w) == call[w] # Idle /\ BreakOff({w}) /\ UNCHANGED cache

(* Process n restarts: its cache and its requests are gone.                *)
Crash(n) ==
    /\ BreakOff({w \in Workers : call[w].process = n})
    /\ cache' = [cache EXCEPT ![n] = NoEntry]

-----------------------------------------------------------------------------
AdminStep ==
    \/ \E v \in Vendors : RejectVendor(v) \/ \E r \in Role : ChangeUserRole(v, r)
    \/ \E w \in Workers, n \in Processes, v \in Vendors : ApproveVendorRow(w, n, v)
    \/ \E w \in Workers : ApproveVendorRole(w)
    \/ \E c \in Categories, yes \in BOOLEAN : CreateCategory(c, yes) \/ SetCategory(c, yes)
    \/ \E p \in Products, yes \in BOOLEAN : ApproveProduct(p, yes) \/ FeatureProduct(p, yes)

VendorStep ==
    \/ \E v \in Vendors : Onboard(v)
    \/ \E w \in Workers, n \in Processes, v \in Vendors, c \in Categories : CreateBegin(w, n, v, c)
    \/ \E w \in Workers : CreateReadVendor(w) \/ CreateReadCategory(w)
    \/ \E w \in Workers, p \in Products : CreateInsert(w, p)
    \/ \E p \in Products, active, featured \in BOOLEAN : UpdateProduct(p, active, featured)

CustomerStep ==
    \/ \E n \in Processes : ServeCached(n)
    \/ \E w \in Workers, n \in Processes : QueryBegin(w, n)
    \/ \E w \in Workers : QueryRows(w) \/ Store(w)

Next ==
    \/ AdminStep
    \/ VendorStep
    \/ CustomerStep
    \/ Tick
    \/ \E w \in Workers : Fail(w)
    \/ \E n \in Processes : Crash(n)

Spec == Init /\ [][Next]_vars

-----------------------------------------------------------------------------
(* Properties.                                                             *)

(* Rows, caches and requests have their types.                             *)
TypeOK ==
    /\ approval \in [Vendors -> Approval]
    /\ role \in [Vendors -> Role]
    /\ category \in [Categories -> {"NONE", "INACTIVE", "ACTIVE"}]
    /\ product \in [Products -> ProductRow]
    /\ cache \in [Processes -> CacheEntry]
    /\ call \in [Workers -> Calls]
    /\ age \in [Products -> 0..Stale]
    /\ answer \in SUBSET Products
    /\ admitted \in SUBSET (Vendors \cup Categories)
    /\ unseated \in SUBSET Vendors

(* Whatever processes, overlapping queries, late stores and restarts do, a *)
(* product that getFeatured shows was on offer less than a cache life and  *)
(* a query ago: nobody clears the caches, but a page that was read late    *)
(* cannot keep a withdrawn product alive from one cache life to the next.  *)
FeaturedFresh == \A p \in answer : age[p] < Stale

(* A product in the public list passed every desk, though each was asked   *)
(* in another statement, long before: an admin's name is on it, its vendor *)
(* was approved and its category active at some time.                      *)
ListedIsVetted ==
    \A p \in Products : Listed(product[p]) =>
        /\ product[p].approvedBy
        /\ product[p].vendor \in admitted
        /\ product[p].bornIn \in admitted

Approving(v) == \E w \in Workers : IsAt(w, "approve", "role") /\ call[w].vendor = v

(* An approved vendor has the role that lets it sell, or its approval is   *)
(* under way, or broke off, or someone took the role away: concurrent      *)
(* approvals and rejections do not lose it.                                *)
ApprovedCanSell ==
    \A v \in Vendors :
        approval[v] = "APPROVED" => role[v] = "VENDOR" \/ Approving(v) \/ v \in unseated
===========================================================================
