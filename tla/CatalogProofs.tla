---------------------------- MODULE CatalogProofs ----------------------------
(***************************************************************************)
(* Theorems about Catalog, for any vendors, categories, products,          *)
(* processes, workers, life of a cache entry and query latency.            *)
(***************************************************************************)
EXTENDS Catalog, TLAPS

(* What is written of a product row is a product row, and its age a number *)
(* of ticks.                                                               *)
LEMMA WriteType ==
    ASSUME product \in [Products -> ProductRow], age \in [Products -> 0..Stale],
           NEW p \in Products, NEW row \in ProductRow, Write(p, row)
    PROVE  product' \in [Products -> ProductRow] /\ age' \in [Products -> 0..Stale]
  BY TimesAssumption DEF Write, Stale

(* No request is a request.                                                *)
LEMMA IdleType == Idle \in Calls
  BY TimesAssumption DEF Idle, Calls

(* A request that goes on, ends or begins is a request.                    *)
LEMMA CallType ==
    ASSUME call \in [Workers -> Calls], NEW w \in Workers
    PROVE  /\ Return(w) => call' \in [Workers -> Calls]
           /\ \A request \in Calls : Accept(w, request) => call' \in [Workers -> Calls]
           /\ \A pc \in {"vendor", "category", "insert", "role", "query", "store"} :
                 Goto(w, pc) => call' \in [Workers -> Calls]
<1>1. Idle \in Calls
  BY IdleType
<1>2. ASSUME NEW pc \in {"vendor", "category", "insert", "role", "query", "store"}
      PROVE  [call[w] EXCEPT !.pc = pc] \in Calls
  BY DEF Calls
<1>3. ASSUME NEW pc \in {"vendor", "category", "insert", "role", "query", "store"}, Goto(w, pc)
      PROVE  call' \in [Workers -> Calls]
  <2>1. call' = [call EXCEPT ![w] = [call[w] EXCEPT !.pc = pc]]
    BY <1>3 DEF Goto
  <2> QED BY <2>1, <1>2
<1> QED BY <1>1, <1>3 DEF Return, Accept

(* Every step of an admin keeps the types.                                 *)
LEMMA AdminType == TypeOK /\ AdminStep => TypeOK'
<1> SUFFICES ASSUME TypeOK, AdminStep PROVE TypeOK'
  OBVIOUS
<1>1. ASSUME NEW v \in Vendors, RejectVendor(v) PROVE TypeOK'
  BY <1>1 DEF TypeOK, RejectVendor, Approval, offers
<1>2. ASSUME NEW v \in Vendors, NEW r \in Role, ChangeUserRole(v, r) PROVE TypeOK'
  BY <1>2 DEF TypeOK, ChangeUserRole, offers
<1>3. ASSUME NEW w \in Workers, NEW n \in Processes, NEW v \in Vendors, ApproveVendorRow(w, n, v)
      PROVE TypeOK'
  <2>1. [Idle EXCEPT !.op = "approve", !.pc = "role", !.process = n, !.vendor = v] \in Calls
    BY IdleType DEF Calls
  <2>2. call' \in [Workers -> Calls]
    BY <1>3, <2>1, CallType DEF TypeOK, ApproveVendorRow
  <2> QED BY <1>3, <2>2 DEF TypeOK, ApproveVendorRow, Approval, offers
<1>4. ASSUME NEW w \in Workers, ApproveVendorRole(w) PROVE TypeOK'
  <2>1. call' \in [Workers -> Calls]
    BY <1>4, CallType DEF TypeOK, ApproveVendorRole
  <2> QED BY <1>4, <2>1 DEF TypeOK, ApproveVendorRole, Role, offers
<1>5. ASSUME NEW c \in Categories, NEW yes \in BOOLEAN, CreateCategory(c, yes) \/ SetCategory(c, yes)
      PROVE TypeOK'
  BY <1>5 DEF TypeOK, CreateCategory, SetCategory, vendors, offers
<1>6. ASSUME NEW p \in Products, NEW yes \in BOOLEAN, ApproveProduct(p, yes) PROVE TypeOK'
  <2>1. [product[p] EXCEPT !.status = IF yes THEN "APPROVED" ELSE "REJECTED",
                           !.published = yes, !.approvedBy = yes] \in ProductRow
    BY DEF TypeOK, ProductRow, Approval
  <2> QED BY <1>6, <2>1, WriteType DEF TypeOK, ApproveProduct, vendors
<1>7. ASSUME NEW p \in Products, NEW yes \in BOOLEAN, FeatureProduct(p, yes) PROVE TypeOK'
  <2>1. [product[p] EXCEPT !.featured = yes] \in ProductRow
    BY DEF TypeOK, ProductRow
  <2> QED BY <1>7, <2>1, WriteType DEF TypeOK, FeatureProduct, vendors
<1> QED BY <1>1, <1>2, <1>3, <1>4, <1>5, <1>6, <1>7 DEF AdminStep

(* So does every step of a vendor.                                         *)
LEMMA VendorType == TypeOK /\ VendorStep => TypeOK'
<1> SUFFICES ASSUME TypeOK, VendorStep PROVE TypeOK'
  OBVIOUS
<1>1. ASSUME NEW v \in Vendors, Onboard(v) PROVE TypeOK'
  BY <1>1 DEF TypeOK, Onboard, Approval, offers
<1>2. ASSUME NEW w \in Workers, NEW n \in Processes, NEW v \in Vendors, NEW c \in Categories,
             CreateBegin(w, n, v, c)
      PROVE TypeOK'
  <2>1. [Idle EXCEPT !.op = "create", !.pc = "vendor", !.process = n, !.vendor = v, !.category = c]
           \in Calls
    BY IdleType DEF Calls
  <2>2. call' \in [Workers -> Calls]
    BY <1>2, <2>1, CallType DEF TypeOK, CreateBegin
  <2> QED BY <1>2, <2>2 DEF TypeOK, CreateBegin, vendors, offers
<1>3. ASSUME NEW w \in Workers, CreateReadVendor(w) \/ CreateReadCategory(w) PROVE TypeOK'
  <2>1. call' \in [Workers -> Calls]
    BY <1>3, CallType DEF TypeOK, CreateReadVendor, CreateReadCategory
  <2> QED BY <1>3, <2>1 DEF TypeOK, CreateReadVendor, CreateReadCategory, vendors, offers
<1>4. ASSUME NEW w \in Workers, NEW p \in Products, CreateInsert(w, p) PROVE TypeOK'
  <2>1. call[w].vendor \in Vendors \cup {None} /\ call[w].category \in Categories \cup {None}
    BY DEF TypeOK, Calls
  <2>2. [status |-> "PENDING", published |-> FALSE, approvedBy |-> FALSE, active |-> TRUE,
         featured |-> FALSE, vendor |-> call[w].vendor, bornIn |-> call[w].category] \in ProductRow
    BY <2>1 DEF ProductRow, Approval
  <2>3. call' \in [Workers -> Calls]
    BY <1>4, CallType DEF TypeOK, CreateInsert
  <2> QED BY <1>4, <2>2, <2>3, WriteType DEF TypeOK, CreateInsert, vendors
<1>5. ASSUME NEW p \in Products, NEW active \in BOOLEAN, NEW featured \in BOOLEAN,
             UpdateProduct(p, active, featured)
      PROVE TypeOK'
  <2>1. [product[p] EXCEPT !.active = active, !.featured = featured] \in ProductRow
    BY DEF TypeOK, ProductRow
  <2> QED BY <1>5, <2>1, WriteType DEF TypeOK, UpdateProduct, vendors
<1> QED BY <1>1, <1>2, <1>3, <1>4, <1>5 DEF VendorStep

(* And the list of featured products, time and failures.                   *)
LEMMA CacheType ==
    TypeOK /\ (CustomerStep \/ Tick \/ (\E w \in Workers : Fail(w)) \/ \E n \in Processes : Crash(n))
      => TypeOK'
<1> USE TimesAssumption
<1>1. ASSUME TypeOK, NEW n \in Processes, ServeCached(n) PROVE TypeOK'
  BY <1>1 DEF TypeOK, ServeCached, CacheEntry, vendors, offers
<1>2. ASSUME TypeOK, NEW w \in Workers, NEW n \in Processes, QueryBegin(w, n) PROVE TypeOK'
  <2>1. [Idle EXCEPT !.op = "featured", !.pc = "query", !.process = n] \in Calls
    BY IdleType DEF Calls
  <2>2. call' \in [Workers -> Calls]
    BY <1>2, <2>1, CallType DEF TypeOK, QueryBegin
  <2> QED BY <1>2, <2>2 DEF TypeOK, QueryBegin, vendors, offers
<1>3. ASSUME TypeOK, NEW w \in Workers, QueryRows(w) PROVE TypeOK'
  <2> DEFINE rows == {p \in Products : OnOffer(product[p])}
  <2>1. [call[w] EXCEPT !.pc = "store", !.rows = rows] \in Calls
    BY <1>3 DEF TypeOK, Calls
  <2>2. call' = [call EXCEPT ![w] = [call[w] EXCEPT !.pc = "store", !.rows = rows]]
    BY <1>3 DEF QueryRows
  <2>3. call' \in [Workers -> Calls]
    BY <1>3, <2>1, <2>2 DEF TypeOK
  <2> QED BY <1>3, <2>3 DEF TypeOK, QueryRows, vendors, offers
<1>4. ASSUME TypeOK, NEW w \in Workers, Store(w) PROVE TypeOK'
  <2>1. call[w].rows \in SUBSET Products
    BY <1>4 DEF TypeOK, Calls
  <2>2. [page |-> call[w].rows, left |-> TTL] \in CacheEntry
    BY <2>1 DEF CacheEntry
  <2>3. cache' \in [Processes -> CacheEntry]
    BY <1>4, <2>2 DEF TypeOK, Store
  <2>4. call' \in [Workers -> Calls]
    BY <1>4, CallType DEF TypeOK, Store
  <2> QED BY <1>4, <2>1, <2>3, <2>4 DEF TypeOK, Store, vendors, offers
<1>5. ASSUME TypeOK, Tick PROVE TypeOK'
  <2>1. \A n \in Processes :
           [cache[n] EXCEPT !.left = IF cache[n].left > 0 THEN cache[n].left - 1 ELSE 0] \in CacheEntry
    BY <1>5 DEF TypeOK, CacheEntry
  <2>2. cache' \in [Processes -> CacheEntry]
    BY <1>5, <2>1 DEF Tick
  <2>3. ASSUME NEW w \in Workers, IsAt(w, "featured", "store")
        PROVE  [call[w] EXCEPT !.waited = call[w].waited + 1] \in Calls
    <3>1. call[w] \in Calls /\ call[w].waited < Latency
      BY <1>5, <2>3 DEF TypeOK, Tick
    <3>2. call[w].waited + 1 \in 0..Latency
      BY <3>1 DEF Calls
    <3> QED BY <3>1, <3>2 DEF Calls
  <2>4. call' \in [Workers -> Calls]
    BY <1>5, <2>3 DEF Tick, TypeOK
  <2>5. age' \in [Products -> 0..Stale]
    BY <1>5 DEF TypeOK, Tick, Stale
  <2> QED BY <1>5, <2>2, <2>4, <2>5 DEF TypeOK, Tick, vendors
<1>6. ASSUME TypeOK, NEW lost \in SUBSET Workers, BreakOff(lost)
      PROVE /\ call' \in [Workers -> Calls]
            /\ unseated' \in SUBSET Vendors
  BY <1>6, IdleType DEF TypeOK, BreakOff
<1>7. ASSUME TypeOK, NEW w \in Workers, Fail(w) PROVE TypeOK'
  <2>1. {w} \in SUBSET Workers /\ BreakOff({w})
    BY <1>7 DEF Fail
  <2>2. call' \in [Workers -> Calls] /\ unseated' \in SUBSET Vendors
    BY <2>1, <1>6, <1>7
  <2> QED BY <1>7, <2>2 DEF TypeOK, Fail, BreakOff, offers
<1>8. ASSUME TypeOK, NEW n \in Processes, Crash(n) PROVE TypeOK'
  <2> DEFINE lost == {w \in Workers : call[w].process = n}
  <2>1. lost \in SUBSET Workers /\ BreakOff(lost)
    BY <1>8 DEF Crash
  <2>2. call' \in [Workers -> Calls] /\ unseated' \in SUBSET Vendors
    BY <2>1, <1>6, <1>8
  <2>3. NoEntry \in CacheEntry
    BY DEF NoEntry, CacheEntry
  <2> QED BY <1>8, <2>2, <2>3 DEF TypeOK, Crash, BreakOff, offers
<1> QED BY <1>1, <1>2, <1>3, <1>4, <1>5, <1>7, <1>8 DEF CustomerStep

(* Every state has the declared types: rows of vendors, categories and     *)
(* products, cache entries, requests and ages.                             *)
THEOREM TypeCorrect == Spec => []TypeOK
<1>1. Init => TypeOK
  BY TimesAssumption
     DEF Init, TypeOK, Approval, Role, ProductRow, NoProduct, CacheEntry, NoEntry, Calls, Idle, Stale
<1>2. TypeOK /\ [Next]_vars => TypeOK'
  <2>1. TypeOK /\ UNCHANGED vars => TypeOK'
    BY DEF TypeOK, vars, vendors, offers
  <2> QED BY <2>1, AdminType, VendorType, CacheType DEF Next
<1> QED BY <1>1, <1>2, PTL DEF Spec

-----------------------------------------------------------------------------
(* Who passed which desk.                                                  *)

(* Inductive for ListedIsVetted: what a create request has read, and what  *)
(* any product row names, was admitted, since admissions are not undone.   *)
Vetted ==
    /\ \A v \in Vendors : approval[v] = "APPROVED" => v \in admitted
    /\ \A c \in Categories : category[c] = "ACTIVE" => c \in admitted
    /\ \A w \in Workers :
          /\ call[w].op = "create" => call[w].vendor \in Vendors /\ call[w].category \in Categories
          /\ IsAt(w, "create", "category") \/ IsAt(w, "create", "insert") => call[w].vendor \in admitted
          /\ IsAt(w, "create", "insert") => call[w].category \in admitted
    /\ \A p \in Products : product[p].status # "NONE" =>
          /\ product[p].vendor \in admitted
          /\ product[p].bornIn \in admitted
          /\ product[p].status = "APPROVED" => product[p].approvedBy

(* Writing a row that names what is admitted keeps Vetted.                 *)
LEMMA WriteVetted ==
    ASSUME TypeOK, Vetted, NEW p \in Products, NEW row \in ProductRow, Write(p, row),
           row.status # "NONE",
           row.vendor \in admitted, row.bornIn \in admitted, row.status = "APPROVED" => row.approvedBy,
           UNCHANGED <<approval, category, admitted>>, call' = call \/ \E w \in Workers : Return(w)
    PROVE  Vetted'
<1>1. ASSUME NEW q \in Products
      PROVE  product'[q] = IF q = p THEN row ELSE product[q]
  BY DEF Write, TypeOK
<1>2. ASSUME NEW x \in Workers
      PROVE  call'[x] = call[x] \/ call'[x] = Idle
  BY DEF Return, TypeOK
<1> QED BY <1>1, <1>2 DEF Vetted, IsAt, Idle

(* Every step keeps Vetted.                                                *)
LEMMA VettedStep == TypeOK /\ Vetted /\ [Next]_vars => Vetted'
<1> SUFFICES ASSUME TypeOK, Vetted, [Next]_vars PROVE Vetted'
  OBVIOUS
<1>1. CASE UNCHANGED vars
  BY <1>1 DEF vars, vendors, offers, Vetted, IsAt
<1>2. ASSUME NEW v \in Vendors, Onboard(v) \/ RejectVendor(v) PROVE Vetted'
  BY <1>2 DEF Onboard, RejectVendor, Vetted, TypeOK, offers, IsAt
<1>3. ASSUME NEW v \in Vendors, NEW r \in Role, ChangeUserRole(v, r) PROVE Vetted'
  BY <1>3 DEF ChangeUserRole, Vetted, offers, IsAt
<1>4. ASSUME NEW w \in Workers, NEW n \in Processes, NEW v \in Vendors, ApproveVendorRow(w, n, v)
      PROVE Vetted'
  <2>1. \A x \in Workers : x # w => call'[x] = call[x]
    BY <1>4 DEF ApproveVendorRow, Accept, TypeOK
  <2>2. call'[w].op = "approve"
    BY <1>4 DEF ApproveVendorRow, Accept, Idle, TypeOK
  <2> QED BY <1>4, <2>1, <2>2 DEF ApproveVendorRow, Vetted, TypeOK, offers, IsAt
<1>5. ASSUME NEW w \in Workers, ApproveVendorRole(w) PROVE Vetted'
  BY <1>5 DEF ApproveVendorRole, Return, Vetted, TypeOK, offers, IsAt, Idle
<1>6. ASSUME NEW c \in Categories, NEW yes \in BOOLEAN, CreateCategory(c, yes) \/ SetCategory(c, yes)
      PROVE Vetted'
  BY <1>6 DEF CreateCategory, SetCategory, Vetted, TypeOK, vendors, offers, IsAt
<1>7. ASSUME NEW p \in Products, NEW yes \in BOOLEAN, ApproveProduct(p, yes) PROVE Vetted'
  <2> DEFINE row == [product[p] EXCEPT !.status = IF yes THEN "APPROVED" ELSE "REJECTED",
                                       !.published = yes, !.approvedBy = yes]
  <2> product[p] \in ProductRow
    BY DEF TypeOK
  <2>1. row \in ProductRow /\ row.vendor = product[p].vendor /\ row.bornIn = product[p].bornIn
    BY DEF ProductRow, Approval
  <2>2. row.status # "NONE" /\ (row.status = "APPROVED" => row.approvedBy)
    BY DEF ProductRow
  <2>3. Write(p, row) /\ product[p].status # "NONE" /\ UNCHANGED <<approval, category, admitted, call>>
    BY <1>7 DEF ApproveProduct, vendors
  <2> QED BY <2>1, <2>2, <2>3, WriteVetted DEF Vetted
<1>8. ASSUME NEW p \in Products, NEW row \in ProductRow, Write(p, row), product[p].status # "NONE",
             row.status = product[p].status, row.approvedBy = product[p].approvedBy,
             row.vendor = product[p].vendor, row.bornIn = product[p].bornIn,
             UNCHANGED <<approval, category, admitted, call>>
      PROVE Vetted'
  BY <1>8, WriteVetted DEF Vetted
<1>9. ASSUME NEW p \in Products, NEW yes \in BOOLEAN, FeatureProduct(p, yes) PROVE Vetted'
  <2> DEFINE row == [product[p] EXCEPT !.featured = yes]
  <2>1. row \in ProductRow /\ row.status = product[p].status /\ row.approvedBy = product[p].approvedBy
        /\ row.vendor = product[p].vendor /\ row.bornIn = product[p].bornIn
    BY DEF TypeOK, ProductRow
  <2>2. Write(p, row) /\ product[p].status # "NONE" /\ UNCHANGED <<approval, category, admitted, call>>
    BY <1>9 DEF FeatureProduct, vendors
  <2> QED BY <2>1, <2>2, <1>8
<1>10. ASSUME NEW p \in Products, NEW active \in BOOLEAN, NEW featured \in BOOLEAN,
              UpdateProduct(p, active, featured)
       PROVE Vetted'
  <2> DEFINE row == [product[p] EXCEPT !.active = active, !.featured = featured]
  <2>1. row \in ProductRow /\ row.status = product[p].status /\ row.approvedBy = product[p].approvedBy
        /\ row.vendor = product[p].vendor /\ row.bornIn = product[p].bornIn
    BY DEF TypeOK, ProductRow
  <2>2. Write(p, row) /\ product[p].status # "NONE" /\ UNCHANGED <<approval, category, admitted, call>>
    BY <1>10 DEF UpdateProduct, vendors
  <2> QED BY <2>1, <2>2, <1>8
<1>11. ASSUME NEW w \in Workers, NEW n \in Processes, NEW v \in Vendors, NEW c \in Categories,
              CreateBegin(w, n, v, c)
       PROVE Vetted'
  <2>1. \A x \in Workers : x # w => call'[x] = call[x]
    BY <1>11 DEF CreateBegin, Accept, TypeOK
  <2>2. call'[w].pc = "vendor" /\ call'[w].vendor = v /\ call'[w].category = c
    BY <1>11 DEF CreateBegin, Accept, Idle, TypeOK
  <2> QED BY <1>11, <2>1, <2>2 DEF CreateBegin, Vetted, vendors, offers, IsAt
<1>12. ASSUME NEW w \in Workers, CreateReadVendor(w) PROVE Vetted'
  <2>1. \A x \in Workers : x # w => call'[x] = call[x]
    BY <1>12 DEF CreateReadVendor, Goto, Return, TypeOK
  <2>2. \/ /\ approval[call[w].vendor] = "APPROVED"
           /\ call'[w] = [call[w] EXCEPT !.pc = "category"]
        \/ call'[w] = Idle
    BY <1>12 DEF CreateReadVendor, Goto, Return, TypeOK
  <2>3. CASE call'[w] = Idle
    BY <1>12, <2>1, <2>3 DEF CreateReadVendor, Vetted, vendors, offers, IsAt, Idle
  <2>4. CASE approval[call[w].vendor] = "APPROVED" /\ call'[w] = [call[w] EXCEPT !.pc = "category"]
    <3>1. call[w] \in Calls
      BY DEF TypeOK
    <3>2. call[w].vendor \in admitted
      BY <1>12, <2>4 DEF CreateReadVendor, IsAt, Vetted
    <3> QED BY <1>12, <2>1, <2>4, <3>1, <3>2 DEF CreateReadVendor, Vetted, vendors, offers, IsAt, Calls
  <2> QED BY <2>2, <2>3, <2>4
<1>13. ASSUME NEW w \in Workers, CreateReadCategory(w) PROVE Vetted'
  <2>1. \A x \in Workers : x # w => call'[x] = call[x]
    BY <1>13 DEF CreateReadCategory, Goto, Return, TypeOK
  <2>2. \/ /\ category[call[w].category] = "ACTIVE"
           /\ call'[w] = [call[w] EXCEPT !.pc = "insert"]
        \/ call'[w] = Idle
    BY <1>13 DEF CreateReadCategory, Goto, Return, TypeOK
  <2>3. CASE call'[w] = Idle
    BY <1>13, <2>1, <2>3 DEF CreateReadCategory, Vetted, vendors, offers, IsAt, Idle
  <2>4. CASE category[call[w].category] = "ACTIVE" /\ call'[w] = [call[w] EXCEPT !.pc = "insert"]
    <3>1. call[w] \in Calls
      BY DEF TypeOK
    <3>2. call[w].category \in admitted /\ call[w].vendor \in admitted
      BY <1>13, <2>4 DEF CreateReadCategory, IsAt, Vetted
    <3> QED BY <1>13, <2>1, <2>4, <3>1, <3>2 DEF CreateReadCategory, Vetted, vendors, offers, IsAt, Calls
  <2> QED BY <2>2, <2>3, <2>4
<1>14. ASSUME NEW w \in Workers, NEW p \in Products, CreateInsert(w, p) PROVE Vetted'
  <2> DEFINE row == [status |-> "PENDING", published |-> FALSE, approvedBy |-> FALSE, active |-> TRUE,
                     featured |-> FALSE, vendor |-> call[w].vendor, bornIn |-> call[w].category]
  <2>1. call[w].vendor \in Vendors \cap admitted /\ call[w].category \in Categories \cap admitted
    BY <1>14 DEF CreateInsert, IsAt, Vetted
  <2>2. row \in ProductRow
    BY <2>1 DEF ProductRow, Approval
  <2>3. Write(p, row) /\ Return(w) /\ UNCHANGED <<approval, category, admitted>>
    BY <1>14 DEF CreateInsert, vendors
  <2>4. row.status = "PENDING" /\ row.vendor \in admitted /\ row.bornIn \in admitted
    BY <2>1
  <2> HIDE DEF row
  <2> QED BY <2>2, <2>3, <2>4, WriteVetted
<1>15. ASSUME NEW n \in Processes, ServeCached(n) PROVE Vetted'
  BY <1>15 DEF ServeCached, Vetted, vendors, offers, IsAt
<1>16. ASSUME NEW w \in Workers, NEW n \in Processes, QueryBegin(w, n) PROVE Vetted'
  <2>1. \A x \in Workers : x # w => call'[x] = call[x]
    BY <1>16 DEF QueryBegin, Accept, TypeOK
  <2>2. call'[w].op = "featured"
    BY <1>16 DEF QueryBegin, Accept, Idle, TypeOK
  <2> QED BY <1>16, <2>1, <2>2 DEF QueryBegin, Vetted, vendors, offers, IsAt
<1>17. ASSUME NEW w \in Workers, QueryRows(w) PROVE Vetted'
  <2>1. \A x \in Workers : x # w => call'[x] = call[x]
    BY <1>17 DEF QueryRows, TypeOK
  <2>2. call'[w].op = "featured"
    BY <1>17 DEF QueryRows, IsAt, TypeOK, Calls
  <2>3. UNCHANGED <<approval, category, product, admitted>>
    BY <1>17 DEF QueryRows, vendors, offers
  <2> QED BY <2>1, <2>2, <2>3 DEF Vetted, IsAt
<1>18. ASSUME NEW w \in Workers, Store(w) PROVE Vetted'
  BY <1>18 DEF Store, Return, Vetted, TypeOK, vendors, offers, IsAt, Idle
<1>19. CASE Tick
  <2>1. \A w \in Workers : /\ call'[w].op = call[w].op /\ call'[w].pc = call[w].pc
                           /\ call'[w].vendor = call[w].vendor /\ call'[w].category = call[w].category
    BY <1>19 DEF Tick, TypeOK, Calls
  <2> QED BY <1>19, <2>1 DEF Tick, Vetted, vendors, IsAt
<1>20. ASSUME NEW lost \in SUBSET Workers, BreakOff(lost) PROVE Vetted'
  BY <1>20 DEF BreakOff, Vetted, TypeOK, offers, IsAt, Idle
<1>21. ASSUME NEW w \in Workers, Fail(w) PROVE Vetted'
  BY <1>21, <1>20, {w} \in SUBSET Workers DEF Fail
<1>22. ASSUME NEW n \in Processes, Crash(n) PROVE Vetted'
  BY <1>22, <1>20, {w \in Workers : call[w].process = n} \in SUBSET Workers DEF Crash
<1> QED
  BY <1>1, <1>2, <1>3, <1>4, <1>5, <1>6, <1>7, <1>9, <1>10, <1>11, <1>12, <1>13, <1>14, <1>15,
     <1>16, <1>17, <1>18, <1>19, <1>21, <1>22
     DEF Next, AdminStep, VendorStep, CustomerStep

(* A listed product has an approver, and its vendor and the category it    *)
(* was created in were admitted, whatever happened between the statements  *)
(* that asked.                                                             *)
THEOREM ListedAreVetted == Spec => []ListedIsVetted
<1>1. Init => Vetted
  BY DEF Init, Vetted, NoProduct, Idle, IsAt
<1>2. Vetted => ListedIsVetted
  BY DEF Vetted, ListedIsVetted, Listed
<1> QED BY <1>1, <1>2, VettedStep, TypeCorrect, PTL DEF Spec

-----------------------------------------------------------------------------
(* How old what is shown may be.                                           *)

(* Inductive for FeaturedFresh: age and life left of what is cached add up *)
(* to at most Stale, and what a query has in hand is no older than the     *)
(* time it has been waiting.                                               *)
Fresh ==
    /\ \A p \in answer : age[p] < Stale
    /\ \A p \in Products : OnOffer(product[p]) => age[p] = 0
    /\ \A n \in Processes : cache[n].left > 0 => \A p \in cache[n].page : age[p] + cache[n].left <= Stale
    /\ \A w \in Workers : IsAt(w, "featured", "store") => \A p \in call[w].rows : age[p] <= call[w].waited

(* A step that ages nothing, and adds nothing to a cache, an answer or     *)
(* what queries hold, keeps Fresh.                                         *)
LEMMA FreshKept ==
    ASSUME TypeOK, TypeOK', Fresh, answer' = answer,
           \A p \in Products : age'[p] <= age[p] /\ (OnOffer(product'[p]) => age'[p] = 0),
           \A n \in Processes : cache'[n] = cache[n] \/ cache'[n] = NoEntry,
           \A w \in Workers : call'[w] = call[w] \/ call'[w].pc # "store"
    PROVE  Fresh'
<1>1. \A p \in Products : age[p] \in 0..Stale /\ age'[p] \in 0..Stale
  BY DEF TypeOK
<1>2. Stale \in Nat
  BY TimesAssumption DEF Stale
<1>3. (\A p \in answer : age[p] < Stale)'
  BY <1>1, <1>2 DEF Fresh, TypeOK
<1>4. (\A p \in Products : OnOffer(product[p]) => age[p] = 0)'
  OBVIOUS
<1>5. ASSUME NEW n \in Processes, cache'[n].left > 0, NEW p \in cache'[n].page
      PROVE  age'[p] + cache'[n].left <= Stale
  <2>1. cache'[n] = cache[n]
    BY <1>5 DEF NoEntry
  <2>2. cache[n].left \in 0..TTL /\ p \in Products
    BY <1>5, <2>1 DEF TypeOK, CacheEntry
  <2>3. age[p] + cache[n].left <= Stale
    BY <1>5, <2>1 DEF Fresh
  <2> QED BY <1>1, <1>2, <2>1, <2>2, <2>3, TimesAssumption
<1>6. ASSUME NEW w \in Workers, IsAt(w, "featured", "store")', NEW p \in call'[w].rows
      PROVE  age'[p] <= call'[w].waited
  <2>1. call'[w] = call[w]
    BY <1>6 DEF IsAt
  <2>2. call[w].waited \in 0..Latency /\ p \in Products
    BY <1>6, <2>1 DEF TypeOK, Calls
  <2>3. age[p] <= call[w].waited
    BY <1>6, <2>1 DEF Fresh, IsAt
  <2> QED BY <1>1, <2>1, <2>2, <2>3, TimesAssumption
<1> QED BY <1>3, <1>4, <1>5, <1>6 DEF Fresh

(* Writing a product row keeps Fresh.                                      *)
LEMMA WriteFresh ==
    ASSUME TypeOK, TypeOK', Fresh, NEW p \in Products, NEW row, Write(p, row),
           UNCHANGED <<answer, cache>>, \A w \in Workers : call'[w] = call[w] \/ call'[w].pc # "store"
    PROVE  Fresh'
<1>1. ASSUME NEW q \in Products
      PROVE  age'[q] <= age[q] /\ (OnOffer(product'[q]) => age'[q] = 0)
  <2>1. age[q] \in Nat
    BY TimesAssumption DEF TypeOK, Stale
  <2>2. CASE q = p
    BY <2>1, <2>2 DEF Write, TypeOK
  <2>3. CASE q # p
    BY <2>1, <2>3 DEF Write, TypeOK, Fresh
  <2> QED BY <2>2, <2>3
<1> QED BY <1>1, FreshKept

(* Every step keeps Fresh.                                                 *)
LEMMA FreshStep == TypeOK /\ TypeOK' /\ Fresh /\ [Next]_vars => Fresh'
<1> SUFFICES ASSUME TypeOK, TypeOK', Fresh, [Next]_vars PROVE Fresh'
  OBVIOUS
<1>1. ASSUME UNCHANGED <<offers, answer>>,
             \A n \in Processes : cache'[n] = cache[n] \/ cache'[n] = NoEntry,
             \A w \in Workers : call'[w] = call[w] \/ call'[w].pc # "store"
      PROVE  Fresh'
  <2>1. \A p \in Products : age[p] \in Nat
    BY TimesAssumption DEF TypeOK, Stale
  <2> QED BY <1>1, <2>1, FreshKept DEF offers, Fresh
<1>2. CASE UNCHANGED vars
  BY <1>1, <1>2 DEF vars
<1>3. CASE AdminStep
  <2>1. ASSUME NEW p \in Products, NEW yes \in BOOLEAN, ApproveProduct(p, yes) \/ FeatureProduct(p, yes)
        PROVE  Fresh'
    BY <2>1, WriteFresh DEF ApproveProduct, FeatureProduct
  <2>2. ASSUME NEW w \in Workers, NEW n \in Processes, NEW v \in Vendors, ApproveVendorRow(w, n, v)
        PROVE  Fresh'
    BY <2>2, <1>1 DEF ApproveVendorRow, Accept, Idle, TypeOK
  <2>3. ASSUME NEW w \in Workers, ApproveVendorRole(w) PROVE Fresh'
    BY <2>3, <1>1 DEF ApproveVendorRole, Return, Idle, TypeOK
  <2>4. ASSUME NEW v \in Vendors, RejectVendor(v) \/ \E r \in Role : ChangeUserRole(v, r) PROVE Fresh'
    BY <2>4, <1>1 DEF RejectVendor, ChangeUserRole
  <2>5. ASSUME NEW c \in Categories, NEW yes \in BOOLEAN, CreateCategory(c, yes) \/ SetCategory(c, yes)
        PROVE  Fresh'
    BY <2>5, <1>1 DEF CreateCategory, SetCategory
  <2> QED BY <1>3, <2>1, <2>2, <2>3, <2>4, <2>5 DEF AdminStep
<1>4. CASE VendorStep
  <2>1. ASSUME NEW v \in Vendors, Onboard(v) PROVE Fresh'
    BY <2>1, <1>1 DEF Onboard
  <2>2. ASSUME NEW w \in Workers, NEW n \in Processes, NEW v \in Vendors, NEW c \in Categories,
               CreateBegin(w, n, v, c)
        PROVE  Fresh'
    BY <2>2, <1>1 DEF CreateBegin, Accept, Idle, TypeOK
  <2>3. ASSUME NEW w \in Workers, CreateReadVendor(w) \/ CreateReadCategory(w) PROVE Fresh'
    <3>1. \A x \in Workers : call'[x] = call[x] \/ call'[x].pc # "store"
      BY <2>3 DEF CreateReadVendor, CreateReadCategory, Goto, Return, Idle, TypeOK, Calls
    <3> QED BY <2>3, <3>1, <1>1 DEF CreateReadVendor, CreateReadCategory
  <2>4. ASSUME NEW w \in Workers, NEW p \in Products, CreateInsert(w, p) PROVE Fresh'
    <3>1. \A x \in Workers : call'[x] = call[x] \/ call'[x].pc # "store"
      BY <2>4 DEF CreateInsert, Return, Idle, TypeOK
    <3> QED BY <2>4, <3>1, WriteFresh DEF CreateInsert
  <2>5. ASSUME NEW p \in Products, NEW active \in BOOLEAN, NEW featured \in BOOLEAN,
               UpdateProduct(p, active, featured)
        PROVE  Fresh'
    BY <2>5, WriteFresh DEF UpdateProduct
  <2> QED BY <1>4, <2>1, <2>2, <2>3, <2>4, <2>5 DEF VendorStep
<1>5. ASSUME NEW n \in Processes, ServeCached(n) PROVE Fresh'
  <2>1. ASSUME NEW p \in cache[n].page PROVE age[p] < Stale
    <3>1. cache[n].left \in 0..TTL /\ p \in Products /\ age[p] \in 0..Stale
      BY <2>1 DEF TypeOK, CacheEntry
    <3>2. age[p] + cache[n].left <= Stale /\ cache[n].left > 0
      BY <1>5, <2>1 DEF Fresh, ServeCached
    <3> QED BY <3>1, <3>2, TimesAssumption DEF Stale
  <2>2. UNCHANGED <<product, age, cache, call>> /\ answer' = cache[n].page
    BY <1>5 DEF ServeCached, offers
  <2> QED BY <2>1, <2>2 DEF Fresh, IsAt
<1>6. ASSUME NEW w \in Workers, NEW n \in Processes, QueryBegin(w, n) PROVE Fresh'
  BY <1>6, <1>1 DEF QueryBegin, Accept, Idle, TypeOK
<1>7. ASSUME NEW w \in Workers, QueryRows(w) PROVE Fresh'
  <2> DEFINE rows == {p \in Products : OnOffer(product[p])}
  <2>1. UNCHANGED <<product, age, cache, answer>>
    BY <1>7 DEF QueryRows, offers
  <2>2. call' = [call EXCEPT ![w].pc = "store", ![w].rows = rows]
    BY <1>7 DEF QueryRows
  <2>5. \A p \in rows : age[p] = 0
    BY DEF Fresh
  <2> HIDE DEF rows
  <2>3. \A x \in Workers : x # w => call'[x] = call[x]
    BY <2>2 DEF TypeOK
  <2>8. call[w] \in Calls
    BY DEF TypeOK
  <2>9. call'[w] = [call[w] EXCEPT !.pc = "store", !.rows = rows]
    BY <2>2 DEF TypeOK
  <2>4. call'[w].rows = rows /\ call'[w].waited = call[w].waited
    BY <2>8, <2>9 DEF Calls
  <2>10. call[w].waited \in Nat
    BY <2>8, TimesAssumption DEF Calls
  <2>6. \A p \in rows : age[p] <= call[w].waited
    BY <2>5, <2>10
  <2>7. \A x \in Workers : IsAt(x, "featured", "store")' => \A p \in call'[x].rows : age[p] <= call'[x].waited
    BY <2>3, <2>4, <2>6 DEF Fresh, IsAt
  <2> QED BY <2>1, <2>7 DEF Fresh
<1>8. ASSUME NEW w \in Workers, Store(w) PROVE Fresh'
  <2>1. call[w].waited \in 0..Latency /\ call[w].rows \subseteq Products
    BY DEF TypeOK, Calls
  <2>2. \A p \in call[w].rows : age[p] \in Nat /\ age[p] <= Latency
    BY <1>8, <2>1, TimesAssumption DEF Store, Fresh, TypeOK, Stale
  <2>3. UNCHANGED <<product, age>> /\ answer' = call[w].rows
    BY <1>8 DEF Store, offers
  <2>4. \A p \in answer' : age'[p] < Stale
    BY <2>2, <2>3, TimesAssumption DEF Stale
  <2>5. \A n \in Processes : cache'[n] = cache[n] \/ cache'[n] = [page |-> call[w].rows, left |-> TTL]
    BY <1>8 DEF Store, TypeOK
  <2>6. \A n \in Processes : cache'[n].left > 0 => \A p \in cache'[n].page : age[p] + cache'[n].left <= Stale
    BY <2>2, <2>5, TimesAssumption DEF Fresh, Stale
  <2>7. \A x \in Workers : call'[x] = call[x] \/ call'[x] = Idle
    BY <1>8 DEF Store, Return, TypeOK
  <2>8. \A x \in Workers : IsAt(x, "featured", "store")' => \A p \in call'[x].rows : age[p] <= call'[x].waited
    BY <2>7 DEF Fresh, IsAt, Idle
  <2> QED BY <2>3, <2>4, <2>6, <2>8 DEF Fresh
<1>9. CASE Tick
  <2>1. \A p \in Products : age[p] \in 0..Stale /\ Stale \in Nat
    BY TimesAssumption DEF TypeOK, Stale
  <2>2. \A p \in Products : age'[p] <= age[p] + 1 /\ (OnOffer(product[p]) => age'[p] = 0)
    BY <1>9, <2>1 DEF Tick
  <2>3. answer' = {} /\ product' = product
    BY <1>9 DEF Tick
  <2>4. ASSUME NEW n \in Processes, cache'[n].left > 0, NEW p \in cache'[n].page
        PROVE  age'[p] + cache'[n].left <= Stale
    <3>1. cache[n].left \in 0..TTL /\ cache[n].page \subseteq Products
      BY DEF TypeOK, CacheEntry
    <3>2. cache'[n].page = cache[n].page /\ cache'[n].left = IF cache[n].left > 0 THEN cache[n].left - 1 ELSE 0
      BY <1>9 DEF Tick, TypeOK, CacheEntry
    <3>3. cache[n].left > 0 /\ cache'[n].left = cache[n].left - 1 /\ p \in Products
      BY <2>4, <3>1, <3>2
    <3>4. age[p] + cache[n].left <= Stale
      BY <2>4, <3>2, <3>3 DEF Fresh
    <3>5. age'[p] \in 0..Stale
      BY <3>3 DEF TypeOK
    <3> QED BY <2>1, <2>2, <3>1, <3>3, <3>4, <3>5, TimesAssumption
  <2>5. ASSUME NEW w \in Workers, IsAt(w, "featured", "store")', NEW p \in call'[w].rows
        PROVE  age'[p] <= call'[w].waited
    <3>1. call[w] \in Calls
      BY DEF TypeOK
    <3>2. call'[w] = IF IsAt(w, "featured", "store")
                     THEN [call[w] EXCEPT !.waited = call[w].waited + 1] ELSE call[w]
      BY <1>9 DEF Tick
    <3>3. IsAt(w, "featured", "store")
      BY <2>5, <3>2 DEF IsAt
    <3>4. call'[w].rows = call[w].rows /\ call'[w].waited = call[w].waited + 1
      BY <3>1, <3>2, <3>3 DEF Calls
    <3>5. p \in Products /\ age[p] <= call[w].waited /\ call[w].waited \in 0..Latency
      BY <2>5, <3>1, <3>3, <3>4 DEF Fresh, Calls
    <3>6. age'[p] \in 0..Stale
      BY <3>5 DEF TypeOK
    <3> QED BY <2>1, <2>2, <3>4, <3>5, <3>6, TimesAssumption
  <2> QED BY <2>2, <2>3, <2>4, <2>5 DEF Fresh
<1>10. ASSUME NEW lost \in SUBSET Workers, BreakOff(lost),
              \A n \in Processes : cache'[n] = cache[n] \/ cache'[n] = NoEntry
       PROVE  Fresh'
  <2>1. \A x \in Workers : call'[x] = call[x] \/ call'[x].pc # "store"
    BY <1>10 DEF BreakOff, Idle
  <2> QED BY <1>10, <2>1, <1>1 DEF BreakOff
<1>11. ASSUME NEW w \in Workers, Fail(w) PROVE Fresh'
  BY <1>11, <1>10, {w} \in SUBSET Workers DEF Fail
<1>12. ASSUME NEW n \in Processes, Crash(n) PROVE Fresh'
  <2>1. \A m \in Processes : cache'[m] = cache[m] \/ cache'[m] = NoEntry
    BY <1>12 DEF Crash, TypeOK
  <2> QED BY <1>12, <1>10, <2>1, {w \in Workers : call[w].process = n} \in SUBSET Workers DEF Crash
<1> QED
  BY <1>2, <1>3, <1>4, <1>5, <1>6, <1>7, <1>8, <1>9, <1>11, <1>12 DEF Next, CustomerStep

(* getFeatured never shows a product that has been off offer for a cache   *)
(* life and a query, for any number of processes and overlapping queries.  *)
THEOREM FeaturedIsFresh == Spec => []FeaturedFresh
<1>1. Init => Fresh
  BY DEF Init, Fresh, NoProduct, OnOffer, Listed, NoEntry, Idle, IsAt
<1>2. Fresh => FeaturedFresh
  BY DEF Fresh, FeaturedFresh
<1> QED BY <1>1, <1>2, FreshStep, TypeCorrect, PTL DEF Spec

-----------------------------------------------------------------------------
(* Who may sell.                                                           *)

(* A step that writes no vendor and leaves every approval at its second    *)
(* statement where it is.                                                  *)
LEMMA SellersKept ==
    ASSUME ApprovedCanSell, UNCHANGED vendors,
           \A w \in Workers : IsAt(w, "approve", "role") => call'[w] = call[w]
    PROVE  ApprovedCanSell'
<1>1. \A v \in Vendors : Approving(v) => Approving(v)'
  BY DEF Approving, IsAt
<1> QED BY <1>1 DEF ApprovedCanSell, vendors

(* Another request goes on or ends.                                        *)
LEMMA OtherKept ==
    ASSUME TypeOK, NEW w \in Workers, ~IsAt(w, "approve", "role"),
           \E c : call' = [call EXCEPT ![w] = c]
    PROVE  \A x \in Workers : IsAt(x, "approve", "role") => call'[x] = call[x]
  BY DEF TypeOK

LEMMA SellStep == TypeOK /\ ApprovedCanSell /\ [Next]_vars => ApprovedCanSell'
<1> SUFFICES ASSUME TypeOK, ApprovedCanSell, [Next]_vars PROVE ApprovedCanSell'
  OBVIOUS
<1>1. CASE UNCHANGED <<vendors, call>>
  BY <1>1, SellersKept DEF vars
<1>2. ASSUME NEW w \in Workers, UNCHANGED vendors,
             call[w] = Idle \/ ~IsAt(w, "approve", "role"), \E c : call' = [call EXCEPT ![w] = c]
      PROVE  ApprovedCanSell'
  <2>1. ~IsAt(w, "approve", "role")
    BY <1>2 DEF Idle, IsAt
  <2> QED BY <1>2, <2>1, OtherKept, SellersKept
<1>3. ASSUME NEW w \in Workers, NEW n \in Processes, NEW v \in Vendors, ApproveVendorRow(w, n, v)
      PROVE  ApprovedCanSell'
  <2>1. call'[w].op = "approve" /\ call'[w].pc = "role" /\ call'[w].vendor = v
    BY <1>3 DEF ApproveVendorRow, Accept, Idle, TypeOK
  <2>2. \A x \in Workers : IsAt(x, "approve", "role") => call'[x] = call[x]
    BY <1>3 DEF ApproveVendorRow, Accept, Idle, TypeOK, IsAt
  <2>3. Approving(v)' /\ \A u \in Vendors : Approving(u) => Approving(u)'
    BY <2>1, <2>2 DEF Approving, IsAt
  <2>4. \A u \in Vendors : u # v => approval'[u] = approval[u]
    BY <1>3 DEF ApproveVendorRow, TypeOK
  <2> QED BY <1>3, <2>3, <2>4 DEF ApproveVendorRow, ApprovedCanSell
<1>4. ASSUME NEW w \in Workers, ApproveVendorRole(w)
      PROVE  ApprovedCanSell'
  <2> DEFINE v == call[w].vendor
  <2>1. /\ role' = [role EXCEPT ![v] = "VENDOR"] /\ unseated' = unseated \ {v} /\ UNCHANGED approval
        /\ call' = [call EXCEPT ![w] = Idle]
    BY <1>4 DEF ApproveVendorRole, Return
  <2>2. ASSUME NEW u \in Vendors, u # v
        PROVE  Approving(u) => Approving(u)'
    <3>1. ASSUME NEW x \in Workers, IsAt(x, "approve", "role"), call[x].vendor = u
          PROVE  call'[x] = call[x]
      BY <2>1, <2>2, <3>1 DEF TypeOK
    <3> QED BY <3>1 DEF Approving, IsAt
  <2>3. \A u \in Vendors : role'[u] = IF u = v THEN "VENDOR" ELSE role[u]
    BY <2>1 DEF TypeOK
  <2> HIDE DEF v
  <2> QED BY <2>1, <2>2, <2>3 DEF ApprovedCanSell
<1>5. ASSUME NEW v \in Vendors, NEW r \in Role, ChangeUserRole(v, r)
      PROVE  ApprovedCanSell'
  <2>1. \A u \in Vendors : role'[u] = IF u = v THEN r ELSE role[u]
    BY <1>5 DEF ChangeUserRole, TypeOK
  <2>2. \A u \in Vendors : Approving(u)' = Approving(u)
    BY <1>5 DEF ChangeUserRole, Approving, IsAt
  <2> QED BY <1>5, <2>1, <2>2 DEF ChangeUserRole, ApprovedCanSell
<1>6. ASSUME NEW v \in Vendors, Onboard(v) \/ RejectVendor(v)
      PROVE  ApprovedCanSell'
  <2>1. \A u \in Vendors : Approving(u)' = Approving(u) /\ (approval'[u] = "APPROVED" => approval[u] = "APPROVED")
    BY <1>6 DEF Onboard, RejectVendor, Approving, IsAt, TypeOK
  <2> QED BY <1>6, <2>1 DEF Onboard, RejectVendor, ApprovedCanSell
<1>7. ASSUME NEW lost \in SUBSET Workers, BreakOff(lost)
      PROVE  ApprovedCanSell'
  <2>1. ASSUME NEW v \in Vendors, Approving(v), ~Approving(v)', role[v] # "VENDOR"
        PROVE  v \in unseated'
    <3>1. PICK w \in Workers : IsAt(w, "approve", "role") /\ call[w].vendor = v
      BY <2>1 DEF Approving
    <3>2. w \in lost
      <4>1. CASE w \notin lost
        <5>1. call'[w] = call[w]
          BY <1>7, <4>1 DEF BreakOff
        <5> QED BY <2>1, <3>1, <5>1 DEF Approving, IsAt
      <4> QED BY <4>1
    <3> QED BY <1>7, <2>1, <3>1, <3>2 DEF BreakOff
  <2> QED BY <1>7, <2>1 DEF BreakOff, ApprovedCanSell
<1>8. ASSUME NEW w \in Workers, Fail(w)
      PROVE  ApprovedCanSell'
  BY <1>7, <1>8, {w} \in SUBSET Workers DEF Fail
<1>9. ASSUME NEW n \in Processes, Crash(n)
      PROVE  ApprovedCanSell'
  BY <1>7, <1>9, {w \in Workers : call[w].process = n} \in SUBSET Workers DEF Crash
<1>10. CASE Tick
  <2>1. \A w \in Workers : IsAt(w, "approve", "role") => call'[w] = call[w]
    BY <1>10 DEF Tick, IsAt
  <2> QED BY <1>10, <2>1, SellersKept DEF Tick
<1>11. CASE AdminStep
  BY <1>1, <1>3, <1>4, <1>5, <1>6, <1>11
     DEF AdminStep, CreateCategory, SetCategory, ApproveProduct, FeatureProduct
<1>12. ASSUME NEW w \in Workers, NEW n \in Processes, NEW v \in Vendors, NEW c \in Categories,
              CreateBegin(w, n, v, c)
       PROVE  ApprovedCanSell'
  BY <1>2, <1>12 DEF CreateBegin, Accept
<1>13. ASSUME NEW w \in Workers,
              \/ CreateReadVendor(w) \/ CreateReadCategory(w) \/ QueryRows(w) \/ Store(w)
              \/ \E p \in Products : CreateInsert(w, p)
       PROVE  ApprovedCanSell'
  <2>1. ~IsAt(w, "approve", "role") /\ UNCHANGED vendors
    BY <1>13 DEF CreateReadVendor, CreateReadCategory, QueryRows, Store, CreateInsert, IsAt
  <2>2. \E c : call' = [call EXCEPT ![w] = c]
    BY <1>13 DEF CreateReadVendor, CreateReadCategory, QueryRows, Store, CreateInsert, Goto, Return
  <2> QED BY <1>2, <2>1, <2>2
<1>14. ASSUME NEW w \in Workers, NEW n \in Processes, QueryBegin(w, n)
       PROVE  ApprovedCanSell'
  BY <1>2, <1>14 DEF QueryBegin, Accept
<1>15. CASE VendorStep
  BY <1>1, <1>6, <1>12, <1>13, <1>15 DEF VendorStep, UpdateProduct
<1>16. CASE CustomerStep
  BY <1>1, <1>13, <1>14, <1>16 DEF CustomerStep, ServeCached
<1> QED BY <1>1, <1>8, <1>9, <1>10, <1>11, <1>15, <1>16 DEF Next, vars

(* An approved vendor can sell, unless the second statement of an approval *)
(* is still to come or was lost, or the role was taken away since.         *)
THEOREM ApprovedVendorsSell == Spec => []ApprovedCanSell
<1>1. Init => ApprovedCanSell
  BY DEF Init, ApprovedCanSell
<1> QED BY <1>1, SellStep, TypeCorrect, PTL DEF Spec
=============================================================================
