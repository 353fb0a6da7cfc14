------------------------- MODULE MarketplaceProofs -------------------------
(***************************************************************************)
(* Theorems about the marketplace: Listings (ReplaysAgree, VendorNameTrue, *)
(* SalesKept), Cart (CartExact, RemovedStaysRemoved), Fitments             *)
(* (FitmentExplained) and the types of all three, for any number of        *)
(* sellers, customers, submissions, products, lines and requests in        *)
(* flight.                                                                 *)
(***************************************************************************)
EXTENDS Listings, Cart, Fitments, FiniteSetTheorems, TLAPS

------------------------------------------------------------------------------
(* Listings: the answers to a submission.                                  *)

Columns == {"client_request_id", "seller_user_id", "vendor_id", "vendor", "category"}

\* The rows have their columns, and ids are given out once.
RowsShape ==
  /\ products = [p \in ProductIds |-> products[p]]
  /\ \A p \in ProductIds : products[p] = [x \in Columns |-> products[p][x]]
  /\ usedIds \subseteq ProductIds /\ Rows \subseteq usedIds
  /\ answers \subseteq Keys \X usedIds

\* No request in flight is about to write client_request_id.
CallsShape ==
  /\ calls = [c \in Calls |-> calls[c]]
  /\ \A c \in Calls :
       /\ calls[c].op = "create" => calls[c].key \in Keys
       /\ calls[c].op = "update" => /\ calls[c].id \in ProductIds
                                    /\ "client_request_id" \notin DOMAIN calls[c].changes
       /\ calls[c].op = "delete" => calls[c].id \in ProductIds

\* No two products were made by one submission, and an answer names the product
\* of its submission.
OneProduct ==
  \A p, q \in Rows :
    /\ products[p].client_request_id = products[q].client_request_id
    /\ products[p].client_request_id \in Keys
    => p = q
AnswersTrue == \A a \in answers : a[2] \in Rows => products[a[2]].client_request_id = a[1]

ListingsInv == RowsShape /\ CallsShape /\ OneProduct /\ AnswersTrue

------------------------------------------------------------------------------
(* Lemmas.                                                                 *)

\* A flush leaves the columns it has no change for, and all columns in place.
LEMMA FlushKeeps ==
  ASSUME NEW row, row = [x \in Columns |-> row[x]],
         NEW changes, "client_request_id" \notin DOMAIN changes
  PROVE  /\ OrmFlush(row, changes) = [x \in Columns |-> OrmFlush(row, changes)[x]]
         /\ OrmFlush(row, changes).client_request_id = row.client_request_id
BY DEF OrmFlush, Columns

\* What update_product edits does not touch the submission's key.
LEMMA EditKeepsKey ==
  ASSUME NEW row, row = [x \in Columns |-> row[x]], NEW u, NEW v, NEW category
  PROVE  "client_request_id" \notin DOMAIN OrmChanges(row, Edited(u, row, v, category))
<1>1. Edited(u, row, v, category).client_request_id = row.client_request_id
  BY DEF Edited, Columns
<1> QED
  BY <1>1 DEF OrmChanges

\* A step that makes no row and no answer, and changes no key, keeps the agreement.
LEMMA NothingNew ==
  ASSUME ListingsInv, UNCHANGED <<usedIds, answers>>,
         products' = [p \in ProductIds |-> products'[p]],
         \A p \in ProductIds :
           \/ products'[p] = NoProduct
           \/ products'[p] = products[p]
           \/ /\ products[p] # NoProduct
              /\ products'[p] = [x \in Columns |-> products'[p][x]]
              /\ products'[p].client_request_id = products[p].client_request_id
  PROVE  RowsShape' /\ OneProduct' /\ AnswersTrue'
<1> USE DEF ListingsInv
<1>1. NoProduct = [x \in Columns |-> NoProduct[x]]
  BY DEF NoProduct, Columns
<1>2. \A p \in Rows' : p \in Rows /\ products'[p].client_request_id = products[p].client_request_id
  BY DEF Rows
<1>3. \A p \in ProductIds : products'[p] = [x \in Columns |-> products'[p][x]]
  BY <1>1 DEF RowsShape
<1>4. RowsShape'
  BY <1>2, <1>3 DEF RowsShape
<1>5. OneProduct' /\ AnswersTrue'
  BY <1>2 DEF OneProduct, AnswersTrue
<1> QED
  BY <1>4, <1>5

\* An unchanged state part.
LEMMA SameRows ==
  ASSUME ListingsInv, UNCHANGED <<products, usedIds, answers>>
  PROVE  RowsShape' /\ OneProduct' /\ AnswersTrue'
BY DEF ListingsInv, RowsShape, OneProduct, AnswersTrue, Rows

------------------------------------------------------------------------------
(* The steps.                                                              *)

\* A replay is answered with the product of its submission.
LEMMA ReplayedKeeps ==
  ASSUME ListingsInv, NEW k \in Keys, CreateReplayed(k)
  PROVE  ListingsInv'
<1> USE DEF ListingsInv
<1>1. PICK p \in Original(k) : answers' = answers \cup {<<k, p>>}
  BY DEF CreateReplayed
<1>2. UNCHANGED <<products, usedIds, calls>>
  BY DEF CreateReplayed
<1>3. p \in Rows /\ products[p].client_request_id = k /\ p \in usedIds
  BY <1>1 DEF Original, RowsShape
<1>4. RowsShape'
  BY <1>1, <1>2, <1>3 DEF RowsShape, Rows
<1>5. CallsShape' /\ OneProduct'
  BY <1>2 DEF CallsShape, OneProduct, Rows
<1>6. AnswersTrue'
  BY <1>1, <1>2, <1>3 DEF AnswersTrue, Rows
<1> QED
  BY <1>4, <1>5, <1>6

\* A request that begins has only read.
LEMMA AsksKeep ==
  ASSUME ListingsInv, NEW c \in Calls, SellerAsks(c)
  PROVE  ListingsInv'
<1> USE DEF ListingsInv
<1>1. UNCHANGED <<products, usedIds, answers>>
  BY DEF SellerAsks, CreateProduct, UpdateProduct, DeleteProduct
<1>2. CallsShape'
  <2>1. ASSUME NEW k \in Keys, CreateProduct(c, k)
        PROVE  CallsShape'
    BY <2>1 DEF CreateProduct, Begin, CallsShape
  <2>2. ASSUME NEW u \in Users, NEW p \in ProductIds, DeleteProduct(c, u, p)
        PROVE  CallsShape'
    BY <2>2 DEF DeleteProduct, Begin, CallsShape
  <2>3. ASSUME NEW u \in Users, NEW p \in ProductIds, NEW v \in VendorIds \cup {None},
               NEW g \in Categories, UpdateProduct(c, u, p, v, g)
        PROVE  CallsShape'
    <3> DEFINE changes == OrmChanges(products[p], Edited(u, products[p], v, g))
    <3>1. "client_request_id" \notin DOMAIN changes
      BY EditKeepsKey DEF RowsShape
    <3>2. calls' = [calls EXCEPT ![c] =
            [op |-> "update", id |-> p, changes |-> changes, insertsCategory |-> InsertsCategory(g)]]
      BY <2>3 DEF UpdateProduct, Begin
    <3> HIDE DEF changes
    <3> QED
      BY <3>1, <3>2 DEF CallsShape
  <2> QED
    BY <2>1, <2>2, <2>3 DEF SellerAsks
<1> QED
  BY <1>1, <1>2, SameRows

\* The end of a request leaves the others as they are.
LEMMA EndKeeps ==
  ASSUME CallsShape, NEW c \in Calls, End(c)
  PROVE  CallsShape'
BY DEF CallsShape, End, Idle

\* The unique index: a product is made only where its submission has none.
LEMMA CommitCreateKeeps ==
  ASSUME ListingsInv, NEW c \in Calls, CommitCreate(c)
  PROVE  ListingsInv'
<1> USE DEF ListingsInv
<1> DEFINE k == calls[c].key
<1>1. k \in Keys /\ Original(k) = {}
  BY DEF CommitCreate, CallsShape, KeyIsFree
<1>2. PICK v : Inserted(k, calls[c].vendor_id, v)
  BY DEF CommitCreate
<1>3. PICK p \in ProductIds \ usedIds :
        /\ products' = [products EXCEPT ![p] =
             [client_request_id |-> k, seller_user_id |-> Form[k].seller,
              vendor_id |-> v, vendor |-> vendors'[v], category |-> Form[k].category]]
        /\ usedIds' = usedIds \cup {p}
        /\ answers' = answers \cup {<<k, p>>}
  BY <1>2 DEF Inserted
<1> DEFINE made == [client_request_id |-> k, seller_user_id |-> Form[k].seller,
                    vendor_id |-> v, vendor |-> vendors'[v], category |-> Form[k].category]
<1>4. made = [x \in Columns |-> made[x]] /\ made.client_request_id = k
  BY DEF Columns
<1>5. products' = [products EXCEPT ![p] = made]
  BY <1>3
<1>6. p \notin Rows /\ \A a \in answers : a[2] # p
  BY <1>3 DEF RowsShape
<1> HIDE DEF made, k
<1>7. \A q \in Rows' : q = p \/ (q \in Rows /\ products'[q] = products[q])
  BY <1>3, <1>5 DEF RowsShape, Rows
<1>8. products'[p] = made
  BY <1>3, <1>5 DEF RowsShape
<1>9. RowsShape'
  <2>1. products' = [q \in ProductIds |-> products'[q]]
    BY <1>5 DEF RowsShape
  <2>2. ASSUME NEW q \in ProductIds
        PROVE  products'[q] = [x \in Columns |-> products'[q][x]]
    <3>1. CASE q = p
      BY <3>1, <1>4, <1>8
    <3>2. CASE q # p
      <4>1. products'[q] = products[q]
        BY <3>2, <1>5 DEF RowsShape
      <4> QED
        BY <4>1 DEF RowsShape
    <3> QED
      BY <3>1, <3>2
  <2>3. usedIds' \subseteq ProductIds /\ Rows' \subseteq usedIds'
    BY <1>3, <1>7 DEF RowsShape
  <2>4. answers' \subseteq Keys \X usedIds'
    BY <1>1, <1>3 DEF RowsShape
  <2> QED
    BY <2>1, <2>2, <2>3, <2>4 DEF RowsShape
<1>10. \A q \in Rows : products[q].client_request_id # k
  BY <1>1 DEF Original
<1>11. OneProduct'
  BY <1>4, <1>7, <1>8, <1>10 DEF OneProduct
<1>12. AnswersTrue'
  BY <1>3, <1>4, <1>6, <1>7, <1>8 DEF AnswersTrue
<1>13. CallsShape'
  BY EndKeeps DEF CommitCreate
<1> QED
  BY <1>9, <1>11, <1>12, <1>13

\* Updates and deletions change no key.
LEMMA CommitOthersKeep ==
  ASSUME ListingsInv, NEW c \in Calls, CommitUpdate(c) \/ CommitDelete(c)
  PROVE  ListingsInv'
<1> USE DEF ListingsInv
<1>1. CallsShape' /\ UNCHANGED <<usedIds, answers>>
  BY EndKeeps DEF CommitUpdate, CommitDelete
<1>2. CASE CommitUpdate(c)
  <2> DEFINE flushed == OrmFlush(products[calls[c].id], calls[c].changes)
  <2>1. calls[c].id \in ProductIds /\ products[calls[c].id] # NoProduct
        /\ "client_request_id" \notin DOMAIN calls[c].changes
    BY <1>2 DEF CommitUpdate, CallsShape, Rows
  <2>2. products' = [products EXCEPT ![calls[c].id] = flushed]
    BY <1>2 DEF CommitUpdate
  <2>3. flushed = [x \in Columns |-> flushed[x]]
        /\ flushed.client_request_id = products[calls[c].id].client_request_id
    BY <2>1, FlushKeeps DEF RowsShape
  <2> HIDE DEF flushed
  <2>4. products' = [p \in ProductIds |-> products'[p]]
        /\ products'[calls[c].id] = flushed
        /\ \A p \in ProductIds : p # calls[c].id => products'[p] = products[p]
    BY <2>1, <2>2 DEF RowsShape
  <2> QED
    BY <1>1, <2>1, <2>3, <2>4, NothingNew
<1>3. CASE CommitDelete(c)
  <2>1. products' = [p \in ProductIds |-> products'[p]]
        /\ \A p \in ProductIds : products'[p] = NoProduct \/ products'[p] = products[p]
    BY <1>3 DEF CommitDelete, CallsShape, RowsShape
  <2> QED
    BY <1>1, <2>1, NothingNew
<1> QED
  BY <1>2, <1>3

------------------------------------------------------------------------------
(* The theorems.                                                           *)

\* At the beginning there is at most one product, of no submission.
LEMMA InitHolds == ListingsInit => ListingsInv
<1> SUFFICES ASSUME ListingsInit
             PROVE  ListingsInv
  OBVIOUS
<1>1. PICK old \in {{}} \cup {{p} : p \in ProductIds}, v \in VendorIds, n \in Names :
        /\ products = [q \in ProductIds |->
             IF q \in old THEN [NoProduct EXCEPT !.vendor_id = v, !.vendor = n] ELSE NoProduct]
        /\ usedIds = old
  BY DEF ListingsInit
<1>2. answers = {} /\ calls = [c \in Calls |-> Idle]
  BY DEF ListingsInit
<1>3. \A p \in ProductIds : products[p] = [x \in Columns |-> products[p][x]]
  BY <1>1 DEF NoProduct, Columns
<1>4. Rows \subseteq old /\ old \subseteq ProductIds
  BY <1>1 DEF Rows
<1>5. RowsShape
  BY <1>1, <1>2, <1>3, <1>4 DEF RowsShape
<1>6. OneProduct
  BY <1>1, <1>4 DEF OneProduct
<1> QED
  BY <1>2, <1>5, <1>6 DEF ListingsInv, CallsShape, AnswersTrue, Idle

\* The inductive invariant behind ReplaysAgree.
THEOREM ListingsInvariance == ListingsSpec => []ListingsInv
<1>1. ListingsInv /\ [ListingsNext]_listingsVars => ListingsInv'
  <2> SUFFICES ASSUME ListingsInv, [ListingsNext]_listingsVars
               PROVE  ListingsInv'
    OBVIOUS
  <2>1. ASSUME NEW k \in Keys, CreateReplayed(k)
        PROVE  ListingsInv'
    BY <2>1, ReplayedKeeps
  <2>2. ASSUME NEW c \in Calls, SellerAsks(c)
        PROVE  ListingsInv'
    BY <2>2, AsksKeep
  <2>3. ASSUME NEW c \in Calls, Committed(c)
        PROVE  ListingsInv'
    BY <2>3, CommitCreateKeeps, CommitOthersKeep DEF Committed
  <2>4. ASSUME NEW c \in Calls, CallFails(c)
        PROVE  ListingsInv'
    BY <2>4, SameRows, EndKeeps DEF CallFails, ListingsInv
  <2>5. ASSUME NEW p \in ProductIds, CreateOrder(p)
        PROVE  ListingsInv'
    BY <2>5, SameRows DEF CreateOrder, ListingsInv, CallsShape
  <2>6. CASE UNCHANGED listingsVars
    BY <2>6, SameRows DEF listingsVars, ListingsInv, CallsShape
  <2> QED
    BY <2>1, <2>2, <2>3, <2>4, <2>5, <2>6 DEF ListingsNext
<1> QED
  BY <1>1, InitHolds, PTL DEF ListingsSpec

\* Replays of a submission are answered with one product, its own, whatever copies
\* of it, updates and deletions are in flight.
THEOREM ReplaysGetOneProduct == ListingsSpec => []ReplaysAgree
<1>1. ListingsInv => ReplaysAgree
  <2> SUFFICES ASSUME ListingsInv, NEW a \in answers, a[2] \in Rows
               PROVE  /\ products[a[2]].client_request_id = a[1]
                      /\ \A b \in answers : b[1] = a[1] /\ b[2] \in Rows => b[2] = a[2]
    BY DEF ReplaysAgree
  <2>1. a[1] \in Keys
    BY DEF ListingsInv, RowsShape
  <2> QED
    BY <2>1 DEF ListingsInv, AnswersTrue, OneProduct
<1> QED
  BY <1>1, ListingsInvariance, PTL

------------------------------------------------------------------------------
(* Listings: the vendors and the sales.                                    *)

\* Vendor rows stay as they are made, and every product and request refers to one
\* that is there.
VendorsThere ==
  /\ vendors \in [VendorIds -> Names \cup {None}]
  /\ \A p \in Rows : products[p].vendor_id \in VendorIds /\ vendors[products[p].vendor_id] # None
  /\ \A c \in Calls :
       /\ calls[c].op = "create" /\ calls[c].vendor_id # None =>
            calls[c].vendor_id \in VendorIds /\ vendors[calls[c].vendor_id] # None
       /\ calls[c].op = "update" =>
            /\ "seller_user_id" \notin DOMAIN calls[c].changes
            /\ "vendor_id" \in DOMAIN calls[c].changes =>
                 /\ calls[c].changes.vendor_id \in VendorIds
                 /\ vendors[calls[c].changes.vendor_id] # None

\* An update writes the id of the vendor and its name together or neither.
Paired(changes, names) ==
  /\ "vendor" \in DOMAIN changes <=> "vendor_id" \in DOMAIN changes
  /\ "vendor" \in DOMAIN changes => changes.vendor = names[changes.vendor_id]

NamesPaired ==
  /\ \A p \in Rows : products[p].vendor = vendors[products[p].vendor_id]
  /\ \A c \in Calls : calls[c].op = "update" => Paired(calls[c].changes, vendors)

VendorsInv == ListingsInv /\ VendorsThere /\ (TwinVendors \/ NamesPaired)

\* What an edit writes, read from a row whose name is true.
LEMMA EditWrites ==
  ASSUME NEW row, row = [x \in Columns |-> row[x]], NEW u, NEW v \in VendorIds \cup {None}, NEW category,
         v # None => vendors[v] # None
  PROVE  LET changes == OrmChanges(row, Edited(u, row, v, category)) IN
         /\ "seller_user_id" \notin DOMAIN changes
         /\ "vendor_id" \in DOMAIN changes => changes.vendor_id = v /\ v # None
         /\ "vendor_id" \in DOMAIN changes <=> v # None /\ row.vendor_id # v
         /\ "vendor" \in DOMAIN changes <=> v # None /\ row.vendor # vendors[v]
         /\ "vendor" \in DOMAIN changes => changes.vendor = vendors[v]
<1> DEFINE edited == Edited(u, row, v, category)
           changes == OrmChanges(row, edited)
<1>1. /\ edited.seller_user_id = row.seller_user_id
      /\ edited.vendor_id = IF v = None THEN row.vendor_id ELSE v
      /\ edited.vendor = IF v = None THEN row.vendor ELSE vendors[v]
      /\ DOMAIN row = Columns
  BY DEF Edited, Columns
<1> HIDE DEF edited
<1>2. /\ DOMAIN changes = {x \in Columns : edited[x] # row[x]}
      /\ \A x \in DOMAIN changes : changes[x] = edited[x]
  BY <1>1 DEF OrmChanges
<1>3. "seller_user_id" \in Columns /\ "vendor_id" \in Columns /\ "vendor" \in Columns
  BY DEF Columns
<1> HIDE DEF changes, Columns
<1>4. "seller_user_id" \notin DOMAIN changes
  BY <1>1, <1>2
<1>5. /\ "vendor_id" \in DOMAIN changes <=> v # None /\ row.vendor_id # v
      /\ "vendor_id" \in DOMAIN changes => changes.vendor_id = v /\ v # None
  BY <1>1, <1>2, <1>3
<1>6. /\ "vendor" \in DOMAIN changes <=> v # None /\ row.vendor # vendors[v]
      /\ "vendor" \in DOMAIN changes => changes.vendor = vendors[v]
  BY <1>1, <1>2, <1>3
<1> QED
  BY <1>4, <1>5, <1>6 DEF changes, edited

\* A request that begins.
LEMMA AsksKeepVendors ==
  ASSUME VendorsInv, NEW c \in Calls, SellerAsks(c)
  PROVE  VendorsThere' /\ (TwinVendors \/ NamesPaired)'
<1>1. UNCHANGED <<products, vendors>>
  BY DEF SellerAsks, CreateProduct, UpdateProduct, DeleteProduct
<1>2. PICK call : calls' = [calls EXCEPT ![c] = call]
  BY DEF SellerAsks, CreateProduct, UpdateProduct, DeleteProduct, Begin
<1>3. calls'[c] = call /\ \A d \in Calls \ {c} : calls'[d] = calls[d]
  BY <1>2 DEF VendorsInv, ListingsInv, CallsShape
<1>4. Rows' = Rows /\ (TwinVendors' <=> TwinVendors)
  BY <1>1 DEF Rows, TwinVendors
<1>5. ASSUME NEW k \in Keys, CreateProduct(c, k)
      PROVE  VendorsThere' /\ (TwinVendors \/ NamesPaired)'
  <2>1. PICK asked \in VendorIds \cup {None} : \E w \in VendorFor(Form[k].seller, asked) :
          calls' = [calls EXCEPT ![c] = [op |-> "create", key |-> k, vendor_id |-> w,
                                         insertsCategory |-> InsertsCategory(Form[k].category)]]
    BY <1>5 DEF CreateProduct, Begin
  <2>5. PICK v \in VendorFor(Form[k].seller, asked) :
          calls' = [calls EXCEPT ![c] = [op |-> "create", key |-> k, vendor_id |-> v,
                                         insertsCategory |-> InsertsCategory(Form[k].category)]]
    BY <2>1
  <2>2. calls'[c].op = "create" /\ calls'[c].vendor_id = v
    BY <2>5 DEF VendorsInv, ListingsInv, CallsShape
  <2>3. v # None => v \in VendorIds /\ vendors[v] # None
    <3>1. Form[k].seller \in Users /\ DisplayName[Form[k].seller] # None
      BY ListingsAssumption DEF Names
    <3> QED
      BY <3>1 DEF VendorFor
  <2> QED
    BY <1>1, <1>3, <1>4, <2>2, <2>3 DEF VendorsInv, VendorsThere, NamesPaired, Paired
<1>6. ASSUME NEW u \in Users, NEW p \in ProductIds, DeleteProduct(c, u, p)
      PROVE  VendorsThere' /\ (TwinVendors \/ NamesPaired)'
  <2>1. calls'[c].op = "delete"
    BY <1>6 DEF DeleteProduct, Begin, VendorsInv, ListingsInv, CallsShape
  <2> QED
    BY <1>1, <1>3, <1>4, <2>1 DEF VendorsInv, VendorsThere, NamesPaired, Paired
<1>7. ASSUME NEW u \in Users, NEW p \in ProductIds, NEW v \in VendorIds \cup {None}, NEW g \in Categories,
             UpdateProduct(c, u, p, v, g)
      PROVE  VendorsThere' /\ (TwinVendors \/ NamesPaired)'
  <2> DEFINE changes == OrmChanges(products[p], Edited(u, products[p], v, g))
  <2>1. /\ p \in Rows /\ (v # None => vendors[v] # None)
        /\ calls' = [calls EXCEPT ![c] =
             [op |-> "update", id |-> p, changes |-> changes, insertsCategory |-> InsertsCategory(g)]]
    BY <1>7 DEF UpdateProduct, Begin
  <2>2. calls'[c].op = "update" /\ calls'[c].changes = changes
    BY <2>1 DEF VendorsInv, ListingsInv, CallsShape
  <2>3. /\ "seller_user_id" \notin DOMAIN changes
        /\ "vendor_id" \in DOMAIN changes => changes.vendor_id = v /\ v # None
        /\ "vendor_id" \in DOMAIN changes <=> v # None /\ products[p].vendor_id # v
        /\ "vendor" \in DOMAIN changes <=> v # None /\ products[p].vendor # vendors[v]
        /\ "vendor" \in DOMAIN changes => changes.vendor = vendors[v]
    BY <2>1, EditWrites DEF VendorsInv, ListingsInv, RowsShape
  <2> HIDE DEF changes
  <2>4. VendorsThere'
    BY <1>1, <1>3, <1>4, <2>1, <2>2, <2>3 DEF VendorsInv, VendorsThere
  <2>5. ASSUME ~TwinVendors
        PROVE  NamesPaired'
    <3>1. products[p].vendor = vendors[products[p].vendor_id] /\ products[p].vendor_id \in VendorIds
      BY <2>1, <2>5 DEF VendorsInv, NamesPaired, VendorsThere
    <3>2. v # None => (products[p].vendor_id # v <=> products[p].vendor # vendors[v])
      BY <2>1, <2>5, <3>1 DEF TwinVendors
    <3>3. Paired(changes, vendors)
      BY <2>3, <3>2 DEF Paired
    <3> QED
      BY <1>1, <1>3, <1>4, <2>2, <2>5, <3>3 DEF VendorsInv, NamesPaired, Paired
  <2> QED
    BY <1>4, <2>4, <2>5
<1> QED
  BY <1>5, <1>6, <1>7 DEF SellerAsks

\* Requests that end leave the others, and vendor rows only come.
LEMMA VendorsStay ==
  ASSUME VendorsInv, NEW c \in Calls, End(c),
         \A v \in VendorIds : vendors[v] # None => vendors'[v] = vendors[v],
         vendors' \in [VendorIds -> Names \cup {None}]
  PROVE  /\ \A d \in Calls : calls'[d] \in {calls[d], Idle}
         /\ TwinVendors => TwinVendors'
         /\ \A d \in Calls :
              /\ calls'[d].op = "create" /\ calls'[d].vendor_id # None =>
                   calls'[d].vendor_id \in VendorIds /\ vendors'[calls'[d].vendor_id] # None
              /\ calls'[d].op = "update" =>
                   /\ "seller_user_id" \notin DOMAIN calls'[d].changes
                   /\ "vendor_id" \in DOMAIN calls'[d].changes =>
                        /\ calls'[d].changes.vendor_id \in VendorIds
                        /\ vendors'[calls'[d].changes.vendor_id] # None
              /\ NamesPaired => (calls'[d].op = "update" => Paired(calls'[d].changes, vendors'))
<1>1. \A d \in Calls : calls'[d] \in {calls[d], Idle}
  BY DEF End, VendorsInv, ListingsInv, CallsShape
<1>2. TwinVendors => TwinVendors'
  BY DEF TwinVendors
<1>3. \A d \in Calls : calls'[d].op \in {"create", "update"} => calls'[d] = calls[d]
  BY <1>1 DEF Idle
<1>4. ASSUME NEW d \in Calls, calls'[d].op = "create", calls'[d].vendor_id # None
      PROVE  calls'[d].vendor_id \in VendorIds /\ vendors'[calls'[d].vendor_id] # None
  BY <1>3, <1>4 DEF VendorsInv, VendorsThere
<1>5. ASSUME NEW d \in Calls, calls'[d].op = "update"
      PROVE  /\ "seller_user_id" \notin DOMAIN calls'[d].changes
             /\ "vendor_id" \in DOMAIN calls'[d].changes =>
                  /\ calls'[d].changes.vendor_id \in VendorIds
                  /\ vendors'[calls'[d].changes.vendor_id] # None
             /\ NamesPaired => Paired(calls'[d].changes, vendors')
  <2>1. calls'[d] = calls[d] /\ calls[d].op = "update"
    BY <1>3, <1>5
  <2>2. /\ "seller_user_id" \notin DOMAIN calls[d].changes
        /\ "vendor_id" \in DOMAIN calls[d].changes =>
             /\ calls[d].changes.vendor_id \in VendorIds
             /\ vendors[calls[d].changes.vendor_id] # None
    BY <2>1 DEF VendorsInv, VendorsThere
  <2>3. NamesPaired => Paired(calls[d].changes, vendors)
    BY <2>1 DEF NamesPaired
  <2> QED
    BY <2>1, <2>2, <2>3 DEF Paired
<1> QED
  BY <1>1, <1>2, <1>4, <1>5

LEMMA CommitCreateKeepsVendors ==
  ASSUME VendorsInv, NEW c \in Calls, CommitCreate(c)
  PROVE  VendorsThere' /\ (TwinVendors \/ NamesPaired)'
<1> DEFINE k == calls[c].key
           found == calls[c].vendor_id
<1>1. /\ calls[c].op = "create" /\ k \in Keys /\ End(c)
      /\ found # None => found \in VendorIds /\ vendors[found] # None
  BY DEF CommitCreate, VendorsInv, ListingsInv, CallsShape, VendorsThere
<1>2. PICK v \in IF found = None THEN VendorIds ELSE {found} : Inserted(k, found, v)
  BY DEF CommitCreate
<1>3. /\ found = None => vendors[v] = None
      /\ vendors' = IF found = None THEN [vendors EXCEPT ![v] = DisplayName[Form[k].seller]] ELSE vendors
  BY <1>2 DEF Inserted
<1>4. PICK p \in ProductIds \ usedIds :
        products' = [products EXCEPT ![p] =
             [client_request_id |-> k, seller_user_id |-> Form[k].seller,
              vendor_id |-> v, vendor |-> vendors'[v], category |-> Form[k].category]]
  BY <1>2 DEF Inserted
<1>5. DisplayName[Form[k].seller] \in Names /\ DisplayName[Form[k].seller] # None
  BY <1>1, ListingsAssumption DEF Names
<1>6. /\ v \in VendorIds /\ vendors' \in [VendorIds -> Names \cup {None}]
      /\ vendors'[v] # None
      /\ \A w \in VendorIds : vendors[w] # None => vendors'[w] = vendors[w]
  BY <1>1, <1>2, <1>3, <1>5 DEF VendorsInv, VendorsThere
<1>7. /\ products'[p].vendor_id = v /\ products'[p].vendor = vendors'[v]
      /\ \A q \in ProductIds \ {p} : products'[q] = products[q]
  BY <1>4 DEF VendorsInv, ListingsInv, RowsShape
<1>8. \A q \in Rows' : q = p \/ (q \in Rows /\ products'[q] = products[q])
  BY <1>7 DEF Rows
<1> HIDE DEF k, found
<1>9. VendorsThere'
  <2>1. \A q \in Rows' : products'[q].vendor_id \in VendorIds /\ vendors'[products'[q].vendor_id] # None
    BY <1>6, <1>7, <1>8 DEF VendorsInv, VendorsThere
  <2> QED
    BY <1>1, <1>6, <2>1, VendorsStay DEF VendorsThere
<1>10. ASSUME ~TwinVendors'
       PROVE  NamesPaired'
  <2>1. NamesPaired
    BY <1>1, <1>6, <1>10, VendorsStay DEF VendorsInv
  <2>2. \A q \in Rows' : products'[q].vendor = vendors'[products'[q].vendor_id]
    BY <1>6, <1>7, <1>8, <2>1 DEF VendorsInv, VendorsThere, NamesPaired
  <2> QED
    BY <1>1, <1>6, <2>1, <2>2, VendorsStay DEF NamesPaired
<1> QED
  BY <1>9, <1>10

\* What a commit of another kind does to a product: nothing, away with it, or the
\* changes written onto it.
LEMMA CommittedProduct ==
  ASSUME VendorsInv, NEW c \in Calls, CommitUpdate(c) \/ CommitDelete(c)
  PROVE  /\ End(c) /\ vendors' = vendors
         /\ \A p \in Rows' :
              /\ p \in Rows
              /\ \/ products'[p] = products[p]
                 \/ /\ calls[c].op = "update"
                    /\ \A x \in {"seller_user_id", "vendor_id", "vendor"} :
                         products'[p][x] = IF x \in DOMAIN calls[c].changes THEN calls[c].changes[x]
                                           ELSE products[p][x]
<1>1. CASE CommitUpdate(c)
  <2> DEFINE id == calls[c].id
             changes == calls[c].changes
  <2>1. /\ calls[c].op = "update" /\ id \in Rows /\ id \in ProductIds /\ End(c) /\ vendors' = vendors
        /\ products' = [products EXCEPT ![id] = OrmFlush(@, changes)]
    BY <1>1 DEF CommitUpdate, Rows
  <2>2. /\ products'[id] = OrmFlush(products[id], changes)
        /\ \A q \in ProductIds \ {id} : products'[q] = products[q]
        /\ products[id] = [x \in Columns |-> products[id][x]]
    BY <2>1 DEF VendorsInv, ListingsInv, RowsShape
  <2> HIDE DEF id, changes
  <2>3. \A x \in Columns : products'[id][x] = IF x \in DOMAIN changes THEN changes[x] ELSE products[id][x]
    BY <2>2 DEF OrmFlush
  <2>4. \A x \in {"seller_user_id", "vendor_id", "vendor"} : x \in Columns
    BY DEF Columns
  <2>5. \A q \in Rows' : q = id \/ (q \in Rows /\ products'[q] = products[q])
    BY <2>2 DEF Rows
  <2> QED
    BY <2>1, <2>3, <2>4, <2>5 DEF changes
<1>2. CASE CommitDelete(c)
  <2>1. /\ End(c) /\ vendors' = vendors
        /\ products' = [products EXCEPT ![calls[c].id] = NoProduct]
    BY <1>2 DEF CommitDelete
  <2>2. \A p \in ProductIds : products'[p] = NoProduct \/ products'[p] = products[p]
    BY <2>1 DEF VendorsInv, ListingsInv, RowsShape
  <2> QED
    BY <2>1, <2>2 DEF Rows
<1> QED
  BY <1>1, <1>2

LEMMA CommitOthersKeepVendors ==
  ASSUME VendorsInv, NEW c \in Calls, CommitUpdate(c) \/ CommitDelete(c)
  PROVE  VendorsThere' /\ (TwinVendors \/ NamesPaired)'
<1>1. End(c) /\ vendors' = vendors
  BY CommittedProduct
<1>2. /\ vendors' \in [VendorIds -> Names \cup {None}]
      /\ \A v \in VendorIds : vendors[v] # None => vendors'[v] = vendors[v]
  BY <1>1 DEF VendorsInv, VendorsThere
<1>3. ASSUME NEW p \in Rows'
      PROVE  /\ products'[p].vendor_id \in VendorIds /\ vendors'[products'[p].vendor_id] # None
             /\ NamesPaired => products'[p].vendor = vendors'[products'[p].vendor_id]
  <2>1. CASE products'[p] = products[p]
    <3>1. p \in Rows
      BY CommittedProduct
    <3> QED
      BY <1>1, <2>1, <3>1 DEF VendorsInv, VendorsThere, NamesPaired
  <2>2. CASE products'[p] # products[p]
    <3> DEFINE changes == calls[c].changes
    <3>1. /\ p \in Rows /\ calls[c].op = "update"
          /\ products'[p].vendor_id =
               IF "vendor_id" \in DOMAIN changes THEN changes.vendor_id ELSE products[p].vendor_id
          /\ products'[p].vendor = IF "vendor" \in DOMAIN changes THEN changes.vendor ELSE products[p].vendor
      BY <2>2, CommittedProduct
    <3>2. /\ "vendor_id" \in DOMAIN changes => changes.vendor_id \in VendorIds /\ vendors[changes.vendor_id] # None
          /\ products[p].vendor_id \in VendorIds /\ vendors[products[p].vendor_id] # None
          /\ NamesPaired => Paired(changes, vendors) /\ products[p].vendor = vendors[products[p].vendor_id]
      BY <3>1 DEF VendorsInv, VendorsThere, NamesPaired
    <3> HIDE DEF changes
    <3> QED
      BY <1>1, <3>1, <3>2 DEF Paired
  <2> QED
    BY <2>1, <2>2
<1>4. VendorsThere'
  BY <1>1, <1>2, <1>3, VendorsStay DEF VendorsThere
<1>5. TwinVendors' \/ NamesPaired'
  BY <1>1, <1>2, <1>3, VendorsStay DEF VendorsInv, NamesPaired
<1> QED
  BY <1>4, <1>5

\* The inductive invariant. It takes that rows and requests refer to vendors that
\* are there: a name that comes later would make an old copy untrue.
THEOREM VendorsInvariance == ListingsSpec => []VendorsInv
<1>1. ListingsInit => VendorsThere /\ NamesPaired
  <2> SUFFICES ASSUME ListingsInit
               PROVE  VendorsThere /\ NamesPaired
    OBVIOUS
  <2>1. PICK old \in {{}} \cup {{p} : p \in ProductIds}, v \in VendorIds, n \in Names :
          /\ products = [q \in ProductIds |->
               IF q \in old THEN [NoProduct EXCEPT !.vendor_id = v, !.vendor = n] ELSE NoProduct]
          /\ vendors = [w \in VendorIds |-> IF w = v /\ old # {} THEN n ELSE None]
    BY DEF ListingsInit
  <2>2. \A c \in Calls : calls[c].op = "idle"
    BY DEF ListingsInit, Idle
  <2>3. n # None
    BY ListingsAssumption
  <2>4. \A p \in Rows : old # {} /\ products[p].vendor_id = v /\ products[p].vendor = n
    BY <2>1 DEF Rows, NoProduct
  <2> QED
    BY <2>1, <2>2, <2>3, <2>4 DEF VendorsThere, NamesPaired
<1>2. VendorsInv /\ ListingsInv' /\ [ListingsNext]_listingsVars => VendorsInv'
  <2> SUFFICES ASSUME VendorsInv, ListingsInv', [ListingsNext]_listingsVars
               PROVE  VendorsThere' /\ (TwinVendors \/ NamesPaired)'
    BY DEF VendorsInv
  <2>1. ASSUME NEW c \in Calls, CallFails(c)
        PROVE  VendorsThere' /\ (TwinVendors \/ NamesPaired)'
    <3>1. End(c) /\ UNCHANGED <<products, vendors>>
      BY <2>1 DEF CallFails
    <3>2. Rows' = Rows
      BY <3>1 DEF Rows
    <3>3. VendorsThere'
      BY <3>1, <3>2, VendorsStay DEF VendorsInv, VendorsThere
    <3>4. TwinVendors' \/ NamesPaired'
      BY <3>1, <3>2, VendorsStay DEF VendorsInv, VendorsThere, NamesPaired
    <3> QED
      BY <3>3, <3>4
  <2>2. CASE UNCHANGED <<products, vendors, calls>>
    BY <2>2 DEF VendorsInv, VendorsThere, NamesPaired, TwinVendors, Paired, Rows
  <2>3. (\E k \in Keys : CreateReplayed(k)) \/ (\E p \in ProductIds : CreateOrder(p)) \/ UNCHANGED listingsVars =>
          UNCHANGED <<products, vendors, calls>>
    BY DEF CreateReplayed, CreateOrder, listingsVars
  <2> QED
    BY <2>1, <2>2, <2>3, AsksKeepVendors, CommitCreateKeepsVendors, CommitOthersKeepVendors
    DEF ListingsNext, Committed
<1>3. ListingsInv /\ VendorsThere /\ NamesPaired => VendorsInv
  BY DEF VendorsInv
<1> QED
  BY <1>1, <1>2, <1>3, ListingsInvariance, PTL DEF ListingsSpec

\* However updates interleave, and although each writes only the columns it has
\* changed, the vendor's name on a product is its vendor's, while names are unique.
THEOREM VendorNamesTrue == ListingsSpec => []VendorNameTrue
<1>1. VendorsInv => VendorNameTrue
  BY DEF VendorsInv, NamesPaired, VendorNameTrue
<1> QED
  BY <1>1, VendorsInvariance, PTL

\* No update, on however stale a row, takes a product from the list of its seller.
THEOREM SalesStay == ListingsSpec => SalesKept
<1> DEFINE A == \A u \in Sellers : \A p \in Sales(u) \ Sales(u)' :
                  \/ p \notin Rows'
                  \/ products[p].seller_user_id = None /\ products'[p].vendor # products[p].vendor
<1>1. VendorsInv /\ [ListingsNext]_listingsVars => [A]_listingsVars
  <2> SUFFICES ASSUME VendorsInv, ListingsNext, NEW u \in Sellers, NEW p \in Sales(u) \ Sales(u)', p \in Rows'
               PROVE  products[p].seller_user_id = None /\ products'[p].vendor # products[p].vendor
    OBVIOUS
  <2>1. p \in Rows /\ p \in ordered /\ Owns(u, products[p])
    BY DEF Sales
  <2>2. p \in ordered'
    BY <2>1 DEF ListingsNext, SellerAsks, CreateProduct, UpdateProduct, DeleteProduct, Committed,
                CommitCreate, CommitUpdate, CommitDelete, CreateReplayed, CallFails, CreateOrder
  <2>3. ~Owns(u, products'[p])
    BY <2>2 DEF Sales
  <2>4. products'[p].seller_user_id = products[p].seller_user_id
    <3>1. ASSUME NEW c \in Calls, CommitUpdate(c) \/ CommitDelete(c)
          PROVE  products'[p].seller_user_id = products[p].seller_user_id
      <4>1. CASE products'[p] = products[p]
        BY <4>1
      <4>2. CASE products'[p] # products[p]
        <5>1. /\ calls[c].op = "update"
              /\ products'[p].seller_user_id =
                   IF "seller_user_id" \in DOMAIN calls[c].changes THEN calls[c].changes.seller_user_id
                   ELSE products[p].seller_user_id
          BY <3>1, <4>2, CommittedProduct
        <5> QED
          BY <5>1 DEF VendorsInv, VendorsThere
      <4> QED
        BY <4>1, <4>2
    <3>2. ASSUME NEW c \in Calls, CommitCreate(c)
          PROVE  products'[p] = products[p]
      <4>1. PICK q \in ProductIds \ usedIds : \E row : products' = [products EXCEPT ![q] = row]
        BY <3>2 DEF CommitCreate, Inserted
      <4>2. p \in ProductIds /\ q # p
        BY <2>1 DEF VendorsInv, ListingsInv, RowsShape
      <4> QED
        BY <4>1, <4>2 DEF VendorsInv, ListingsInv, RowsShape
    <3>3. \/ products' = products
          \/ \E c \in Calls : CommitUpdate(c) \/ CommitDelete(c) \/ CommitCreate(c)
      BY DEF ListingsNext, SellerAsks, CreateProduct, UpdateProduct, DeleteProduct, Committed,
             CreateReplayed, CallFails, CreateOrder
    <3> QED
      BY <3>1, <3>2, <3>3
  <2> QED
    BY <2>1, <2>3, <2>4 DEF Owns
<1> QED
  BY <1>1, VendorsInvariance, PTL DEF ListingsSpec, SalesKept

------------------------------------------------------------------------------
(* Types.                                                                  *)

\* What a request takes along is of the columns' types, and a submission in flight
\* was posted.
CallsTyped ==
  \A c \in Calls :
    /\ calls[c].op \in {"idle", "create", "update", "delete"}
    /\ calls[c].op = "create" => calls[c].key \in submitted
    /\ calls[c].op = "update" =>
         /\ "vendor" \in DOMAIN calls[c].changes => calls[c].changes.vendor \in Names
         /\ "category" \in DOMAIN calls[c].changes => calls[c].changes.category \in Categories

RowsTyped == products \in [ProductIds -> ProductRow \cup {NoProduct}]
RestTyped ==
  /\ spareParts \in BOOLEAN
  /\ ordered \subseteq usedIds
  /\ submitted \subseteq Keys /\ answers \subseteq submitted \X usedIds

ListingsTypes == RowsTyped /\ RestTyped /\ CallsTyped

LEMMA TypedRow ==
  ASSUME NEW row, row = [x \in Columns |-> row[x]],
         row["client_request_id"] \in Keys \cup {None}, row["seller_user_id"] \in Users \cup {None},
         row["vendor_id"] \in VendorIds, row["vendor"] \in Names, row["category"] \in Categories
  PROVE  row \in ProductRow
BY DEF Columns, ProductRow

\* The categories and names an edit writes.
LEMMA EditWritesTypes ==
  ASSUME NEW row, row = [x \in Columns |-> row[x]], NEW u, NEW v \in VendorIds \cup {None},
         NEW category \in Categories, v # None => vendors[v] \in Names
  PROVE  LET changes == OrmChanges(row, Edited(u, row, v, category)) IN
         /\ "vendor" \in DOMAIN changes => changes.vendor \in Names
         /\ "category" \in DOMAIN changes => changes.category \in Categories
<1> DEFINE edited == Edited(u, row, v, category)
           changes == OrmChanges(row, edited)
<1>1. /\ edited.vendor = IF v = None THEN row.vendor ELSE vendors[v]
      /\ edited.category = IF category = None THEN row.category ELSE category
      /\ DOMAIN row = Columns
  BY DEF Edited, Columns
<1> HIDE DEF edited
<1>2. \A x \in DOMAIN changes : changes[x] = edited[x] /\ edited[x] # row[x]
  BY <1>1 DEF OrmChanges
<1> HIDE DEF changes
<1>3. "vendor" \in DOMAIN changes => changes.vendor \in Names
  BY <1>1, <1>2
<1>4. "category" \in DOMAIN changes => changes.category \in Categories
  BY <1>1, <1>2
<1> QED
  BY <1>3, <1>4 DEF changes, edited

\* A request that begins.
LEMMA AsksKeepTypes ==
  ASSUME ListingsTypes, VendorsInv, NEW c \in Calls, SellerAsks(c)
  PROVE  ListingsTypes'
<1>1. UNCHANGED <<products, vendors, spareParts, ordered, usedIds, answers>>
  BY DEF SellerAsks, CreateProduct, UpdateProduct, DeleteProduct
<1>2. PICK call : calls' = [calls EXCEPT ![c] = call]
  BY DEF SellerAsks, CreateProduct, UpdateProduct, DeleteProduct, Begin
<1>3. calls'[c] = call /\ \A d \in Calls \ {c} : calls'[d] = calls[d]
  BY <1>2 DEF VendorsInv, ListingsInv, CallsShape
<1>4. submitted \subseteq submitted' /\ submitted' \subseteq Keys
  BY DEF SellerAsks, CreateProduct, UpdateProduct, DeleteProduct, ListingsTypes, RestTyped
<1>5. RowsTyped' /\ RestTyped'
  BY <1>1, <1>4 DEF ListingsTypes, RowsTyped, RestTyped, ProductRow, NoProduct
<1>6. ASSUME \/ call.op = "delete"
             \/ call.op = "create" /\ call.key \in submitted'
             \/ /\ call.op = "update"
                /\ "vendor" \in DOMAIN call.changes => call.changes.vendor \in Names
                /\ "category" \in DOMAIN call.changes => call.changes.category \in Categories
      PROVE  CallsTyped'
  BY <1>3, <1>4, <1>6 DEF ListingsTypes, CallsTyped
<1>7. ASSUME NEW k \in Keys, CreateProduct(c, k)
      PROVE  CallsTyped'
  <2>1. calls'[c].op = "create" /\ calls'[c].key = k /\ k \in submitted'
    BY <1>7 DEF CreateProduct, Begin, VendorsInv, ListingsInv, CallsShape
  <2> QED
    BY <1>3, <1>6, <2>1
<1>8. ASSUME NEW u \in Users, NEW p \in ProductIds, DeleteProduct(c, u, p)
      PROVE  CallsTyped'
  <2>1. calls'[c].op = "delete"
    BY <1>8 DEF DeleteProduct, Begin, VendorsInv, ListingsInv, CallsShape
  <2> QED
    BY <1>3, <1>6, <2>1
<1>9. ASSUME NEW u \in Users, NEW p \in ProductIds, NEW v \in VendorIds \cup {None}, NEW g \in Categories,
             UpdateProduct(c, u, p, v, g)
      PROVE  CallsTyped'
  <2> DEFINE changes == OrmChanges(products[p], Edited(u, products[p], v, g))
  <2>1. /\ v # None => vendors[v] \in Names
        /\ calls' = [calls EXCEPT ![c] =
             [op |-> "update", id |-> p, changes |-> changes, insertsCategory |-> InsertsCategory(g)]]
    BY <1>9 DEF UpdateProduct, Begin, VendorsInv, VendorsThere
  <2>2. /\ "vendor" \in DOMAIN changes => changes.vendor \in Names
        /\ "category" \in DOMAIN changes => changes.category \in Categories
    BY <2>1, EditWritesTypes DEF VendorsInv, ListingsInv, RowsShape
  <2> HIDE DEF changes
  <2>3. calls'[c].op = "update" /\ calls'[c].changes = changes
    BY <2>1 DEF VendorsInv, ListingsInv, CallsShape
  <2> QED
    BY <1>3, <1>6, <2>2, <2>3
<1> QED
  BY <1>5, <1>7, <1>8, <1>9 DEF SellerAsks, ListingsTypes

\* The end of a request.
LEMMA EndKeepsTypes ==
  ASSUME CallsTyped, CallsShape, NEW c \in Calls, End(c), submitted' = submitted
  PROVE  CallsTyped'
<1>1. \A d \in Calls : calls'[d] = Idle \/ calls'[d] = calls[d]
  BY DEF CallsShape, End
<1> QED
  BY <1>1 DEF CallsTyped, Idle

\* The new row has what was filled in, and its vendor's name.
LEMMA CommitCreateKeepsTypes ==
  ASSUME ListingsTypes, VendorsInv, VendorsInv', NEW c \in Calls, CommitCreate(c)
  PROVE  ListingsTypes'
<1> DEFINE k == calls[c].key
<1>1. /\ calls[c].op = "create" /\ k \in Keys /\ k \in submitted /\ End(c)
      /\ UNCHANGED <<ordered, submitted>>
      /\ spareParts' = (spareParts \/ calls[c].insertsCategory)
  BY DEF CommitCreate, VendorsInv, ListingsInv, CallsShape, ListingsTypes, CallsTyped
<1>2. PICK v : Inserted(k, calls[c].vendor_id, v)
  BY DEF CommitCreate
<1>3. PICK p \in ProductIds \ usedIds :
        /\ products' = [products EXCEPT ![p] =
             [client_request_id |-> k, seller_user_id |-> Form[k].seller,
              vendor_id |-> v, vendor |-> vendors'[v], category |-> Form[k].category]]
        /\ usedIds' = usedIds \cup {p}
        /\ answers' = answers \cup {<<k, p>>}
  BY <1>2 DEF Inserted
<1> DEFINE made == [client_request_id |-> k, seller_user_id |-> Form[k].seller,
                    vendor_id |-> v, vendor |-> vendors'[v], category |-> Form[k].category]
<1>4. /\ made.vendor_id = v /\ made.vendor = vendors'[v] /\ made # NoProduct
      /\ Form[k].seller \in Users /\ Form[k].category \in Categories
  BY <1>1, ListingsAssumption DEF NoProduct
<1>5. products'[p] = made
  BY <1>3 DEF ListingsTypes, RowsTyped
<1>6. v \in VendorIds /\ vendors'[v] \in Names
  BY <1>3, <1>4, <1>5 DEF VendorsInv, VendorsThere, Rows
<1>7. made \in ProductRow
  BY <1>1, <1>4, <1>6 DEF ProductRow
<1> HIDE DEF made, k
<1>8. RowsTyped'
  <2>1. products' = [products EXCEPT ![p] = made]
    BY <1>3 DEF made
  <2> HIDE DEF NoProduct, ProductRow
  <2> QED
    BY <1>3, <1>7, <2>1 DEF ListingsTypes, RowsTyped, ProductRow, NoProduct
<1>9. RestTyped'
  <2>1. spareParts' \in BOOLEAN
    BY <1>1
  <2> QED
    BY <1>1, <1>3, <2>1 DEF ListingsTypes, RestTyped
<1>10. CallsTyped'
  BY <1>1, EndKeepsTypes DEF ListingsTypes, VendorsInv, ListingsInv
<1> QED
  BY <1>8, <1>9, <1>10 DEF ListingsTypes

\* Changes of the columns' types leave a row a row.
LEMMA CommitOthersKeepTypes ==
  ASSUME ListingsTypes, VendorsInv, VendorsInv', NEW c \in Calls, CommitUpdate(c) \/ CommitDelete(c)
  PROVE  ListingsTypes'
<1>1. CallsTyped'
  BY EndKeepsTypes DEF ListingsTypes, VendorsInv, ListingsInv, CommitUpdate, CommitDelete
<1>2. RestTyped'
  <2>1. /\ UNCHANGED <<ordered, usedIds, submitted, answers>>
        /\ spareParts' = spareParts \/ spareParts' = (spareParts \/ calls[c].insertsCategory)
    BY DEF CommitUpdate, CommitDelete
  <2>2. spareParts' \in BOOLEAN
    BY <2>1 DEF ListingsTypes, RestTyped
  <2> QED
    BY <2>1, <2>2 DEF ListingsTypes, RestTyped
<1>3. CASE CommitDelete(c)
  <2>1. products' = [products EXCEPT ![calls[c].id] = NoProduct]
    BY <1>3 DEF CommitDelete
  <2>2. RowsTyped'
    BY <2>1 DEF ListingsTypes, RowsTyped, ProductRow, NoProduct
  <2> QED
    BY <1>1, <1>2, <2>2 DEF ListingsTypes
<1>4. CASE CommitUpdate(c)
  <2> DEFINE id == calls[c].id
             changes == calls[c].changes
             row == OrmFlush(products[id], changes)
  <2>1. /\ calls[c].op = "update" /\ id \in ProductIds /\ products[id] # NoProduct
        /\ products' = [products EXCEPT ![id] = row]
    BY <1>4 DEF CommitUpdate, Rows
  <2>2. products[id] = [x \in Columns |-> products[id][x]] /\ products[id] \in ProductRow
    BY <2>1 DEF ListingsTypes, RowsTyped, VendorsInv, ListingsInv, RowsShape
  <2>3. /\ "client_request_id" \notin DOMAIN changes /\ "seller_user_id" \notin DOMAIN changes
        /\ "vendor_id" \in DOMAIN changes => changes["vendor_id"] \in VendorIds
        /\ "vendor" \in DOMAIN changes => changes["vendor"] \in Names
        /\ "category" \in DOMAIN changes => changes["category"] \in Categories
    BY <2>1 DEF VendorsInv, VendorsThere, ListingsInv, CallsShape, ListingsTypes, CallsTyped
  <2>4. /\ row = [x \in Columns |-> row[x]]
        /\ \A x \in Columns : row[x] = IF x \in DOMAIN changes THEN changes[x] ELSE products[id][x]
    BY <2>2 DEF OrmFlush
  <2>5. /\ products[id]["client_request_id"] \in Keys \cup {None}
        /\ products[id]["seller_user_id"] \in Users \cup {None}
        /\ products[id]["vendor_id"] \in VendorIds
        /\ products[id]["vendor"] \in Names
        /\ products[id]["category"] \in Categories
    BY <2>2 DEF ProductRow
  <2>6. {"client_request_id", "seller_user_id", "vendor_id", "vendor", "category"} \subseteq Columns
    BY DEF Columns
  <2> HIDE DEF row, changes, id
  <2>7. row \in ProductRow
    BY <2>3, <2>4, <2>5, <2>6, TypedRow
  <2>8. RowsTyped'
    BY <2>1, <2>7 DEF ListingsTypes, RowsTyped, ProductRow, NoProduct
  <2> QED
    BY <1>1, <1>2, <2>8 DEF ListingsTypes
<1> QED
  BY <1>3, <1>4

\* The rows, the answers and the requests in flight keep their types.
THEOREM ListingsTyped == ListingsSpec => []ListingsTypeOK
<1>1. ListingsInit => ListingsTypes
  <2> SUFFICES ASSUME ListingsInit
               PROVE  ListingsTypes
    OBVIOUS
  <2>1. PICK old \in {{}} \cup {{p} : p \in ProductIds}, v \in VendorIds, n \in Names :
          /\ products = [q \in ProductIds |->
               IF q \in old THEN [NoProduct EXCEPT !.vendor_id = v, !.vendor = n] ELSE NoProduct]
          /\ usedIds = old
    BY DEF ListingsInit
  <2>2. [NoProduct EXCEPT !.vendor_id = v, !.vendor = n] \in ProductRow
    BY DEF NoProduct, ProductRow, Categories
  <2>3. RowsTyped
    BY <2>1, <2>2 DEF RowsTyped, NoProduct, ProductRow
  <2> QED
    BY <2>3 DEF ListingsInit, ListingsTypes, RestTyped, CallsTyped, Idle
<1>2. ListingsTypes /\ VendorsInv /\ VendorsInv' /\ [ListingsNext]_listingsVars => ListingsTypes'
  <2> SUFFICES ASSUME ListingsTypes, VendorsInv, VendorsInv', [ListingsNext]_listingsVars
               PROVE  ListingsTypes'
    OBVIOUS
  <2>1. ASSUME NEW k \in Keys, CreateReplayed(k)
        PROVE  ListingsTypes'
    <3>1. PICK p \in Original(k) : answers' = answers \cup {<<k, p>>}
      BY <2>1 DEF CreateReplayed
    <3>2. p \in usedIds
      BY <3>1 DEF Original, VendorsInv, ListingsInv, RowsShape
    <3>3. UNCHANGED <<products, vendors, spareParts, ordered, usedIds, calls>> /\ submitted' = submitted \cup {k}
      BY <2>1 DEF CreateReplayed
    <3>4. RestTyped' /\ CallsTyped'
      BY <3>1, <3>2, <3>3 DEF ListingsTypes, RestTyped, CallsTyped
    <3> QED
      BY <3>3, <3>4 DEF ListingsTypes, RowsTyped, ProductRow, NoProduct
  <2>2. ASSUME NEW c \in Calls, CallFails(c)
        PROVE  ListingsTypes'
    <3>1. UNCHANGED <<products, vendors, spareParts, ordered, usedIds, submitted, answers>> /\ CallsTyped'
      BY <2>2, EndKeepsTypes DEF CallFails, ListingsTypes, VendorsInv, ListingsInv
    <3> QED
      BY <3>1 DEF ListingsTypes, RowsTyped, RestTyped
  <2>3. ASSUME NEW p \in ProductIds, CreateOrder(p)
        PROVE  ListingsTypes'
    BY <2>3 DEF CreateOrder, ListingsTypes, RowsTyped, RestTyped, CallsTyped
  <2>4. CASE UNCHANGED listingsVars
    BY <2>4 DEF listingsVars, ListingsTypes, RowsTyped, RestTyped, CallsTyped
  <2> QED
    BY <2>1, <2>2, <2>3, <2>4, AsksKeepTypes, CommitCreateKeepsTypes, CommitOthersKeepTypes
    DEF ListingsNext, Committed
<1>3. ListingsTypes /\ VendorsInv => ListingsTypeOK
  BY DEF ListingsTypes, RowsTyped, RestTyped, CallsTyped, VendorsInv, VendorsThere, ListingsInv, RowsShape,
         ListingsTypeOK
<1> QED
  BY <1>1, <1>2, <1>3, VendorsInvariance, PTL DEF ListingsSpec

------------------------------------------------------------------------------
(* Cart.                                                                   *)

\* Lines belong to customers; an id that was not given out has none.
CartShape ==
  /\ cart = [i \in ItemIds |-> cart[i]]
  /\ \A i \in ItemIds :
       \/ cart[i] = NoItem
       \/ i \in usedItems /\ \E u \in Customers, x \in Parts, q \in 1..MaxQuantity : cart[i] = Line(u, x, q)
  /\ usedItems \subseteq ItemIds
  /\ cartCalls = [c \in CartCalls |-> cartCalls[c]]
  /\ wanted \in [Customers -> [Parts -> Nat]] /\ kept \in [Customers -> [Parts -> Nat]]
  /\ overlapped = [u \in Customers |-> overlapped[u]]

\* A request works on lines of its customer, or that were the customer's.
WorksOn(c) ==
  LET call == cartCalls[c] IN
  \/ call = NoCall
  \/ /\ call.user \in Customers
     /\ \/ call.op = "zero" /\ call.product \in Parts
        \/ /\ call.op = "insert"
           /\ \E x \in Parts, q \in 1..MaxQuantity : call.line = Line(call.user, x, q)
        \/ /\ call.op = "set"
           /\ \E x \in Parts, q \in 1..MaxQuantity : call.line = Line(call.user, x, q)
           /\ call.item \in usedItems
           /\ cart[call.item] = NoItem \/ /\ cart[call.item].user_id = call.user
                                          /\ cart[call.item].product_id = call.line.product_id
           /\ call.plus \in Nat
        \/ /\ call.op = "delete"
           /\ \A i \in call.items : i \in usedItems /\ cart[i].user_id \in {None, call.user}

\* The one request of a customer has read the lines as they are.
ReadsTrue(u, c) ==
  LET call == cartCalls[c] IN
  cartCalls[c].user = u =>
    /\ \A d \in CartCalls \ {c} : cartCalls[d].user # u
    /\ call.op = "insert" => LinesOf(u, call.line.product_id) = {}
    /\ call.op = "set" => /\ call.item \in LinesOf(u, call.line.product_id)
                          /\ call.plus # 0 => call.line.quantity = cart[call.item].quantity + call.plus
    /\ call.op = "delete" => call.items \subseteq Lines(u)

\* What the answers account for, the lines included that they deny.
Book(u, x) == wanted[u][x] + kept[u][x]

\* One line for a product, with the quantity that is accounted for.
Books(u) ==
  /\ \A i, j \in Lines(u) : cart[i].product_id = cart[j].product_id => i = j
  /\ \A i \in Lines(u) : cart[i].quantity = Book(u, cart[i].product_id)
  /\ \A x \in Parts : LinesOf(u, x) = {} => Book(u, x) = 0

Exact(u) == Books(u) /\ \A c \in CartCalls : ReadsTrue(u, c)

CartInv ==
  /\ CartShape
  /\ \A c \in CartCalls : WorksOn(c)
  /\ \A u \in Customers : overlapped[u] \/ Exact(u)

\* The fold of a set of one line, and of none.
LEMMA OneLineSum ==
  ASSUME NEW u, NEW x, NEW i, LinesOf(u, x) = {i}, cart[i].quantity \in Nat
  PROVE  InCart(u, x) = cart[i].quantity
<1> DEFINE F(f) == [s \in SUBSET {i} |->
                 IF s = {} THEN 0
                 ELSE cart[CHOOSE y \in s : TRUE].quantity + f[s \ {CHOOSE y \in s : TRUE}]]
           g == [s \in SUBSET {i} |-> IF s = {} THEN 0 ELSE cart[i].quantity]
           h == CHOOSE f : f = F(f)
<1>1. InCart(u, x) = h[{i}]
  BY DEF InCart, MapThenSumSet, MapThenFoldSet
<1>2. (CHOOSE y \in {i} : TRUE) = i
  OBVIOUS
<1>3. F(g) = g
  <2>1. ASSUME NEW s \in SUBSET {i}
        PROVE  F(g)[s] = g[s]
    <3>1. CASE s = {}
      BY <3>1
    <3>2. CASE s # {}
      <4>1. s = {i} /\ s \ {i} = {} /\ {} \in SUBSET {i}
        BY <3>2
      <4>2. F(g)[s] = cart[i].quantity + g[{}]
        BY <1>2, <4>1
      <4>3. g[{}] = 0 /\ g[s] = cart[i].quantity
        BY <4>1
      <4> HIDE DEF g
      <4> QED
        BY <4>2, <4>3
    <3> QED
      BY <3>1, <3>2
  <2> QED
    BY <2>1
<1>4. h = F(h)
  BY <1>3, Zenon
<1> HIDE DEF h, g
<1>5. h[{}] = 0
  BY <1>4
<1>6. h[{i}] = cart[i].quantity + h[{}]
  <2>1. F(h)[{i}] = cart[i].quantity + h[{}]
    BY <1>2
  <2> QED
    BY <1>4, <2>1
<1> QED
  BY <1>1, <1>5, <1>6

LEMMA NoLineSum ==
  ASSUME NEW u, NEW x, LinesOf(u, x) = {}
  PROVE  InCart(u, x) = 0
<1> DEFINE F(f) == [s \in SUBSET {} |->
                 IF s = {} THEN 0
                 ELSE cart[CHOOSE y \in s : TRUE].quantity + f[s \ {CHOOSE y \in s : TRUE}]]
           g == [s \in SUBSET {} |-> 0]
           h == CHOOSE f : f = F(f)
<1>1. InCart(u, x) = h[{}]
  BY DEF InCart, MapThenSumSet, MapThenFoldSet
<1>2. F(g) = g
  OBVIOUS
<1>3. h = F(h)
  BY <1>2, Zenon
<1> HIDE DEF h, g
<1>4. h[{}] = 0
  BY <1>3
<1> QED
  BY <1>1, <1>4
\* A customer whose lines, books and requests a step leaves alone.
LEMMA OthersExact ==
  ASSUME CartInv, NEW v \in Customers, Exact(v), usedItems' \subseteq ItemIds,
         \A i \in ItemIds : v \in {cart[i].user_id, cart'[i].user_id} => cart'[i] = cart[i],
         wanted'[v] = wanted[v], kept'[v] = kept[v],
         \A c \in CartCalls : cartCalls'[c].user = v => cartCalls'[c] = cartCalls[c]
  PROVE  Exact(v)'
<1>1. Lines(v)' = Lines(v) /\ \A i \in Lines(v) : cart'[i] = cart[i]
  BY DEF Lines
<1>2. \A x : LinesOf(v, x)' = LinesOf(v, x)
  BY <1>1 DEF LinesOf
<1>3. Books(v)'
  <2>1. \A x : Book(v, x)' = Book(v, x)
    BY DEF Book
  <2> QED
    BY <1>1, <1>2, <2>1 DEF Exact, Books
<1>4. ASSUME NEW c \in CartCalls, cartCalls'[c].user = v
      PROVE  ReadsTrue(v, c)'
  <2> DEFINE call == cartCalls[c]
  <2>1. cartCalls'[c] = call /\ call.user = v /\ ReadsTrue(v, c)
    BY <1>4 DEF Exact
  <2>2. \A d \in CartCalls \ {c} : cartCalls'[d].user # v
    BY <2>1 DEF ReadsTrue
  <2>3. /\ call.op = "insert" => LinesOf(v, call.line.product_id) = {}
        /\ call.op = "set" => /\ call.item \in LinesOf(v, call.line.product_id)
                              /\ call.plus # 0 => call.line.quantity = cart[call.item].quantity + call.plus
        /\ call.op = "delete" => call.items \subseteq Lines(v)
    BY <2>1 DEF ReadsTrue
  <2>4. call.op = "set" => cart'[call.item] = cart[call.item]
    BY <1>1, <2>3 DEF LinesOf
  <2> HIDE DEF call
  <2> QED
    BY <1>1, <1>2, <2>1, <2>2, <2>3, <2>4 DEF ReadsTrue
<1>5. \A c \in CartCalls : ReadsTrue(v, c)'
  BY <1>4 DEF ReadsTrue
<1> QED
  BY <1>3, <1>5 DEF Exact

\* A line in use keeps its customer and product until it goes.
LinesMove ==
  \A i \in usedItems : \/ cart'[i] = NoItem
                       \/ cart[i] # NoItem /\ /\ cart'[i].user_id = cart[i].user_id
                                              /\ cart'[i].product_id = cart[i].product_id

LEMMA WorkGoesOn ==
  ASSUME CartInv, NEW c \in CartCalls, cartCalls'[c] \in {cartCalls[c], NoCall},
         usedItems \subseteq usedItems', LinesMove
  PROVE  WorksOn(c)'
<1> DEFINE call == cartCalls[c]
<1>1. CASE cartCalls'[c] = NoCall
  BY <1>1 DEF WorksOn
<1>2. CASE cartCalls'[c] = call /\ call # NoCall
  <2>1. /\ call.user \in Customers
        /\ \/ call.op = "zero" /\ call.product \in Parts
           \/ /\ call.op = "insert"
              /\ \E x \in Parts, q \in 1..MaxQuantity : call.line = Line(call.user, x, q)
           \/ /\ call.op = "set"
              /\ \E x \in Parts, q \in 1..MaxQuantity : call.line = Line(call.user, x, q)
              /\ call.item \in usedItems
              /\ cart[call.item] = NoItem \/ /\ cart[call.item].user_id = call.user
                                             /\ cart[call.item].product_id = call.line.product_id
              /\ call.plus \in Nat
           \/ /\ call.op = "delete"
              /\ \A i \in call.items : i \in usedItems /\ cart[i].user_id \in {None, call.user}
    BY <1>2 DEF CartInv, WorksOn
  <2>2. call.op = "set" =>
          cart'[call.item] = NoItem \/ /\ cart'[call.item].user_id = call.user
                                       /\ cart'[call.item].product_id = call.line.product_id
    BY <2>1 DEF LinesMove
  <2>3. call.op = "delete" => \A i \in call.items : cart'[i].user_id \in {None, call.user}
    BY <2>1 DEF LinesMove, NoItem
  <2> HIDE DEF call
  <2> QED
    BY <1>2, <2>1, <2>2, <2>3 DEF WorksOn
<1> QED
  BY <1>1, <1>2

\* What a request takes with it when it begins.
Reading(u, call) ==
  /\ call.user = u
  /\ \/ call.op = "zero" /\ call.product \in Parts
     \/ /\ call.op = "insert"
        /\ \E x \in Parts, q \in 1..MaxQuantity : call.line = Line(u, x, q)
        /\ LinesOf(u, call.line.product_id) = {}
     \/ /\ call.op = "set"
        /\ \E x \in Parts, q \in 1..MaxQuantity : call.line = Line(u, x, q)
        /\ call.item \in LinesOf(u, call.line.product_id)
        /\ call.plus \in Nat
        /\ call.plus # 0 => call.line.quantity = cart[call.item].quantity + call.plus
     \/ /\ call.op = "delete"
        /\ call.items \subseteq Lines(u)

LEMMA CustomersRead ==
  ASSUME CartInv, NEW c \in CartCalls, CustomerAsks(c)
  PROVE  \E u \in Customers : \E call : Reading(u, call) /\ Ask(c, call)
<1> PICK u \in Customers :
      \/ \E x \in Parts, q \in 1..MaxQuantity : AddItem(c, u, x, q)
      \/ \E i \in ItemIds, q \in 0..MaxQuantity : UpdateItem(c, u, i, q)
      \/ \E i \in ItemIds : RemoveItem(c, u, i)
      \/ ClearCart(c, u)
  BY DEF CustomerAsks
<1> USE CartAssumption
<1>1. \A i \in Lines(u) : /\ i \in ItemIds /\ cart[i].product_id \in Parts /\ cart[i].quantity \in 1..MaxQuantity
  BY DEF Lines, CartInv, CartShape, NoItem, Line
<1>2. \A x, q : Line(u, x, q).product_id = x /\ Line(u, x, q).quantity = q
  BY DEF Line
<1>3. ASSUME NEW x \in Parts, NEW q \in 1..MaxQuantity, AddItem(c, u, x, q)
      PROVE  \E call : Reading(u, call) /\ Ask(c, call)
  <2>1. CASE LinesOf(u, x) = {} /\ Ask(c, [op |-> "insert", user |-> u, line |-> Line(u, x, q)])
    <3>1. Reading(u, [op |-> "insert", user |-> u, line |-> Line(u, x, q)])
      BY <1>2, <2>1 DEF Reading
    <3> QED
      BY <2>1, <3>1
  <2>2. ASSUME NEW i \in LinesOf(u, x), Increased(i, q) <= MaxQuantity,
               Ask(c, [op |-> "set", user |-> u, item |-> i, line |-> Line(u, x, Increased(i, q)), plus |-> q])
        PROVE  \E call : Reading(u, call) /\ Ask(c, call)
    <3>1. Increased(i, q) \in 1..MaxQuantity /\ q \in Nat /\ Increased(i, q) = cart[i].quantity + q
      BY <1>1, <2>2 DEF LinesOf, Increased
    <3>2. Reading(u, [op |-> "set", user |-> u, item |-> i, line |-> Line(u, x, Increased(i, q)), plus |-> q])
      BY <1>2, <3>1 DEF Reading
    <3> QED
      BY <2>2, <3>2
  <2> QED
    BY <1>3, <2>1, <2>2 DEF AddItem
<1>4. ASSUME NEW i \in ItemIds, NEW q \in 0..MaxQuantity, UpdateItem(c, u, i, q)
      PROVE  \E call : Reading(u, call) /\ Ask(c, call)
  <2>1. CASE q = 0
    <3>1. Reading(u, [op |-> "zero", user |-> u, product |-> cart[i].product_id])
      BY <1>1, <1>4 DEF UpdateItem, Reading
    <3> QED
      BY <1>4, <2>1, <3>1 DEF UpdateItem
  <2>2. CASE q # 0
    <3>1. q \in 1..MaxQuantity /\ cart[i].product_id \in Parts /\ i \in LinesOf(u, cart[i].product_id)
      BY <1>1, <1>4, <2>2 DEF UpdateItem, LinesOf
    <3>2. Reading(u, [op |-> "set", user |-> u, item |-> i,
                      line |-> Line(u, cart[i].product_id, q), plus |-> 0])
      BY <1>2, <3>1 DEF Reading
    <3> QED
      BY <1>4, <2>2, <3>2 DEF UpdateItem
  <2> QED
    BY <2>1, <2>2
<1>5. ASSUME NEW items, items \subseteq Lines(u), Ask(c, [op |-> "delete", user |-> u, items |-> items])
      PROVE  \E call : Reading(u, call) /\ Ask(c, call)
  <2>1. Reading(u, [op |-> "delete", user |-> u, items |-> items])
    BY <1>5 DEF Reading
  <2> QED
    BY <1>5, <2>1
<1>6. ASSUME NEW i \in ItemIds, RemoveItem(c, u, i)
      PROVE  \E call : Reading(u, call) /\ Ask(c, call)
  BY <1>5, <1>6 DEF RemoveItem
<1>7. ClearCart(c, u) => \E call : Reading(u, call) /\ Ask(c, call)
  BY <1>5 DEF ClearCart
<1> QED
  BY <1>3, <1>4, <1>6, <1>7

\* A request that begins.
LEMMA AskKeepsCart ==
  ASSUME CartInv, NEW c \in CartCalls, NEW u \in Customers, NEW call, Reading(u, call), Ask(c, call)
  PROVE  CartInv'
<1>1. /\ cartCalls[c] = NoCall /\ cartCalls' = [cartCalls EXCEPT ![c] = call]
      /\ overlapped' = [overlapped EXCEPT ![u] = @ \/ \E d \in CartCalls : cartCalls[d].user = u]
      /\ UNCHANGED <<cart, usedItems, wanted, kept>>
  BY DEF Ask, Reading
<1>2. cartCalls'[c] = call /\ \A d \in CartCalls \ {c} : cartCalls'[d] = cartCalls[d]
  BY <1>1 DEF CartInv, CartShape
<1>3. CartShape'
  BY <1>1 DEF CartInv, CartShape
<1>4. \A d \in CartCalls \ {c} : WorksOn(d)'
  BY <1>1, <1>2 DEF CartInv, WorksOn
<1>5. \A i \in Lines(u) : i \in usedItems /\ cart[i].user_id = u
  BY CartAssumption DEF Lines, CartInv, CartShape, NoItem
<1>6. WorksOn(c)'
  BY <1>1, <1>2, <1>5 DEF WorksOn, Reading, LinesOf
<1>7. ASSUME NEW v \in Customers \ {u}, ~overlapped'[v]
      PROVE  Exact(v)'
  <2>1. Exact(v)
    BY <1>1, <1>7 DEF CartInv, CartShape
  <2>2. \A d \in CartCalls : cartCalls'[d].user = v => cartCalls'[d] = cartCalls[d]
    BY <1>2, <1>7 DEF Reading
  <2> QED
    BY <1>1, <1>3, <2>1, <2>2, OthersExact DEF CartShape
<1>8. ASSUME ~overlapped'[u]
      PROVE  Exact(u)'
  <2>1. overlapped'[u] <=> overlapped[u] \/ \E d \in CartCalls : cartCalls[d].user = u
    BY <1>1, Zenon DEF CartInv, CartShape
  <2>2. ~overlapped[u] /\ \A d \in CartCalls : cartCalls[d].user # u
    BY <1>8, <2>1
  <2>3. Books(u)
    BY <2>2 DEF CartInv, Exact
  <2>4. Books(u)'
    BY <1>1, <2>3 DEF Books, Book, Lines, LinesOf
  <2>5. ReadsTrue(u, c)'
    BY <1>1, <1>2, <2>2 DEF ReadsTrue, Reading, Lines, LinesOf
  <2>6. \A d \in CartCalls \ {c} : ReadsTrue(u, d)'
    BY <1>2, <2>2 DEF ReadsTrue
  <2> QED
    BY <2>4, <2>5, <2>6 DEF Exact
<1> QED
  BY <1>3, <1>4, <1>6, <1>7, <1>8 DEF CartInv

\* A request that ends, its write done or not: only its customer's lines move.
LEMMA EndKeepsCart ==
  ASSUME CartInv, NEW c \in CartCalls, NEW u \in Customers, u = cartCalls[c].user, Done(c),
         CartShape', LinesMove, usedItems \subseteq usedItems',
         \A i \in ItemIds : cart'[i] = cart[i] \/ {cart[i].user_id, cart'[i].user_id} \subseteq {None, u},
         \A v \in Customers \ {u} : wanted'[v] = wanted[v] /\ kept'[v] = kept[v],
         ~overlapped[u] => Books(u)'
  PROVE  CartInv'
<1>1. cartCalls'[c] = NoCall /\ \A d \in CartCalls \ {c} : cartCalls'[d] = cartCalls[d]
  BY DEF CartInv, CartShape, Done
<1>2. \A d \in CartCalls : WorksOn(d)'
  BY <1>1, WorkGoesOn
<1>3. None \notin Customers /\ overlapped' = overlapped
  BY CartAssumption DEF Done
<1>4. ASSUME NEW v \in Customers \ {u}, ~overlapped[v]
      PROVE  Exact(v)'
  <2>1. Exact(v)
    BY <1>4 DEF CartInv
  <2>2. \A d \in CartCalls : cartCalls'[d].user = v => cartCalls'[d] = cartCalls[d]
    BY <1>1, <1>3, <1>4 DEF NoCall
  <2>3. \A i \in ItemIds : v \in {cart[i].user_id, cart'[i].user_id} => cart'[i] = cart[i]
    BY <1>3, <1>4
  <2>4. usedItems' \subseteq ItemIds
    BY DEF CartShape
  <2> QED
    BY <1>4, <2>1, <2>2, <2>3, <2>4, OthersExact
<1>5. ASSUME ~overlapped[u]
      PROVE  Exact(u)'
  <2>1. ReadsTrue(u, c)
    BY <1>5 DEF CartInv, Exact
  <2>2. \A d \in CartCalls : cartCalls'[d].user # u
    BY <1>1, <1>3, <2>1 DEF ReadsTrue, NoCall
  <2>3. \A d \in CartCalls : ReadsTrue(u, d)'
    BY <2>2 DEF ReadsTrue
  <2>4. Books(u)'
    BY <1>5
  <2> QED
    BY <2>3, <2>4 DEF Exact
<1>6. \A v \in Customers : overlapped'[v] \/ Exact(v)'
  BY <1>3, <1>4, <1>5
<1> QED
  BY <1>2, <1>6 DEF CartInv

\* The shape outlives a write.
LEMMA ShapeStays ==
  ASSUME CartInv, NEW c \in CartCalls, Done(c), usedItems \subseteq usedItems', usedItems' \subseteq ItemIds,
         cart' = [i \in ItemIds |-> cart'[i]], wanted' \in [Customers -> [Parts -> Nat]],
         kept' \in [Customers -> [Parts -> Nat]],
         \A i \in ItemIds :
           \/ cart'[i] \in {NoItem, cart[i]}
           \/ i \in usedItems' /\ \E u \in Customers, x \in Parts, q \in 1..MaxQuantity : cart'[i] = Line(u, x, q)
  PROVE  CartShape'
<1>1. /\ cartCalls' = [d \in CartCalls |-> cartCalls'[d]]
      /\ overlapped' = [u \in Customers |-> overlapped'[u]]
  BY DEF CartInv, CartShape, Done
<1>2. ASSUME NEW i \in ItemIds
      PROVE  \/ cart'[i] = NoItem
             \/ i \in usedItems' /\ \E u \in Customers, x \in Parts, q \in 1..MaxQuantity : cart'[i] = Line(u, x, q)
  BY DEF CartInv, CartShape
<1> QED
  BY <1>1, <1>2 DEF CartShape

\* A new line: the book of its product goes from zero to its quantity.
LEMMA InsertKeepsCart ==
  ASSUME CartInv, NEW c \in CartCalls, CommitInsert(c)
  PROVE  CartInv'
<1> USE CartAssumption
<1> PICK u \in Customers, x \in Parts, q \in 1..MaxQuantity :
      u = cartCalls[c].user /\ cartCalls[c].line = Line(u, x, q)
  BY DEF CommitInsert, CartInv, WorksOn, NoCall
<1>1. q \in Nat /\ cartCalls[c].line.product_id = x /\ cartCalls[c].line.quantity = q
  BY DEF Line
<1>2. PICK i \in ItemIds \ usedItems :
        /\ cart' = [cart EXCEPT ![i] = cartCalls[c].line] /\ usedItems' = usedItems \cup {i}
        /\ wanted' = [wanted EXCEPT ![u][x] = @ + q] /\ kept' = kept
        /\ cartCalls[c].op = "insert" /\ Done(c)
  BY <1>1 DEF CommitInsert
<1>3. ReadsTrue(u, c) \/ overlapped[u]
  BY DEF CartInv, Exact
<1>4. /\ cart'[i] = Line(u, x, q) /\ \A j \in ItemIds \ {i} : cart'[j] = cart[j]
      /\ cart[i] = NoItem
  BY <1>2, <1>1 DEF CartInv, CartShape
<1>5. /\ wanted \in [Customers -> [Parts -> Nat]] /\ kept \in [Customers -> [Parts -> Nat]]
      /\ wanted[u][x] \in Nat /\ kept[u][x] \in Nat
  BY <1>1 DEF CartInv, CartShape
<1>6. /\ wanted' \in [Customers -> [Parts -> Nat]] /\ kept' \in [Customers -> [Parts -> Nat]]
      /\ Book(u, x)' = Book(u, x) + q
      /\ \A y \in Parts \ {x} : Book(u, y)' = Book(u, y)
      /\ \A v \in Customers \ {u} : wanted'[v] = wanted[v] /\ kept'[v] = kept[v]
  <2>1. wanted[u][x] + q \in Nat
    BY <1>1, <1>5
  <2>2. /\ wanted' \in [Customers -> [Parts -> Nat]] /\ kept' = kept
        /\ wanted'[u][x] = wanted[u][x] + q
        /\ \A y \in Parts \ {x} : wanted'[u][y] = wanted[u][y]
        /\ \A v \in Customers \ {u} : wanted'[v] = wanted[v]
    BY <1>2, <1>5, <2>1
  <2> QED
    BY <1>1, <1>5, <2>2 DEF Book
<1>7. CartShape'
  <2>1. cart' = [j \in ItemIds |-> cart'[j]]
    BY <1>2 DEF CartInv, CartShape
  <2>2. usedItems \subseteq usedItems' /\ usedItems' \subseteq ItemIds /\ i \in usedItems'
    BY <1>2 DEF CartInv, CartShape
  <2>3. \E v \in Customers, y \in Parts, r \in 1..MaxQuantity : cart'[i] = Line(v, y, r)
    BY <1>4
  <2>4. ASSUME NEW j \in ItemIds
        PROVE  \/ cart'[j] \in {NoItem, cart[j]}
               \/ j \in usedItems' /\ \E v \in Customers, y \in Parts, r \in 1..MaxQuantity : cart'[j] = Line(v, y, r)
    BY <1>4, <2>2, <2>3
  <2> QED
    BY <1>2, <1>6, <2>1, <2>2, <2>4, ShapeStays
<1>8. LinesMove
  BY <1>2, <1>4 DEF CartInv, CartShape, LinesMove
<1>9. cart'[i].user_id = u /\ cart'[i].product_id = x /\ cart'[i].quantity = q /\ NoItem.user_id = None
  BY <1>4 DEF Line, NoItem
<1>10. ASSUME ~overlapped[u]
       PROVE  Books(u)'
  <2>1. LinesOf(u, x) = {} /\ Books(u)
    BY <1>1, <1>2, <1>3, <1>10 DEF ReadsTrue, CartInv, Exact
  <2>2. Book(u, x) = 0
    BY <1>1, <2>1 DEF Books
  <2>3. Lines(u)' = Lines(u) \cup {i} /\ i \notin Lines(u)
    BY <1>1, <1>4, <1>9 DEF Lines
  <2>4. \A j \in Lines(u) : cart'[j] = cart[j] /\ cart[j].product_id # x /\ cart[j].product_id \in Parts
    <3>1. \A j \in Lines(u) : cart'[j] = cart[j] /\ cart[j].product_id # x
      BY <1>4, <2>1, <2>3 DEF LinesOf, Lines
    <3>2. \A j \in Lines(u) : cart[j].product_id \in Parts
      BY <1>1 DEF Lines, CartInv, CartShape, NoItem, Line
    <3> QED
      BY <3>1, <3>2
  <2>5. \A j, k \in Lines(u)' : cart'[j].product_id = cart'[k].product_id => j = k
    BY <1>9, <2>1, <2>3, <2>4 DEF Books
  <2>6. \A j \in Lines(u)' : cart'[j].quantity = Book(u, cart[j].product_id)'
    BY <1>1, <1>6, <1>9, <2>1, <2>2, <2>3, <2>4 DEF Books
  <2>7. ASSUME NEW y \in Parts, LinesOf(u, y)' = {}
        PROVE  Book(u, y)' = 0
    <3>1. y # x
      BY <1>9, <2>3, <2>7 DEF LinesOf
    <3>2. LinesOf(u, y) = {}
      BY <2>3, <2>4, <2>7 DEF LinesOf
    <3> QED
      BY <1>6, <2>1, <3>1, <3>2 DEF Books
  <2> QED
    BY <2>5, <2>6, <2>7 DEF Books
<1>11. \A j \in ItemIds : cart'[j] = cart[j] \/ {cart[j].user_id, cart'[j].user_id} \subseteq {None, u}
  BY <1>4, <1>9
<1> QED
  BY <1>2, <1>6, <1>7, <1>8, <1>10, <1>11, EndKeepsCart

\* A line that is set: its book follows, by the same amount or to the same value.
LEMMA SetKeepsCart ==
  ASSUME CartInv, NEW c \in CartCalls, CommitSet(c)
  PROVE  CartInv'
<1> USE CartAssumption
<1> PICK u \in Customers, x \in Parts, q \in 1..MaxQuantity, i \in usedItems, plus \in Nat :
      /\ u = cartCalls[c].user /\ cartCalls[c].line = Line(u, x, q)
      /\ i = cartCalls[c].item /\ plus = cartCalls[c].plus
  BY DEF CommitSet, CartInv, WorksOn, NoCall
<1>1. /\ q \in Nat /\ cartCalls[c].line.product_id = x /\ cartCalls[c].line.quantity = q
      /\ i \in ItemIds /\ cart[i].user_id = u /\ cart[i].product_id = x
  <2>1. cartCalls[c].op = "set" /\ cart[i] # NoItem
    BY DEF CommitSet, LineIsThere
  <2>2. cart[i].user_id = u /\ cart[i].product_id = cartCalls[c].line.product_id
    BY <2>1 DEF CartInv, WorksOn, NoCall
  <2>3. cartCalls[c].line.product_id = x /\ cartCalls[c].line.quantity = q
    BY DEF Line
  <2> QED
    BY <2>2, <2>3 DEF CartInv, CartShape
<1>2. /\ cart' = [cart EXCEPT ![i] = cartCalls[c].line] /\ usedItems' = usedItems
      /\ wanted' = [wanted EXCEPT ![u][x] = IF plus = 0 THEN q ELSE @ + plus]
      /\ kept' = [kept EXCEPT ![u][x] = IF plus = 0 THEN 0 ELSE @]
      /\ cartCalls[c].op = "set" /\ cart[i] # NoItem /\ Done(c)
  BY <1>1 DEF CommitSet, LineIsThere
<1>3. ReadsTrue(u, c) \/ overlapped[u]
  BY DEF CartInv, Exact
<1>4. cart'[i] = Line(u, x, q) /\ \A j \in ItemIds \ {i} : cart'[j] = cart[j]
  BY <1>2, <1>1 DEF CartInv, CartShape
<1>5. /\ wanted \in [Customers -> [Parts -> Nat]] /\ kept \in [Customers -> [Parts -> Nat]]
      /\ wanted[u][x] \in Nat /\ kept[u][x] \in Nat
  BY <1>1 DEF CartInv, CartShape
<1>6. /\ wanted' \in [Customers -> [Parts -> Nat]] /\ kept' \in [Customers -> [Parts -> Nat]]
      /\ Book(u, x)' = IF plus = 0 THEN q ELSE Book(u, x) + plus
      /\ \A y \in Parts \ {x} : Book(u, y)' = Book(u, y)
      /\ \A v \in Customers \ {u} : wanted'[v] = wanted[v] /\ kept'[v] = kept[v]
  <2>1. wanted[u][x] + plus \in Nat
    BY <1>1, <1>5
  <2>2. /\ wanted' \in [Customers -> [Parts -> Nat]]
        /\ wanted'[u][x] = IF plus = 0 THEN q ELSE wanted[u][x] + plus
        /\ \A y \in Parts \ {x} : wanted'[u][y] = wanted[u][y]
        /\ \A v \in Customers \ {u} : wanted'[v] = wanted[v]
    BY <1>1, <1>2, <1>5, <2>1
  <2>3. /\ kept' \in [Customers -> [Parts -> Nat]]
        /\ kept'[u][x] = IF plus = 0 THEN 0 ELSE kept[u][x]
        /\ \A y \in Parts \ {x} : kept'[u][y] = kept[u][y]
        /\ \A v \in Customers \ {u} : kept'[v] = kept[v]
    BY <1>2, <1>5
  <2> QED
    BY <1>1, <1>5, <2>2, <2>3 DEF Book
<1>7. CartShape'
  <2>1. cart' = [j \in ItemIds |-> cart'[j]]
    BY <1>2 DEF CartInv, CartShape
  <2>2. usedItems \subseteq usedItems' /\ usedItems' \subseteq ItemIds /\ i \in usedItems'
    BY <1>2 DEF CartInv, CartShape
  <2>3. \E v \in Customers, y \in Parts, r \in 1..MaxQuantity : cart'[i] = Line(v, y, r)
    BY <1>4
  <2>4. ASSUME NEW j \in ItemIds
        PROVE  \/ cart'[j] \in {NoItem, cart[j]}
               \/ j \in usedItems' /\ \E v \in Customers, y \in Parts, r \in 1..MaxQuantity : cart'[j] = Line(v, y, r)
    BY <1>4, <2>2, <2>3
  <2> QED
    BY <1>2, <1>6, <2>1, <2>2, <2>4, ShapeStays
<1>8. cart'[i].user_id = u /\ cart'[i].product_id = x /\ cart'[i].quantity = q
  BY <1>4 DEF Line
<1>9. LinesMove
  BY <1>1, <1>2, <1>4, <1>8 DEF CartInv, CartShape, LinesMove
<1>10. ASSUME ~overlapped[u]
       PROVE  Books(u)'
  <2>1. plus # 0 => q = cart[i].quantity + plus
    BY <1>1, <1>2, <1>3, <1>10 DEF ReadsTrue
  <2>2. Books(u) /\ i \in Lines(u)
    BY <1>1, <1>10 DEF CartInv, Exact, Lines
  <2>3. cart[i].quantity = Book(u, x)
    BY <1>1, <2>2 DEF Books
  <2>4. Book(u, x)' = q
    BY <1>6, <2>1, <2>3
  <2>5. Lines(u)' = Lines(u)
    BY <1>1, <1>4, <1>8 DEF Lines
  <2>6. \A j \in Lines(u) : /\ cart'[j].product_id = cart[j].product_id /\ cart[j].product_id \in Parts
                            /\ j # i => cart'[j] = cart[j] /\ cart[j].product_id # x
    <3>1. \A j \in Lines(u) : cart[j].product_id \in Parts
      BY <1>1 DEF Lines, CartInv, CartShape, NoItem, Line
    <3>2. \A j \in Lines(u) : j # i => cart'[j] = cart[j] /\ cart[j].product_id # x
      BY <1>1, <1>4, <2>2 DEF Lines, Books
    <3> QED
      BY <1>1, <1>8, <3>1, <3>2
  <2>7. \A j, k \in Lines(u)' : cart'[j].product_id = cart'[k].product_id => j = k
    BY <2>2, <2>5, <2>6 DEF Books
  <2>8. \A j \in Lines(u)' : cart'[j].quantity = Book(u, cart[j].product_id)'
    BY <1>6, <1>8, <2>2, <2>4, <2>5, <2>6 DEF Books
  <2>9. ASSUME NEW y \in Parts, LinesOf(u, y)' = {}
        PROVE  Book(u, y)' = 0
    <3>1. LinesOf(u, y) = {} /\ y # x
      BY <1>1, <2>2, <2>5, <2>6, <2>9 DEF LinesOf
    <3> QED
      BY <1>6, <2>2, <3>1 DEF Books
  <2> QED
    BY <2>7, <2>8, <2>9 DEF Books
<1>11. \A j \in ItemIds : cart'[j] = cart[j] \/ {cart[j].user_id, cart'[j].user_id} \subseteq {None, u}
  BY <1>1, <1>4, <1>8
<1> QED
  BY <1>2, <1>6, <1>7, <1>9, <1>10, <1>11, EndKeepsCart

\* Lines that go: so do their books.
LEMMA DeleteKeepsCart ==
  ASSUME CartInv, NEW c \in CartCalls, CommitDeleteLines(c)
  PROVE  CartInv'
<1> USE CartAssumption
<1> PICK u \in Customers, items \in {cartCalls[c].items} : u = cartCalls[c].user
  BY DEF CommitDeleteLines, CartInv, WorksOn, NoCall
<1> DEFINE Gone(x) == \E i \in items : cart[i].product_id = x
<1>1. /\ cart' = [i \in ItemIds |-> IF i \in items THEN NoItem ELSE cart[i]] /\ usedItems' = usedItems
      /\ wanted' = [wanted EXCEPT ![u] = [x \in Parts |-> IF Gone(x) THEN 0 ELSE @[x]]]
      /\ kept' = [kept EXCEPT ![u] = [x \in Parts |-> IF Gone(x) THEN 0 ELSE @[x]]]
      /\ cartCalls[c].op = "delete" /\ Done(c)
  BY DEF CommitDeleteLines, Emptied
<1>2. \A i \in items : i \in usedItems /\ cart[i].user_id \in {None, u}
  BY <1>1 DEF CartInv, WorksOn, NoCall
<1>3. ReadsTrue(u, c) \/ overlapped[u]
  BY DEF CartInv, Exact
<1>4. \A i \in ItemIds : cart'[i] = IF i \in items THEN NoItem ELSE cart[i]
  BY <1>1
<1>5. /\ wanted' \in [Customers -> [Parts -> Nat]] /\ kept' \in [Customers -> [Parts -> Nat]]
      /\ \A x \in Parts : Book(u, x)' = IF Gone(x) THEN 0 ELSE Book(u, x)
      /\ \A v \in Customers \ {u} : wanted'[v] = wanted[v] /\ kept'[v] = kept[v]
  <2>1. /\ wanted' \in [Customers -> [Parts -> Nat]] /\ kept' \in [Customers -> [Parts -> Nat]]
        /\ \A x \in Parts : /\ wanted'[u][x] = IF Gone(x) THEN 0 ELSE wanted[u][x]
                            /\ kept'[u][x] = IF Gone(x) THEN 0 ELSE kept[u][x]
        /\ \A v \in Customers \ {u} : wanted'[v] = wanted[v] /\ kept'[v] = kept[v]
    BY <1>1, <1>2 DEF CartInv, CartShape
  <2> HIDE DEF Gone
  <2> QED
    BY <2>1 DEF Book
<1>6. CartShape'
  <2>1. cart' = [i \in ItemIds |-> cart'[i]]
    BY <1>1
  <2> QED
    BY <1>1, <1>4, <1>5, <2>1, ShapeStays DEF CartInv, CartShape
<1>7. LinesMove
  BY <1>4 DEF CartInv, CartShape, LinesMove
<1>8. ASSUME ~overlapped[u]
      PROVE  Books(u)'
  <2>1. items \subseteq Lines(u) /\ Books(u)
    BY <1>1, <1>2, <1>3, <1>8 DEF ReadsTrue, CartInv, Exact
  <2>2. Lines(u)' = Lines(u) \ items
    BY <1>2, <1>4 DEF Lines, NoItem
  <2>3. \A j \in Lines(u) : cart[j].product_id \in Parts /\ (j \notin items => cart'[j] = cart[j])
    <3>1. \A j \in Lines(u) : cart[j].product_id \in Parts
      BY <1>2 DEF Lines, CartInv, CartShape, NoItem, Line
    <3> QED
      BY <1>4, <3>1 DEF Lines
  <2>4. \A j \in Lines(u) \ items : ~Gone(cart[j].product_id)
    BY <2>1 DEF Books
  <2>5. \A j, k \in Lines(u)' : cart'[j].product_id = cart'[k].product_id => j = k
    BY <2>1, <2>2, <2>3 DEF Books
  <2>6. \A j \in Lines(u)' : cart'[j].quantity = Book(u, cart[j].product_id)'
    <3>1. ASSUME NEW j \in Lines(u) \ items
          PROVE  cart[j].quantity = Book(u, cart[j].product_id)'
      <4>1. cart[j].product_id \in Parts /\ ~Gone(cart[j].product_id)
        BY <2>3, <2>4
      <4>2. cart[j].quantity = Book(u, cart[j].product_id)
        BY <2>1 DEF Books
      <4> HIDE DEF Gone
      <4>3. \A y \in Parts : ~Gone(y) => Book(u, y)' = Book(u, y)
        BY <1>5
      <4>4. PICK y \in Parts : y = cart[j].product_id /\ y = cart'[j].product_id
        BY <2>3, <4>1
      <4>5. cart[j].quantity = wanted'[u][y] + kept'[u][y]
        BY <4>1, <4>2, <4>3, <4>4 DEF Book
      <4> QED
        BY <4>4, <4>5 DEF Book
    <3> QED
      BY <2>2, <2>3, <3>1
  <2>7. ASSUME NEW y \in Parts, LinesOf(u, y)' = {}, ~Gone(y)
        PROVE  Book(u, y)' = 0
    <3>1. LinesOf(u, y) = {}
      BY <2>2, <2>3, <2>7 DEF LinesOf
    <3> QED
      BY <1>5, <2>1, <2>7, <3>1 DEF Books
  <2>8. \A y \in Parts : Gone(y) => Book(u, y)' = 0
    BY <1>5
  <2> HIDE DEF Gone
  <2> QED
    BY <2>5, <2>6, <2>7, <2>8 DEF Books
<1>9. \A j \in ItemIds : cart'[j] = cart[j] \/ {cart[j].user_id, cart'[j].user_id} \subseteq {None, u}
  BY <1>2, <1>4 DEF NoItem
<1> QED
  BY <1>1, <1>5, <1>6, <1>7, <1>8, <1>9, EndKeepsCart

\* A removal that is answered and rolled back: what it denies is still accounted for.
LEMMA ZeroKeepsCart ==
  ASSUME CartInv, NEW c \in CartCalls, AnswerZero(c)
  PROVE  CartInv'
<1> PICK u \in Customers, x \in Parts : u = cartCalls[c].user /\ x = cartCalls[c].product
  BY DEF AnswerZero, CartInv, WorksOn, NoCall
<1>1. /\ wanted' = [wanted EXCEPT ![u][x] = 0] /\ kept' = [kept EXCEPT ![u][x] = @ + wanted[u][x]]
      /\ UNCHANGED <<cart, usedItems>> /\ Done(c)
  BY DEF AnswerZero
<1>2. /\ wanted \in [Customers -> [Parts -> Nat]] /\ kept \in [Customers -> [Parts -> Nat]]
      /\ kept[u][x] + wanted[u][x] \in Nat
  BY DEF CartInv, CartShape
<1>3. /\ wanted' \in [Customers -> [Parts -> Nat]] /\ kept' \in [Customers -> [Parts -> Nat]]
      /\ wanted'[u][x] = 0 /\ kept'[u][x] = kept[u][x] + wanted[u][x]
      /\ \A y \in Parts \ {x} : wanted'[u][y] = wanted[u][y] /\ kept'[u][y] = kept[u][y]
      /\ \A v \in Customers \ {u} : wanted'[v] = wanted[v] /\ kept'[v] = kept[v]
  BY <1>1, <1>2
<1>4. \A y \in Parts : Book(u, y)' = Book(u, y)
  BY <1>2, <1>3 DEF Book
<1>5. CartShape' /\ LinesMove
  <2>1. usedItems \subseteq usedItems' /\ usedItems' \subseteq ItemIds /\ cart' = [i \in ItemIds |-> cart'[i]]
    BY <1>1 DEF CartInv, CartShape
  <2>2. CartShape'
    BY <1>1, <1>3, <2>1, ShapeStays
  <2> QED
    BY <1>1, <2>2 DEF LinesMove
<1>6. ASSUME ~overlapped[u]
      PROVE  Books(u)'
  <2>1. Books(u) /\ Lines(u)' = Lines(u) /\ \A y : LinesOf(u, y)' = LinesOf(u, y)
    BY <1>1, <1>6 DEF CartInv, Exact, Lines, LinesOf
  <2>2. \A i \in Lines(u) : cart[i].product_id \in Parts
    BY CartAssumption DEF Lines, CartInv, CartShape, NoItem, Line
  <2> QED
    BY <1>1, <1>4, <2>1, <2>2 DEF Books
<1> QED
  BY <1>1, <1>3, <1>5, <1>6, EndKeepsCart

\* The inductive invariant. A book can only be kept if the one request in flight has
\* read the lines as they still are at its commit.
THEOREM CartInvariance == CartSpec => []CartInv
<1>1. CartInit => CartInv
  <2> SUFFICES ASSUME CartInit
               PROVE  CartInv
    OBVIOUS
  <2>1. CartShape
    BY DEF CartInit, CartShape
  <2>2. \A c \in CartCalls : cartCalls[c] = NoCall /\ cartCalls[c].user = None
    BY DEF CartInit, NoCall
  <2>3. \A c \in CartCalls : WorksOn(c)
    BY <2>2 DEF WorksOn
  <2>4. ASSUME NEW u \in Customers
        PROVE  Exact(u)
    <3>1. Lines(u) = {}
      BY CartAssumption DEF CartInit, Lines, NoItem
    <3>2. Books(u)
      BY <3>1 DEF CartInit, Books, Book
    <3> QED
      BY <2>2, <3>2, CartAssumption DEF Exact, ReadsTrue
  <2> QED
    BY <2>1, <2>3, <2>4 DEF CartInv
<1>2. CartInv /\ [CartNext]_cartVars => CartInv'
  <2> SUFFICES ASSUME CartInv, [CartNext]_cartVars
               PROVE  CartInv'
    OBVIOUS
  <2>1. ASSUME NEW c \in CartCalls, CustomerAsks(c)
        PROVE  CartInv'
    BY <2>1, CustomersRead, AskKeepsCart
  <2>2. ASSUME NEW c \in CartCalls, CommitInsert(c) \/ CommitSet(c) \/ AnswerZero(c) \/ CommitDeleteLines(c)
        PROVE  CartInv'
    BY <2>2, InsertKeepsCart, SetKeepsCart, ZeroKeepsCart, DeleteKeepsCart
  <2>3. ASSUME NEW c \in CartCalls, CartCallFails(c)
        PROVE  CartInv'
    <3>1. /\ cartCalls[c] # NoCall /\ Done(c) /\ UNCHANGED <<cart, usedItems, wanted, kept>>
          /\ overlapped' = overlapped /\ cartCalls' = [cartCalls EXCEPT ![c] = NoCall]
      BY <2>3 DEF CartCallFails, Done
    <3>2. CartShape' /\ LinesMove
      BY <3>1 DEF CartInv, CartShape, LinesMove
    <3>3. PICK u \in Customers : u = cartCalls[c].user
      BY <3>1 DEF CartInv, WorksOn
    <3>4. ~overlapped[u] => Books(u)'
      BY <3>1 DEF CartInv, Exact, Books, Book, Lines, LinesOf
    <3> QED
      BY <3>1, <3>2, <3>3, <3>4, EndKeepsCart
  <2>4. CASE UNCHANGED cartVars
    <3>1. UNCHANGED <<cart, usedItems, cartCalls, wanted, kept, overlapped>>
      BY <2>4 DEF cartVars
    <3>2. CartShape'
      BY <3>1 DEF CartInv, CartShape
    <3>3. ASSUME NEW c \in CartCalls
          PROVE  WorksOn(c)'
      BY <3>1 DEF CartInv, WorksOn
    <3>4. ASSUME NEW u \in Customers
          PROVE  overlapped'[u] \/ Exact(u)'
      BY <3>1, <3>2, OthersExact DEF CartInv, CartShape
    <3> QED
      BY <3>2, <3>3, <3>4 DEF CartInv
  <2> QED
    BY <2>1, <2>2, <2>3, <2>4 DEF CartNext
<1> QED
  BY <1>1, <1>2, PTL DEF CartSpec

\* For any number of customers, products and requests, failed ones included, the
\* cart of a customer whose requests never overlapped holds what the answered ones add
\* up to, and what those that were answered "removed" have left.
THEOREM CartAddsUp == CartSpec => []CartExact
<1>1. CartInv => CartExact
  <2> SUFFICES ASSUME CartInv, NEW u \in Customers, ~overlapped[u], NEW x \in Parts
               PROVE  Cardinality(LinesOf(u, x)) <= 1 /\ InCart(u, x) = wanted[u][x] + kept[u][x]
    BY DEF CartExact
  <2>1. Books(u)
    BY DEF CartInv, Exact
  <2>2. CASE LinesOf(u, x) = {}
    BY <2>1, <2>2, NoLineSum, FS_EmptySet DEF Books, Book
  <2>3. ASSUME NEW i \in LinesOf(u, x)
        PROVE  Cardinality(LinesOf(u, x)) <= 1 /\ InCart(u, x) = wanted[u][x] + kept[u][x]
    <3>1. LinesOf(u, x) = {i} /\ i \in Lines(u) /\ cart[i].product_id = x
      BY <2>1, <2>3 DEF LinesOf, Books
    <3>2. cart[i].quantity \in Nat /\ cart[i].quantity = wanted[u][x] + kept[u][x]
      BY <2>1, <3>1, CartAssumption DEF Books, Book, CartInv, CartShape, Lines, NoItem, Line
    <3> QED
      BY <3>1, <3>2, OneLineSum, FS_Singleton
  <2> QED
    BY <2>2, <2>3
<1> QED
  BY <1>1, CartInvariance, PTL

\* No write of a request that had read a line brings it back after its removal.
THEOREM RemovedForGood == CartSpec => RemovedStaysRemoved
<1> DEFINE A == \A i \in usedItems : cart[i] = NoItem => cart'[i] = NoItem
<1>1. CartInv /\ [CartNext]_cartVars => [A]_cartVars
  <2> SUFFICES ASSUME CartInv, CartNext, NEW i \in usedItems, cart[i] = NoItem
               PROVE  cart'[i] = NoItem
    OBVIOUS
  <2>1. i \in ItemIds
    BY DEF CartInv, CartShape
  <2>2. ASSUME NEW c \in CartCalls, CommitInsert(c) \/ CommitSet(c)
        PROVE  cart'[i] = NoItem
    BY <2>1, <2>2 DEF CommitInsert, CommitSet, LineIsThere, CartInv, CartShape
  <2>3. ASSUME NEW c \in CartCalls, CommitDeleteLines(c)
        PROVE  cart'[i] = NoItem
    BY <2>1, <2>3 DEF CommitDeleteLines
  <2>4. ASSUME NEW c \in CartCalls, CustomerAsks(c) \/ AnswerZero(c) \/ CartCallFails(c)
        PROVE  cart' = cart
    BY <2>4 DEF CustomerAsks, AddItem, UpdateItem, RemoveItem, ClearCart, Ask, AnswerZero, CartCallFails
  <2> QED
    BY <2>2, <2>3, <2>4 DEF CartNext
<1> QED
  BY <1>1, CartInvariance, PTL DEF CartSpec, RemovedStaysRemoved

\* The lines, the books and the flags keep their types.
THEOREM CartTyped == CartSpec => []CartTypeOK
<1> DEFINE Flags == overlapped \in [Customers -> BOOLEAN]
<1>1. CartInit => Flags
  BY DEF CartInit
<1>2. Flags /\ [CartNext]_cartVars => Flags'
  <2> SUFFICES ASSUME Flags, [CartNext]_cartVars
               PROVE  Flags'
    OBVIOUS
  <2>1. ASSUME NEW c, NEW call, Ask(c, call)
        PROVE  Flags'
    BY <2>1, Zenon DEF Ask
  <2>2. ASSUME NEW c \in CartCalls, CustomerAsks(c)
        PROVE  \E call : Ask(c, call)
    BY <2>2 DEF CustomerAsks, AddItem, UpdateItem, RemoveItem, ClearCart
  <2>3. ASSUME NEW c \in CartCalls, \/ CommitInsert(c) \/ CommitSet(c) \/ AnswerZero(c)
                                  \/ CommitDeleteLines(c) \/ CartCallFails(c)
        PROVE  overlapped' = overlapped
    BY <2>3 DEF CommitInsert, CommitSet, AnswerZero, CommitDeleteLines, CartCallFails, Done
  <2> QED
    BY <2>1, <2>2, <2>3 DEF CartNext, cartVars
<1>3. CartInv /\ Flags => CartTypeOK
  BY DEF CartInv, CartShape, WorksOn, NoCall, CartTypeOK
<1> QED
  BY <1>1, <1>2, <1>3, CartInvariance, PTL DEF CartSpec

------------------------------------------------------------------------------
(* Fitments.                                                               *)

\* Every answer has its row, in whatever order the database gives them.
THEOREM AnswersExplained == FitmentsSpec => []FitmentExplained
<1> DEFINE Stored == fitments \subseteq FitmentRow
<1>1. FitmentsInit => Stored /\ FitmentExplained
  BY DEF FitmentsInit, FitmentExplained
<1>2. Stored /\ FitmentExplained /\ [FitmentsNext]_fitmentsVars => Stored' /\ FitmentExplained'
  <2> SUFFICES ASSUME Stored, FitmentExplained, [FitmentsNext]_fitmentsVars
               PROVE  Stored' /\ FitmentExplained'
    OBVIOUS
  <2>1. CASE UNCHANGED fitmentsVars
    BY <2>1 DEF fitmentsVars, FitmentExplained, InYears
  <2>2. ASSUME NEW q \in Query, CheckFitment(q)
        PROVE  Stored' /\ FitmentExplained'
    <3> DEFINE Fits(f) == f.fitment_type # "incompatible" /\ (q.year = None \/ InYears(f, q.year))
               decisive == {f \in fitments : f.make = q.make /\ f.model = q.model}
    <3>1. query' = q /\ fitments' = fitments
      BY <2>2 DEF CheckFitment
    <3>2. CASE Found(q) = {}
      <4>1. answer' = Unknown
        BY <2>2, <3>2 DEF CheckFitment
      <4> QED
        BY <3>1, <3>2, <4>1 DEF FitmentExplained, Found
    <3>3. CASE Found(q) # {}
      <4>1. PICK f \in Best(q) :
              answer' = IF q.year = None \/ InYears(f, q.year)
                        THEN AnswerOf(f.fitment_type # "incompatible", f.fitment_type)
                        ELSE AnswerOf(FALSE, "incompatible")
        BY <2>2, <3>3 DEF CheckFitment
      <4>2. f \in Found(q) /\ f \in FitmentRow
        BY <4>1 DEF Best, Found
      <4>3. q.model # None /\ decisive # {} => f \in decisive
        BY <4>1 DEF Best, Found
      <4>4. answer'.compatible = Fits(f) /\ answer' # Unknown
        BY <4>1, <4>2 DEF AnswerOf, Unknown, FitmentRow, FitmentTypes, Universal
      <4> QED
        BY <3>1, <3>3, <4>2, <4>3, <4>4 DEF FitmentExplained, Found
    <3> QED
      BY <3>1, <3>2, <3>3
  <2> QED
    BY <2>1, <2>2 DEF FitmentsNext
<1> QED
  BY <1>1, <1>2, PTL DEF FitmentsSpec

\* The answer is of its type, and the rows stay.
THEOREM FitmentsTyped == FitmentsSpec => []FitmentsTypeOK
<1>1. FitmentsInit => FitmentsTypeOK
  BY DEF FitmentsInit, FitmentsTypeOK, Unknown, AnswerOf
<1>2. FitmentsTypeOK /\ [FitmentsNext]_fitmentsVars => FitmentsTypeOK'
  <2> SUFFICES ASSUME FitmentsTypeOK, [FitmentsNext]_fitmentsVars
               PROVE  FitmentsTypeOK'
    OBVIOUS
  <2>1. ASSUME NEW q \in Query, CheckFitment(q)
        PROVE  FitmentsTypeOK'
    <3>1. query' = q /\ fitments' = fitments
      BY <2>1 DEF CheckFitment
    <3>2. \/ answer' = Unknown
          \/ \E f \in Best(q) : \/ answer' = AnswerOf(f.fitment_type # "incompatible", f.fitment_type)
                                \/ answer' = AnswerOf(FALSE, "incompatible")
      BY <2>1 DEF CheckFitment
    <3>3. \A f \in Best(q) : f.fitment_type \in FitmentTypes
      <4>1. \A f \in Best(q) : f \in fitments
        BY DEF Best, Found
      <4> QED
        BY <4>1 DEF FitmentsTypeOK, FitmentRow, Universal, FitmentTypes
    <3>4. answer' \in [compatible : BOOLEAN, fitment_type : FitmentTypes \cup {"unknown"}]
      <4>1. \A b \in BOOLEAN, t \in FitmentTypes \cup {"unknown"} :
              AnswerOf(b, t) \in [compatible : BOOLEAN, fitment_type : FitmentTypes \cup {"unknown"}]
        BY DEF AnswerOf
      <4>2. "unknown" \in FitmentTypes \cup {"unknown"} /\ "incompatible" \in FitmentTypes \cup {"unknown"}
        BY DEF FitmentTypes
      <4>3. \A f : (f.fitment_type # "incompatible") \in BOOLEAN
        OBVIOUS
      <4> QED
        BY <3>2, <3>3, <4>1, <4>2, <4>3 DEF Unknown
    <3> QED
      BY <3>1, <3>4 DEF FitmentsTypeOK
  <2>2. CASE UNCHANGED fitmentsVars
    BY <2>2 DEF fitmentsVars, FitmentsTypeOK
  <2> QED
    BY <2>1, <2>2 DEF FitmentsNext
<1> QED
  BY <1>1, <1>2, PTL DEF FitmentsSpec

=============================================================================
