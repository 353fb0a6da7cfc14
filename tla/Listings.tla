------------------------------ MODULE Listings ------------------------------
(***************************************************************************)
(* The sellers' side of the marketplace (backend/app/api/v1/marketplace.py *)
(* and models/marketplace.py): creating a product under a client request   *)
(* id, with its vendor and category found or created on the way; updating  *)
(* and deleting it under the ownership rule; the orders that name it and   *)
(* the sales its seller sees.                                              *)
(*                                                                         *)
(* A handler reads in its first step and writes and commits in its second. *)
(* The app sends a submission again, with the same id, until it has an     *)
(* answer, and a late copy may arrive after that.                          *)
(***************************************************************************)
EXTENDS Naturals, FiniteSets, Orm

CONSTANTS
  Sellers,       \* users with the role seller
  Admins,
  DisplayName,   \* _seller_display_name of every user
  Keys,          \* client request ids
  Form,          \* what was filled in under each key: seller and category
  ProductIds,    \* the UUIDs products can get; one is never given twice
  VendorIds,
  Calls          \* requests that can be in flight

Users == Sellers \cup Admins
Names == {DisplayName[u] : u \in Users}
Categories == {None, "spare-parts"}   \* none given, or the one that may be missing

ASSUME ListingsAssumption ==
  /\ DOMAIN DisplayName = Users
  /\ Form \in [Keys -> [seller : Users, category : Categories]]
  /\ None \notin Keys \cup Users \cup ProductIds \cup VendorIds \cup Names

VARIABLES
  products,    \* marketplace_products
  vendors,     \* marketplace_vendors: the name of each row, None where there is none
  spareParts,  \* there is a category row with the slug "spare-parts"
  ordered,     \* product ids that some order item names
  usedIds,     \* ProductIds given away so far
  submitted,   \* keys the app has posted at least once
  answers,     \* the successful answers to posts: <<key, product id>>
  calls        \* requests between their reads and their commit

listingsVars == <<products, vendors, spareParts, ordered, usedIds, submitted, answers, calls>>

ProductRow ==
  [client_request_id : Keys \cup {None}, seller_user_id : Users \cup {None},
   vendor_id : VendorIds, vendor : Names, category : Categories]

NoProduct == [client_request_id |-> None, seller_user_id |-> None,
              vendor_id |-> None, vendor |-> None, category |-> None]
Idle == [op |-> "idle"]
Rows == {p \in ProductIds : products[p] # NoProduct}

ListingsTypeOK ==
  /\ products \in [ProductIds -> ProductRow \cup {NoProduct}]
  /\ vendors \in [VendorIds -> Names \cup {None}]
  /\ spareParts \in BOOLEAN
  /\ usedIds \subseteq ProductIds /\ Rows \subseteq usedIds /\ ordered \subseteq usedIds
  /\ submitted \subseteq Keys /\ answers \subseteq submitted \X usedIds
  /\ \A c \in Calls : calls[c].op \in {"idle", "create", "update", "delete"}

\* At most one product, of the time before seller_user_id: known by its vendor's
\* name.
ListingsInit ==
  /\ \E old \in {{}} \cup {{p} : p \in ProductIds}, v \in VendorIds, n \in Names :
       /\ products = [q \in ProductIds |->
            IF q \in old THEN [NoProduct EXCEPT !.vendor_id = v, !.vendor = n] ELSE NoProduct]
       /\ vendors = [w \in VendorIds |-> IF w = v /\ old # {} THEN n ELSE None]
       /\ usedIds = old
  /\ spareParts = FALSE
  /\ ordered = {} /\ submitted = {} /\ answers = {}
  /\ calls = [c \in Calls |-> Idle]

------------------------------------------------------------------------------
(* What the handlers read.                                                 *)

\* _ensure_owner_or_admin; the queries of my_listings and list_my_sales use the
\* same rule, without the admins.
Owns(u, row) ==
  \/ row.seller_user_id = u
  \/ row.seller_user_id = None /\ row.vendor = DisplayName[u]

MayEdit(u, row) == u \in Admins \/ Owns(u, row)

\* list_my_sales: the sold products of u.
Sales(u) == {p \in ordered \cap Rows : Owns(u, products[p])}

\* _get_or_create_vendor: the row asked for, or the one with the seller's name;
\* None where a row has to be created.  With two rows of that name there is no
\* answer (MultipleResultsFound).
VendorFor(u, asked) ==
  LET named == {v \in VendorIds : vendors[v] = DisplayName[u]} IN
  IF asked # None THEN {v \in {asked} : vendors[v] # None}
  ELSE CASE named = {}              -> {None}
         [] Cardinality(named) = 1  -> named
         [] OTHER                   -> {}

\* _resolve_category wants the row "spare-parts" inserted.
InsertsCategory(category) == category = "spare-parts" /\ ~spareParts

\* The product an earlier copy of the submission has made.
Original(k) == {p \in Rows : products[p].client_request_id = k}

------------------------------------------------------------------------------
(* Creating a product.                                                     *)

Begin(c, call) == calls[c] = Idle /\ calls' = [calls EXCEPT ![c] = call]
End(c) == calls' = [calls EXCEPT ![c] = Idle]

\* A replay of a committed submission is answered with the product it made.
CreateReplayed(k) ==
  /\ \E p \in Original(k) : answers' = answers \cup {<<k, p>>}
  /\ submitted' = submitted \cup {k}
  /\ UNCHANGED <<products, vendors, spareParts, ordered, usedIds, calls>>

\* Otherwise the handler looks up category and vendor and goes on to its inserts.
CreateProduct(c, k) ==
  /\ Original(k) = {}
  /\ \E asked \in VendorIds \cup {None} : \E v \in VendorFor(Form[k].seller, asked) :
       Begin(c, [op |-> "create", key |-> k, vendor_id |-> v,
                 insertsCategory |-> InsertsCategory(Form[k].category)])
  /\ submitted' = submitted \cup {k}
  /\ UNCHANGED <<products, vendors, spareParts, ordered, usedIds, answers>>

\* The product and, where it was missing, its vendor.
Inserted(k, found, v) ==
  /\ found = None => vendors[v] = None
  /\ vendors' = IF found = None THEN [vendors EXCEPT ![v] = DisplayName[Form[k].seller]] ELSE vendors
  /\ \E p \in ProductIds \ usedIds :
       /\ products' = [products EXCEPT ![p] =
            [client_request_id |-> k, seller_user_id |-> Form[k].seller,
             vendor_id |-> v, vendor |-> vendors'[v], category |-> Form[k].category]]
       /\ usedIds' = usedIds \cup {p}
       /\ answers' = answers \cup {<<k, p>>}

\* Defect variant: client_request_id has no unique index.
KeyIsFree_NoIndex(k) == TRUE

\* The unique index on client_request_id.
KeyIsFree(k) == Original(k) = {}

\* The inserts and the commit. The unique indices on client_request_id and slug
\* refuse a row that another request has committed meanwhile.
CommitCreate(c) ==
  LET call == calls[c] IN
  /\ call.op = "create"
  /\ KeyIsFree(call.key)
  /\ call.insertsCategory => ~spareParts
  /\ \E v \in IF call.vendor_id = None THEN VendorIds ELSE {call.vendor_id} :
       Inserted(call.key, call.vendor_id, v)
  /\ spareParts' = (spareParts \/ call.insertsCategory)
  /\ End(c)
  /\ UNCHANGED <<ordered, submitted>>

------------------------------------------------------------------------------
(* The other operations.                                                   *)

\* Defect variant: the product goes to whoever edited it last.
Edited_TakesOver(u, row, v, category) ==
  [row EXCEPT !.vendor_id = IF v = None THEN @ ELSE v,
              !.vendor    = IF v = None THEN @ ELSE vendors[v],
              !.category  = IF category = None THEN @ ELSE category,
              !.seller_user_id = u]

\* Defect variant: the vendor's name is not copied along with its id.
Edited_KeepsName(u, row, v, category) ==
  [row EXCEPT !.vendor_id = IF v = None THEN @ ELSE v,
              !.category  = IF category = None THEN @ ELSE category]

\* The fields of the body that are not null.
Edited(u, row, v, category) ==
  [row EXCEPT !.vendor_id = IF v = None THEN @ ELSE v,
              !.vendor    = IF v = None THEN @ ELSE vendors[v],
              !.category  = IF category = None THEN @ ELSE category]

\* PUT and PATCH /products/{id}.
UpdateProduct(c, u, p, v, category) ==
  /\ p \in Rows
  /\ MayEdit(u, products[p])
  /\ v # None => vendors[v] # None
  /\ Edited(u, products[p], v, category) # products[p]
  /\ Begin(c, [op |-> "update", id |-> p,
               changes |-> OrmChanges(products[p], Edited(u, products[p], v, category)),
               insertsCategory |-> InsertsCategory(category)])
  /\ UNCHANGED <<products, vendors, spareParts, ordered, usedIds, submitted, answers>>

\* The UPDATE finds the row; a row that is gone is a StaleDataError.
CommitUpdate(c) ==
  LET call == calls[c] IN
  /\ call.op = "update"
  /\ call.id \in Rows
  /\ call.insertsCategory => ~spareParts
  /\ products' = [products EXCEPT ![call.id] = OrmFlush(@, call.changes)]
  /\ spareParts' = (spareParts \/ call.insertsCategory)
  /\ End(c)
  /\ UNCHANGED <<vendors, ordered, usedIds, submitted, answers>>

\* DELETE /products/{id}.
DeleteProduct(c, u, p) ==
  /\ p \in Rows
  /\ MayEdit(u, products[p])
  /\ Begin(c, [op |-> "delete", id |-> p])
  /\ UNCHANGED <<products, vendors, spareParts, ordered, usedIds, submitted, answers>>

\* Order items keep the product's id: they have no foreign key to it.
CommitDelete(c) ==
  /\ calls[c].op = "delete"
  /\ products' = [products EXCEPT ![calls[c].id] = NoProduct]
  /\ End(c)
  /\ UNCHANGED <<vendors, spareParts, ordered, usedIds, submitted, answers>>

\* POST /orders: the items are taken as they are sent, the product of an old
\* page may be gone by then.
CreateOrder(p) ==
  /\ p \in usedIds
  /\ ordered = {}   \* a bound: one product is ever ordered
  /\ ordered' = {p}
  /\ UNCHANGED <<products, vendors, spareParts, usedIds, submitted, answers, calls>>

\* A unique index refuses the insert, the row to update is gone, or the session
\* is lost: get_db rolls back, and the client has no answer.
CallFails(c) ==
  /\ calls[c] # Idle
  /\ End(c)
  /\ UNCHANGED <<products, vendors, spareParts, ordered, usedIds, submitted, answers>>

SellerAsks(c) ==
  \/ \E k \in Keys : CreateProduct(c, k)
  \/ \E u \in Users, p \in ProductIds :
       \/ DeleteProduct(c, u, p)
       \/ \E v \in VendorIds \cup {None}, g \in Categories : UpdateProduct(c, u, p, v, g)

Committed(c) == CommitCreate(c) \/ CommitUpdate(c) \/ CommitDelete(c)

ListingsNext ==
  \/ \E k \in Keys : CreateReplayed(k)
  \/ \E c \in Calls : SellerAsks(c) \/ Committed(c) \/ CallFails(c)
  \/ \E p \in ProductIds : CreateOrder(p)

ListingsSpec == ListingsInit /\ [][ListingsNext]_listingsVars

------------------------------------------------------------------------------
(* Properties.                                                             *)

\* "A retried/replayed POST with the same key returns the original product
\* instead of inserting a duplicate row": whatever copies were in flight, all
\* answers to a submission that still name a product name the same one, and it
\* was made by that submission.  (A copy that arrives after the product was
\* deleted makes it again.)
ReplaysAgree ==
  \A a \in answers : a[2] \in Rows =>
    /\ products[a[2]].client_request_id = a[1]
    /\ \A b \in answers : b[1] = a[1] /\ b[2] \in Rows => b[2] = a[2]

\* The vendor's name on a product is that of the vendor it points to, although
\* concurrent updates write the two columns one by one: it takes two vendors of
\* one name to tear them apart.
TwinVendors == \E v, w \in VendorIds : v # w /\ vendors[v] = vendors[w] /\ vendors[v] # None
VendorNameTrue ==
  \/ TwinVendors
  \/ \A p \in Rows : products[p].vendor = vendors[products[p].vendor_id]

\* A sale leaves a seller's list only when its product is deleted, or when an
\* old product that is theirs by name alone is moved to another vendor; no
\* update, by an admin or on a stale row, moves it to another seller.
SalesKept ==
  [][\A u \in Sellers : \A p \in Sales(u) \ Sales(u)' :
       \/ p \notin Rows'
       \/ products[p].seller_user_id = None /\ products'[p].vendor # products[p].vendor]_listingsVars

=============================================================================
