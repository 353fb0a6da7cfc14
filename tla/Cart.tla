-------------------------------- MODULE Cart --------------------------------
(***************************************************************************)
(* The server-side cart (backend/app/api/v1/marketplace.py, add_cart_item  *)
(* to clear_cart).  A line is a row of marketplace_cart_items; no          *)
(* constraint makes (user_id, product_id) unique, and a handler writes     *)
(* what it computed from the line it has read.                             *)
(***************************************************************************)
EXTENDS Naturals, FiniteSets, FiniteSetsExt, Orm

CONSTANTS
  Customers,
  Parts,         \* product ids, taken as they are sent
  ItemIds,       \* the UUIDs lines can get; one is never given twice
  CartCalls,     \* requests that can be in flight
  MaxQuantity    \* a bound on the quantity of a line

ASSUME CartAssumption ==
  /\ MaxQuantity \in Nat \ {0}
  /\ None \notin Customers \cup Parts

VARIABLES
  cart,       \* marketplace_cart_items
  usedItems,  \* ItemIds given away so far
  cartCalls,  \* requests between their reads and their commit
  wanted,     \* what the answered requests of a customer say is in the cart
  kept,       \* what stays in it although a request said that it was removed
  overlapped  \* two requests of one customer have been in flight together

cartVars == <<cart, usedItems, cartCalls, wanted, kept, overlapped>>

NoItem == [user_id |-> None, product_id |-> None, quantity |-> 0]
NoCall == [op |-> "idle", user |-> None]
Line(u, x, q) == [user_id |-> u, product_id |-> x, quantity |-> q]
Lines(u) == {i \in ItemIds : cart[i].user_id = u}
LinesOf(u, x) == {i \in Lines(u) : cart[i].product_id = x}
InCart(u, x) == MapThenSumSet(LAMBDA i : cart[i].quantity, LinesOf(u, x))

CartTypeOK ==
  /\ \A i \in ItemIds : cart[i] = NoItem \/
       \E u \in Customers, x \in Parts, q \in 1..MaxQuantity : cart[i] = Line(u, x, q)
  /\ usedItems \subseteq ItemIds
  /\ \A c \in CartCalls : cartCalls[c].op \in {"idle", "insert", "set", "zero", "delete"}
  /\ wanted \in [Customers -> [Parts -> Nat]] /\ kept \in [Customers -> [Parts -> Nat]]
  /\ overlapped \in [Customers -> BOOLEAN]

CartInit ==
  /\ cart = [i \in ItemIds |-> NoItem]
  /\ usedItems = {}
  /\ cartCalls = [c \in CartCalls |-> NoCall]
  /\ wanted = [u \in Customers |-> [x \in Parts |-> 0]]
  /\ kept = wanted
  /\ overlapped = [u \in Customers |-> FALSE]

------------------------------------------------------------------------------
(* What the handlers read.                                                 *)

Ask(c, call) ==
  /\ cartCalls[c] = NoCall
  /\ cartCalls' = [cartCalls EXCEPT ![c] = call]
  /\ overlapped' = [overlapped EXCEPT ![call.user] =
       @ \/ \E d \in CartCalls : cartCalls[d].user = call.user]
  /\ UNCHANGED <<cart, usedItems, wanted, kept>>

Done(c) == cartCalls' = [cartCalls EXCEPT ![c] = NoCall] /\ UNCHANGED overlapped

\* Defect variant: the line found keeps the larger of the two quantities.
Increased_Max(i, q) == IF q > cart[i].quantity THEN q ELSE cart[i].quantity

Increased(i, q) == cart[i].quantity + q

\* POST /marketplace/cart: a new line, or more of the one that was found. Two
\* lines of the product are a MultipleResultsFound.
AddItem(c, u, x, q) ==
  \/ /\ LinesOf(u, x) = {}
     /\ Ask(c, [op |-> "insert", user |-> u, line |-> Line(u, x, q)])
  \/ \E i \in LinesOf(u, x) :
       /\ LinesOf(u, x) = {i}
       /\ Increased(i, q) <= MaxQuantity   \* the bound
       /\ Ask(c, [op |-> "set", user |-> u, item |-> i, line |-> Line(u, x, Increased(i, q)), plus |-> q])

\* PATCH /marketplace/cart/{id}.
UpdateItem(c, u, i, q) ==
  /\ i \in Lines(u)
  /\ IF q = 0 THEN Ask(c, [op |-> "zero", user |-> u, product |-> cart[i].product_id])
     ELSE Ask(c, [op |-> "set", user |-> u, item |-> i, line |-> Line(u, cart[i].product_id, q), plus |-> 0])

\* DELETE /marketplace/cart/{id}, and of the whole cart: the lines it finds.
RemoveItem(c, u, i) ==
  /\ i \in Lines(u)
  /\ Ask(c, [op |-> "delete", user |-> u, items |-> {i}])

ClearCart(c, u) ==
  /\ Lines(u) # {}
  /\ Ask(c, [op |-> "delete", user |-> u, items |-> Lines(u)])

------------------------------------------------------------------------------
(* What they write.                                                        *)

CommitInsert(c) ==
  LET call == cartCalls[c] IN
  /\ call.op = "insert"
  /\ \E i \in ItemIds \ usedItems :
       /\ cart' = [cart EXCEPT ![i] = call.line]
       /\ usedItems' = usedItems \cup {i}
  /\ wanted' = [wanted EXCEPT ![call.user][call.line.product_id] = @ + call.line.quantity]
  /\ Done(c)
  /\ UNCHANGED kept

\* Defect variant: the write does not look whether the line is still there.
LineIsThere_Upsert(i) == i \in usedItems

\* The UPDATE matches a row; otherwise it is a StaleDataError.
LineIsThere(i) == cart[i] # NoItem

\* The quantity goes into the column as it was computed, whatever it holds now.
CommitSet(c) ==
  LET call == cartCalls[c] IN
  /\ call.op = "set"
  /\ LineIsThere(call.item)
  /\ cart' = [cart EXCEPT ![call.item] = call.line]
  /\ wanted' = [wanted EXCEPT ![call.user][call.line.product_id] =
       IF call.plus = 0 THEN call.line.quantity ELSE @ + call.plus]
  /\ kept' = [kept EXCEPT ![call.user][call.line.product_id] = IF call.plus = 0 THEN 0 ELSE @]
  /\ Done(c)
  /\ UNCHANGED usedItems

\* The exception of a zero quantity: the client is told 204, "Item removed", and
\* get_db rolls the deletion back.
AnswerZero(c) ==
  LET call == cartCalls[c] IN
  /\ call.op = "zero"
  /\ wanted' = [wanted EXCEPT ![call.user][call.product] = 0]
  /\ kept' = [kept EXCEPT ![call.user][call.product] = @ + wanted[call.user][call.product]]
  /\ Done(c)
  /\ UNCHANGED <<cart, usedItems>>

Emptied(books, u, items) ==
  [books EXCEPT ![u] = [x \in Parts |-> IF \E i \in items : cart[i].product_id = x THEN 0 ELSE @[x]]]

\* A line that has gone meanwhile is no error.
CommitDeleteLines(c) ==
  LET call == cartCalls[c] IN
  /\ call.op = "delete"
  /\ cart' = [i \in ItemIds |-> IF i \in call.items THEN NoItem ELSE cart[i]]
  /\ wanted' = Emptied(wanted, call.user, call.items)
  /\ kept' = Emptied(kept, call.user, call.items)
  /\ Done(c)
  /\ UNCHANGED usedItems

\* A session lost, or a row to update gone: the client has an error, or no answer.
CartCallFails(c) ==
  /\ cartCalls[c] # NoCall
  /\ Done(c)
  /\ UNCHANGED <<cart, usedItems, wanted, kept>>

CustomerAsks(c) ==
  \E u \in Customers :
    \/ \E x \in Parts, q \in 1..MaxQuantity : AddItem(c, u, x, q)
    \/ \E i \in ItemIds, q \in 0..MaxQuantity : UpdateItem(c, u, i, q)
    \/ \E i \in ItemIds : RemoveItem(c, u, i)
    \/ ClearCart(c, u)

CartNext ==
  \E c \in CartCalls :
    \/ CustomerAsks(c)
    \/ CommitInsert(c) \/ CommitSet(c) \/ AnswerZero(c) \/ CommitDeleteLines(c)
    \/ CartCallFails(c)

CartSpec == CartInit /\ [][CartNext]_cartVars

------------------------------------------------------------------------------
(* Properties.                                                             *)

\* A customer whose requests never overlapped has one line per product, with
\* what the answered requests add up to, whatever failed in between, and with
\* what the removals by a zero quantity have left. (Two adds in flight together
\* make two lines, and every later add of that product fails; an add and an
\* update lose one of the two.)
CartExact ==
  \A u \in Customers : ~overlapped[u] =>
    \A x \in Parts : /\ Cardinality(LinesOf(u, x)) <= 1
                     /\ InCart(u, x) = wanted[u][x] + kept[u][x]

\* "Update item quantity (set to 0 to remove)": a product that a customer, one
\* request after the other, has set to 0 is not in the cart any more. (It is:
\* update_cart_item answers 204 by raising an exception, and the deletion is
\* rolled back.)
ZeroRemoves ==
  \A u \in Customers : ~overlapped[u] =>
    \A x \in Parts : wanted[u][x] = 0 => LinesOf(u, x) = {}

\* A line that was removed, or cleared away with the cart, is not brought back by
\* an add or an update that had read it before.
RemovedStaysRemoved ==
  [][\A i \in usedItems : cart[i] = NoItem => cart'[i] = NoItem]_cartVars

=============================================================================
