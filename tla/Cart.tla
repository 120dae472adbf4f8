-------------------------------- MODULE Cart --------------------------------
(***************************************************************************)
(* The cart service (internal/cart): requests of browsers that are guests, *)
(* known by a cookie, or signed in.                                        *)
(*                                                                         *)
(* The service opens no transaction: every query of a request is a step of *)
(* its own, and the requests of one browser and of others overlap.  A      *)
(* browser takes over the cookie of an answer when it gets the answer,     *)
(* which may be lost.  Checkout is present by the one statement it runs on *)
(* the cart tables.                                                        *)
(***************************************************************************)
EXTENDS Integers, FiniteSets

CONSTANTS
  Carts, Users, Variants,
  Items,       \* cart_items ids, each used once
  MaxLineQty,  \* the cap on a line
  Browsers,
  Requests,    \* calls of the cart endpoints
  Calls,       \* what each request may ask for
  Account,     \* who signs in with each browser
  Guest, NoCart, NoItem, NoVariant, NoCall

Ops == {"view", "add", "update", "remove"}
Call == [browser : Browsers, op : Ops, qty : 0..(MaxLineQty + 1),
         variant : Variants \cup {NoVariant}]

ASSUME CartAssumption ==
  /\ MaxLineQty \in Nat \ {0}
  /\ Calls \in [Requests -> SUBSET Call]
  /\ Account \in [Browsers -> Users]
  /\ Guest \notin Users
  /\ NoCart \notin Carts
  /\ NoItem \notin Items
  /\ NoVariant \notin Variants
  /\ NoCall \notin Call

VARIABLES
  carts,    \* the carts table, status "none" for no row
  items,    \* the cart_items table, qty 0 for no row yet, cart NoCart once deleted
  browser,  \* the token and the cookie of each browser
  request   \* where each request stands

cartServiceVars == <<carts, items, browser, request>>

Answer == {"ok", "invalid", "notFound", "tooLarge", "unresolved", "error"}

NoRequest == [at |-> "idle", call |-> NoCall, user |-> Guest, cookie |-> NoCart,
              cart |-> NoCart, item |-> NoItem, setCookie |-> NoCart]

Unused == {i \in Items : items[i].qty = 0}
Live == {i \in Items : items[i].cart # NoCart}
ActiveOf(u) == {c \in Carts : carts[c].user = u /\ carts[c].status = "active"}
Line(c, v) == {i \in Live : items[i].cart = c /\ items[i].variant = v}
LineQty(c, v) ==
  IF Line(c, v) = {} THEN 0 ELSE items[CHOOSE i \in Line(c, v) : TRUE].qty

GoTo(r, step) == request' = [request EXCEPT ![r].at = step]
Asks(r, op) == request[r].call.op = op

----------------------------------------------------------------------------
(* The queries that write *)

(* Mutant: the index of active carts is not unique. *)
InsertCartUnindexed(c, u) ==
  /\ carts[c].status = "none"
  /\ carts' = [carts EXCEPT ![c] = [user |-> u, status |-> "active"]]

(* CreateCart, under the unique index of active user carts. *)
InsertCart(c, u) ==
  /\ carts[c].status = "none"
  /\ u # Guest => ActiveOf(u) = {}
  /\ carts' = [carts EXCEPT ![c] = [user |-> u, status |-> "active"]]

AddLine(c, v, q) ==
  /\ Line(c, v) = {}
  /\ \E i \in Unused : items' = [items EXCEPT ![i] = [cart |-> c, variant |-> v, qty |-> q]]

(* Mutant: the table has no CHECK on the running total. *)
UpsertCartItemUncapped(c, v, q) ==
  AddLine(c, v, q) \/ \E i \in Line(c, v) : items' = [items EXCEPT ![i].qty = @ + q]

(* Mutant: ON CONFLICT sets the quantity instead of adding to it. *)
UpsertCartItemReplacing(c, v, q) ==
  AddLine(c, v, q) \/ \E i \in Line(c, v) : items' = [items EXCEPT ![i].qty = q]

(* One statement that inserts the line or adds to it, under the CHECK of the
   table. *)
UpsertCartItem(c, v, q) ==
  \/ AddLine(c, v, q)
  \/ \E i \in Line(c, v) :
       items[i].qty + q <= MaxLineQty /\ items' = [items EXCEPT ![i].qty = @ + q]

GetCartItem(i) == {j \in Live : j = i}

UpdateCartItemQty(i, q) == i \in Live /\ items' = [items EXCEPT ![i].qty = q]

DeleteCartItem(i, c) ==
  /\ i \in Live /\ items[i].cart = c
  /\ items' = [items EXCEPT ![i].cart = NoCart]

----------------------------------------------------------------------------
(* The handlers: sessionFrom, resolve, the operation, respond *)

(* The range check of qty comes before anything else. *)
Arrive(r, call) ==
  /\ request[r].at = "idle"
  /\ request' = [request EXCEPT ![r] =
       IF call.op \in {"add", "update"} /\ call.qty \notin 1..MaxLineQty
         THEN [@ EXCEPT !.at = "invalid", !.call = call]
         ELSE [@ EXCEPT !.at = "resolve", !.call = call,
                        !.user = browser[call.browser].user,
                        !.cookie = browser[call.browser].cookie]]
  /\ UNCHANGED <<carts, items, browser>>

(* Resolve: the active cart of the user, or the cookie's if it is active. *)
Resolve(r) ==
  LET c == request[r].cookie
      mine == IF request[r].user # Guest THEN ActiveOf(request[r].user)
              ELSE {d \in {c} \ {NoCart} : carts[d].status = "active"} IN
  /\ request[r].at = "resolve"
  /\ IF mine = {} THEN GoTo(r, "create")
     ELSE \E d \in mine : request' = [request EXCEPT ![r] = [@ EXCEPT !.at = "act", !.cart = d]]
  /\ UNCHANGED <<carts, items, browser>>

(* An error of the lookup by cookie counts as no cart. *)
LookupFails(r) ==
  /\ request[r].at = "resolve"
  /\ request[r].user = Guest /\ request[r].cookie # NoCart
  /\ GoTo(r, "create")
  /\ UNCHANGED <<carts, items, browser>>

(* A guest's new cart is announced by a cookie. *)
CreateCart(r, c) ==
  LET u == request[r].user IN
  /\ request[r].at = "create"
  /\ InsertCart(c, u)
  /\ request' = [request EXCEPT ![r] =
       [@ EXCEPT !.at = "act", !.cart = c, !.setCookie = IF u = Guest THEN c ELSE NoCart]]
  /\ UNCHANGED <<items, browser>>

(* The unique violation: "failed to resolve cart". *)
CreateRefused(r) ==
  /\ request[r].at = "create"
  /\ request[r].user # Guest /\ ActiveOf(request[r].user) # {}
  /\ GoTo(r, "unresolved")
  /\ UNCHANGED <<carts, items, browser>>

(* AddItem: the foreign key refuses an unknown variant, the CHECK of the table
   a total above the cap. *)
Add(r) ==
  LET c == request[r].cart
      v == request[r].call.variant
      q == request[r].call.qty IN
  /\ request[r].at = "act" /\ Asks(r, "add")
  /\ \/ v = NoVariant /\ GoTo(r, "notFound") /\ UNCHANGED items
     \/ v # NoVariant /\ LineQty(c, v) + q > MaxLineQty /\ GoTo(r, "tooLarge") /\ UNCHANGED items
     \/ v # NoVariant /\ UpsertCartItem(c, v, q) /\ GoTo(r, "snapshot")
  /\ UNCHANGED <<carts, browser>>

(* Mutant: the cart of the line is not compared. *)
FindItemAnywhere(r, i) ==
  /\ request[r].at = "act" /\ Asks(r, "update")
  /\ IF GetCartItem(i) # {}
       THEN request' = [request EXCEPT ![r] = [@ EXCEPT !.at = "write", !.item = i]]
       ELSE GoTo(r, "notFound")
  /\ UNCHANGED <<carts, items, browser>>

(* UpdateItem reads the line the client names and compares its cart ... *)
FindItem(r, i) ==
  /\ request[r].at = "act" /\ Asks(r, "update")
  /\ IF \E j \in GetCartItem(i) : items[j].cart = request[r].cart
       THEN request' = [request EXCEPT ![r] = [@ EXCEPT !.at = "write", !.item = i]]
       ELSE GoTo(r, "notFound")
  /\ UNCHANGED <<carts, items, browser>>

(* ... then writes it by id, if it is still there. *)
WriteItem(r) ==
  LET i == request[r].item IN
  /\ request[r].at = "write"
  /\ \/ UpdateCartItemQty(i, request[r].call.qty) /\ GoTo(r, "snapshot")
     \/ i \notin Live /\ GoTo(r, "error") /\ UNCHANGED items
  /\ UNCHANGED <<carts, browser>>

(* RemoveItem: one DELETE by line and cart. *)
Remove(r, i) ==
  /\ request[r].at = "act" /\ Asks(r, "remove")
  /\ \/ DeleteCartItem(i, request[r].cart) /\ GoTo(r, "snapshot")
     \/ items[i].cart # request[r].cart /\ GoTo(r, "notFound") /\ UNCHANGED items
  /\ UNCHANGED <<carts, browser>>

(* Snapshot: what is in the cart by now. *)
Snapshot(r) ==
  /\ \/ request[r].at = "snapshot"
     \/ request[r].at = "act" /\ Asks(r, "view")
  /\ GoTo(r, "ok")
  /\ UNCHANGED <<carts, items, browser>>

(* A database error or a crash, after any query. *)
Fail(r) ==
  /\ request[r].at \in {"resolve", "create", "act", "write", "snapshot"}
  /\ GoTo(r, "error")
  /\ UNCHANGED <<carts, items, browser>>

RequestStep(r) ==
  \/ \E call \in Calls[r] : Arrive(r, call)
  \/ Resolve(r) \/ LookupFails(r) \/ CreateRefused(r)
  \/ \E c \in Carts : CreateCart(r, c)
  \/ Add(r) \/ WriteItem(r) \/ Snapshot(r) \/ Fail(r)
  \/ \E i \in Items : FindItem(r, i) \/ Remove(r, i)

----------------------------------------------------------------------------
(* Around the service *)

(* The browser gets an answer, whatever it says, and keeps its cookie. *)
Receive(r) ==
  LET b == request[r].call.browser
      c == request[r].setCookie IN
  /\ request[r].at \in Answer
  /\ c # NoCart /\ c # browser[b].cookie
  /\ browser' = [browser EXCEPT ![b].cookie = c]
  /\ request' = [request EXCEPT ![r].setCookie = NoCart]
  /\ UNCHANGED <<carts, items>>

(* Signing in and out, or a token that lapses: OptionalUser then takes the
   browser for a guest.  The cookie stays. *)
ChangeToken(b) ==
  /\ browser' = [browser EXCEPT ![b].user = IF @ = Guest THEN Account[b] ELSE Guest]
  /\ UNCHANGED <<carts, items, request>>

(* Mutant: a cart is claimed when its checkout starts. *)
CheckoutClaimingFirst(c, u) ==
  /\ carts[c].status = "active"
  /\ carts[c].user \in {Guest, u}
  /\ \/ carts' = [carts EXCEPT ![c] = [user |-> u, status |-> "converted"]]
     \/ ActiveOf(u) = {} /\ carts' = [carts EXCEPT ![c].user = u]
  /\ UNCHANGED <<items, browser, request>>

(* ClaimAndConvertCart, in the transaction of a checkout of user u. *)
ConvertCart(c, u) ==
  /\ carts[c].status = "active"
  /\ carts[c].user \in {Guest, u}
  /\ carts' = [carts EXCEPT ![c] = [user |-> u, status |-> "converted"]]
  /\ UNCHANGED <<items, browser, request>>

----------------------------------------------------------------------------
CartServiceInit ==
  /\ carts = [c \in Carts |-> [user |-> Guest, status |-> "none"]]
  /\ items = [i \in Items |-> [cart |-> NoCart, variant |-> NoVariant, qty |-> 0]]
  /\ browser = [b \in Browsers |-> [user |-> Guest, cookie |-> NoCart]]
  /\ request = [r \in Requests |-> NoRequest]

CartServiceNext ==
  \/ \E r \in Requests : RequestStep(r) \/ Receive(r)
  \/ \E b \in Browsers : ChangeToken(b)
  \/ \E c \in Carts, u \in Users : ConvertCart(c, u)

CartServiceSpec == CartServiceInit /\ [][CartServiceNext]_cartServiceVars

----------------------------------------------------------------------------
(* Properties *)

CartServiceTypeOK ==
  /\ carts \in [Carts -> [user : Users \cup {Guest}, status : {"none", "active", "converted"}]]
  /\ items \in [Items -> [cart : Carts \cup {NoCart}, variant : Variants \cup {NoVariant},
                          qty : 0..MaxLineQty]]
  /\ browser \in [Browsers -> [user : Users \cup {Guest}, cookie : Carts \cup {NoCart}]]
  /\ request \in [Requests ->
       [at : {"idle", "resolve", "create", "act", "write", "snapshot"} \cup Answer,
        call : Call \cup {NoCall}, user : Users \cup {Guest}, cookie : Carts \cup {NoCart},
        cart : Carts \cup {NoCart}, item : Items \cup {NoItem},
        setCookie : Carts \cup {NoCart}]]

(* However their first requests overlap, a user never has two active carts
   (service.go:54-67 looks before it creates). *)
OneActiveCart == \A u \in Users : \A c, d \in ActiveOf(u) : c = d

(* A cookie never names the active cart of a user.  Resolve does not look at
   the owner of the cookie's cart (service.go:43); it need not, since a guest
   cart gets its owner only by the statement that converts it. *)
CookieIsUnowned ==
  LET named == {browser[b].cookie : b \in Browsers}
               \cup UNION {{request[r].cookie, request[r].setCookie} : r \in Requests} IN
  \A c \in Carts \cap named : carts[c].status = "active" => carts[c].user = Guest

(* A line is changed only by a request that resolved its cart, and a request
   of a user only changes that user's carts: the line an update names is
   checked in an earlier query than it is written in (service.go:86-104). *)
WritesStayHome ==
  [][\A i \in Items : items'[i] # items[i] =>
       LET home == IF i \in Live THEN items[i].cart ELSE items'[i].cart IN
       \E r \in Requests :
         /\ request'[r] # request[r]
         /\ request[r].cart = home
         /\ request[r].user # Guest => carts[home].user = request[r].user]_cartServiceVars

(* A request that adds v to c stands at one of the steps. *)
Counted(req, c, v, steps) ==
  /\ req.call # NoCall /\ req.call.op = "add" /\ req.call.variant = v
  /\ req.cart = c /\ req.at \in steps

(* The units that such requests ask for, one by one. *)
Added(c, v, steps) ==
  {u \in Requests \X (1..MaxLineQty) :
     Counted(request[u[1]], c, v, steps) /\ u[2] <= request[u[1]].call.qty}

(* As long as nobody asks for an update or a removal, a line holds what was added to it:
   every add that was answered counts, once, and one that failed may count
   (cart.sql:32 accumulates in the statement). *)
AddsAccumulate ==
  (\A r \in Requests : request[r].call # NoCall => ~Asks(r, "update") /\ ~Asks(r, "remove")) =>
    \A c \in Carts, v \in Variants :
      LineQty(c, v) \in Cardinality(Added(c, v, {"snapshot", "ok"}))
                       ..Cardinality(Added(c, v, {"snapshot", "ok", "error"}))

(* The overlapping requests change the tables as checkout relies on. *)
Store == INSTANCE CartStore WITH
  owner <- [c \in Carts |-> carts[c].user],
  status <- [c \in Carts |-> carts[c].status],
  lines <- [c \in Carts |-> [v \in Variants |-> LineQty(c, v)]]

ImplementsStore == Store!StoreSpec

----------------------------------------------------------------------------
(* What a comment says and the code does not keep *)

(* "Resolve returns the active cart id for the session, creating one if
   needed" (service.go:36): a request of a guest whose cookie names an active
   cart works on that cart. *)
GuestKeepsCart ==
  \A r \in Requests :
    LET c == request[r].cookie IN
    /\ request[r].user = Guest
    /\ c # NoCart /\ carts[c].status = "active"
    /\ request[r].cart # NoCart
    => request[r].cart = c
=============================================================================
