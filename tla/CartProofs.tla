----------------------------- MODULE CartProofs -----------------------------
(***************************************************************************)
(* What the cart service keeps for any number of browsers, requests, carts *)
(* and lines, although it opens no transaction.  Each query looks at the   *)
(* tables once more, or relies on a fact that nobody can undo: a cart that *)
(* exists stays, one that has an owner keeps it, and a line stays in its   *)
(* cart until it is deleted.                                               *)
(***************************************************************************)
EXTENDS Cart, FiniteSetTheorems, TLAPS

Positions == {"idle", "resolve", "create", "act", "write", "snapshot"} \cup Answer
CartRow == [user : Users \cup {Guest}, status : {"none", "active", "converted"}]
ItemRow == [cart : Carts \cup {NoCart}, variant : Variants \cup {NoVariant}, qty : 0..MaxLineQty]
RequestRow ==
  [at : Positions, call : Call \cup {NoCall}, user : Users \cup {Guest},
   cookie : Carts \cup {NoCart}, cart : Carts \cup {NoCart}, item : Items \cup {NoItem},
   setCookie : Carts \cup {NoCart}]
BrowserRow == [user : Users \cup {Guest}, cookie : Carts \cup {NoCart}]

LEMMA Rows ==
  ASSUME CartServiceTypeOK
  PROVE  /\ carts \in [Carts -> CartRow] /\ items \in [Items -> ItemRow]
         /\ browser \in [Browsers -> BrowserRow] /\ request \in [Requests -> RequestRow]
BY DEF CartServiceTypeOK, CartRow, ItemRow, BrowserRow, RequestRow, Positions

(* A request that moves keeps everything but its position. *)
LEMMA Moves ==
  ASSUME CartServiceTypeOK, NEW r \in Requests, NEW step \in Positions, GoTo(r, step)
  PROVE  /\ request' \in [Requests -> RequestRow]
         /\ request'[r] = [request[r] EXCEPT !.at = step]
         /\ request'[r].at = step
         /\ \A s \in Requests : s # r => request'[s] = request[s]
         /\ \A s \in Requests :
              /\ request'[s].call = request[s].call /\ request'[s].user = request[s].user
              /\ request'[s].cookie = request[s].cookie /\ request'[s].cart = request[s].cart
              /\ request'[s].item = request[s].item
              /\ request'[s].setCookie = request[s].setCookie
<1>. DEFINE next == [request[r] EXCEPT !.at = step]
<1>. HIDE DEF Positions
<1>1. request \in [Requests -> RequestRow]
  BY Rows
<1>2. /\ next \in RequestRow /\ next.at = step
      /\ next.call = request[r].call /\ next.user = request[r].user
      /\ next.cookie = request[r].cookie /\ next.cart = request[r].cart
      /\ next.item = request[r].item /\ next.setCookie = request[r].setCookie
  BY <1>1 DEF RequestRow
<1>3. request' = [request EXCEPT ![r] = next]
  BY DEF GoTo
<1>. HIDE DEF next
<1>4. /\ request' \in [Requests -> RequestRow] /\ request'[r] = next
      /\ \A s \in Requests : s # r => request'[s] = request[s]
  BY <1>1, <1>2, <1>3
<1>. QED  BY <1>2, <1>4 DEF next

----------------------------------------------------------------------------
(* The effects of the steps on the lines *)

(* A statement writes one row of cart_items. *)
LEMMA ItemsChange ==
  ASSUME CartServiceTypeOK, NEW i \in Items, NEW row \in ItemRow,
         items' = [items EXCEPT ![i] = row]
  PROVE  /\ items' \in [Items -> ItemRow] /\ items'[i] = row
         /\ \A j \in Items : j # i => items'[j] = items[j]
BY Rows

(* The three ways a request writes a line of its cart. *)
AddsLine(r) ==
  \E i \in Unused, row \in ItemRow :
    /\ row.cart = request[r].cart /\ row.variant \in Variants /\ row.qty # 0
    /\ Line(row.cart, row.variant) = {}
    /\ items' = [items EXCEPT ![i] = row]
ChangesLine(r) ==
  \E i \in Live, row \in ItemRow :
    /\ items[i].cart = request[r].cart \/ (request[r].at = "write" /\ request[r].item = i)
    /\ row.cart = items[i].cart /\ row.variant = items[i].variant /\ row.qty # 0
    /\ items' = [items EXCEPT ![i] = row]
DeletesLine(r) ==
  \E i \in Live, row \in ItemRow :
    /\ items[i].cart = request[r].cart
    /\ row.cart = NoCart /\ row.variant = items[i].variant /\ row.qty = items[i].qty
    /\ items' = [items EXCEPT ![i] = row]
Writes(r) == AddsLine(r) \/ ChangesLine(r) \/ DeletesLine(r)

(* What holds of requests between their queries. *)
CallsOK ==
  \A r \in Requests :
    /\ request[r].at = "idle" => request[r].cart = NoCart /\ request[r].setCookie = NoCart
    /\ request[r].at \in {"resolve", "create", "act", "write"} =>
         /\ request[r].call \in Call
         /\ request[r].call.op \in {"add", "update"} => request[r].call.qty \in 1..MaxLineQty
    /\ request[r].at = "write" => request[r].item \in Items /\ request[r].call.op = "update"
    /\ request[r].at \in {"act", "write"} => request[r].cart \in Carts
LinesCount == \A i \in Live : items[i].qty # 0 /\ items[i].variant \in Variants

LEMMA WriteCases ==
  ASSUME CartServiceTypeOK, CallsOK, LinesCount, NEW r \in Requests, RequestStep(r)
  PROVE  /\ items' = items \/ Writes(r)
         /\ items' # items => /\ request[r].at \in {"act", "write"}
                              /\ GoTo(r, "snapshot") /\ UNCHANGED <<carts, browser>>
<1>. DEFINE Goal == /\ items' = items \/ Writes(r)
                    /\ items' # items => /\ request[r].at \in {"act", "write"}
                                         /\ GoTo(r, "snapshot") /\ UNCHANGED <<carts, browser>>
<1>1. items \in [Items -> ItemRow]
  BY Rows
<1>2. ASSUME Add(r), items' # items PROVE AddsLine(r) \/ ChangesLine(r)
  <2>. DEFINE c == request[r].cart
              v == request[r].call.variant
              q == request[r].call.qty
  <2>1. v # NoVariant /\ UpsertCartItem(c, v, q)
    BY <1>2 DEF Add
  <2>2. v \in Variants /\ q \in 1..MaxLineQty
    BY <1>2, <2>1 DEF Add, Asks, CallsOK, Call
  <2>. HIDE DEF v, q
  <2>3. ASSUME NEW i \in Unused, Line(c, v) = {},
               items' = [items EXCEPT ![i] = [cart |-> c, variant |-> v, qty |-> q]]
        PROVE  AddsLine(r)
    <3>. DEFINE row == [cart |-> c, variant |-> v, qty |-> q]
    <3>1. c \in Carts
      BY <1>2 DEF Add, CallsOK
    <3>2. row \in ItemRow /\ row.cart = c /\ row.variant = v /\ row.qty = q /\ q # 0
      BY <2>2, <3>1, CartAssumption DEF ItemRow
    <3>. HIDE DEF row
    <3>3. items' = [items EXCEPT ![i] = row]
      BY <2>3 DEF row
    <3>. QED  BY <2>2, <2>3, <3>2, <3>3 DEF AddsLine
  <2>4. ASSUME NEW i \in Line(c, v), items[i].qty + q <= MaxLineQty,
               items' = [items EXCEPT ![i].qty = @ + q]
        PROVE  ChangesLine(r)
    <3>. DEFINE n == items[i].qty + q
                row == [items[i] EXCEPT !.qty = n]
    <3>1. i \in Live /\ i \in Items /\ items[i].cart = c
      BY <2>4 DEF Line, Live
    <3>2. n \in 1..MaxLineQty
      BY <1>1, <2>2, <2>4, <3>1, CartAssumption DEF ItemRow
    <3>3. items' = [items EXCEPT ![i] = row]
      BY <2>4
    <3>. HIDE DEF n
    <3>4. /\ row \in ItemRow /\ row.qty # 0
          /\ row.cart = items[i].cart /\ row.variant = items[i].variant
      BY <1>1, <3>1, <3>2, CartAssumption DEF ItemRow
    <3>. HIDE DEF row
    <3>. QED  BY <3>1, <3>3, <3>4 DEF ChangesLine
  <2>. QED  BY <2>1, <2>3, <2>4 DEF UpsertCartItem, AddLine
<1>3. ASSUME WriteItem(r), items' # items PROVE ChangesLine(r)
  <2>. DEFINE i == request[r].item
              q == request[r].call.qty
              row == [items[i] EXCEPT !.qty = q]
  <2>1. /\ request[r].at = "write" /\ i \in Live /\ i \in Items
        /\ items' = [items EXCEPT ![i] = row]
    BY <1>3 DEF WriteItem, UpdateCartItemQty, Live
  <2>2. q \in 1..MaxLineQty
    BY <2>1 DEF CallsOK
  <2>. HIDE DEF i, q
  <2>3. /\ row \in ItemRow /\ row.qty # 0
        /\ row.cart = items[i].cart /\ row.variant = items[i].variant
    BY <1>1, <2>1, <2>2, CartAssumption DEF ItemRow
  <2>. HIDE DEF row
  <2>. QED  BY <2>1, <2>3 DEF ChangesLine, i
<1>4. ASSUME NEW i \in Items, Remove(r, i), items' # items PROVE DeletesLine(r)
  <2>. DEFINE row == [items[i] EXCEPT !.cart = NoCart]
  <2>1. i \in Live /\ items[i].cart = request[r].cart /\ items' = [items EXCEPT ![i] = row]
    BY <1>4 DEF Remove, DeleteCartItem
  <2>2. /\ row \in ItemRow /\ row.qty = items[i].qty
        /\ row.cart = NoCart /\ row.variant = items[i].variant
    BY <1>1 DEF ItemRow
  <2>. HIDE DEF row
  <2>. QED  BY <2>1, <2>2 DEF DeletesLine
<1>5. ASSUME Add(r), items' # items
      PROVE  request[r].at = "act" /\ GoTo(r, "snapshot") /\ UNCHANGED <<carts, browser>>
  BY <1>5 DEF Add
<1>6. ASSUME WriteItem(r), items' # items
      PROVE  request[r].at = "write" /\ GoTo(r, "snapshot") /\ UNCHANGED <<carts, browser>>
  BY <1>6 DEF WriteItem
<1>7. ASSUME NEW i \in Items, Remove(r, i), items' # items
      PROVE  request[r].at = "act" /\ GoTo(r, "snapshot") /\ UNCHANGED <<carts, browser>>
  BY <1>7 DEF Remove
<1>8. \/ items' = items \/ Add(r) \/ WriteItem(r) \/ \E i \in Items : Remove(r, i)
  BY DEF RequestStep, Arrive, Resolve, LookupFails, CreateRefused, CreateCart, Snapshot,
         Fail, FindItem
<1>. QED  BY <1>2, <1>3, <1>4, <1>5, <1>6, <1>7, <1>8 DEF Writes

----------------------------------------------------------------------------
(* Where a step takes its request *)

(* A request takes its cart from the table while it resolves it, its cookie
   from a browser, the cookie it sets from a new cart, its line from its cart. *)
RowOK(r, row) ==
  /\ row.at # "idle"
  /\ row.at \in {"resolve", "create", "act", "write"} =>
       /\ row.call \in Call
       /\ row.call.op \in {"add", "update"} => row.call.qty \in 1..MaxLineQty
  /\ row.at \in {"act", "write"} => row.cart \in Carts
  /\ row.at = "write" =>
       /\ row.item \in Live /\ row.call.op = "update"
       /\ items[row.item].cart = row.cart /\ items' = items
  /\ row.user = request[r].user \/ (request[r].at = "idle" /\ row.cart = NoCart)
  /\ \/ row.cart = request[r].cart
     \/ /\ row.cart \in Carts /\ carts'[row.cart].status = "active"
        /\ row.user # Guest => carts'[row.cart].user = row.user
  /\ row.cookie = request[r].cookie \/ \E b \in Browsers : row.cookie = browser[b].cookie
  /\ \/ row.setCookie \in {request[r].setCookie, NoCart}
     \/ /\ row.setCookie \in Carts
        /\ carts'[row.setCookie].status = "active" /\ carts'[row.setCookie].user = Guest

LEMMA GoesOn ==
  ASSUME CartServiceTypeOK, CallsOK, NEW r \in Requests,
         NEW step \in Answer \cup {"create", "snapshot"}, GoTo(r, step),
         step = "create" => request[r].at = "resolve"
  PROVE  \E row \in RequestRow : request' = [request EXCEPT ![r] = row] /\ RowOK(r, row)
<1>. DEFINE row == [request[r] EXCEPT !.at = step]
<1>1. request \in [Requests -> RequestRow]
  BY Rows
<1>2. /\ row \in RequestRow /\ row.at = step /\ row.call = request[r].call
      /\ row.user = request[r].user /\ row.cookie = request[r].cookie
      /\ row.cart = request[r].cart /\ row.setCookie = request[r].setCookie
  BY <1>1 DEF RequestRow, Positions
<1>3. request' = [request EXCEPT ![r] = row]
  BY DEF GoTo
<1>. HIDE DEF row
<1>4. RowOK(r, row)
  BY <1>2 DEF RowOK, CallsOK, Answer
<1>. QED  BY <1>2, <1>3, <1>4

LEMMA StepCases ==
  ASSUME CartServiceTypeOK, CallsOK, NEW r \in Requests, RequestStep(r)
  PROVE  /\ browser' = browser
         /\ \/ carts' = carts
            \/ \E c \in Carts, u \in Users \cup {Guest} : InsertCart(c, u)
         /\ \E row \in RequestRow : request' = [request EXCEPT ![r] = row] /\ RowOK(r, row)
<1>. DEFINE Goal == \E row \in RequestRow : request' = [request EXCEPT ![r] = row] /\ RowOK(r, row)
<1>0. /\ request \in [Requests -> RequestRow] /\ browser \in [Browsers -> BrowserRow]
      /\ carts \in [Carts -> CartRow] /\ items \in [Items -> ItemRow]
  BY Rows
<1>1. ASSUME NEW call \in Calls[r], Arrive(r, call) PROVE Goal
  <2>1. call \in Call
    BY CartAssumption
  <2>2. CASE call.op \in {"add", "update"} /\ call.qty \notin 1..MaxLineQty
    <3>. DEFINE row == [request[r] EXCEPT !.at = "invalid", !.call = call]
    <3>1. row \in RequestRow /\ row.at = "invalid" /\ row.user = request[r].user
          /\ row.cookie = request[r].cookie /\ row.cart = request[r].cart
          /\ row.setCookie = request[r].setCookie
      BY <1>0, <2>1 DEF RequestRow, Positions, Answer
    <3>2. request' = [request EXCEPT ![r] = row]
      BY <1>1, <2>2 DEF Arrive
    <3>. HIDE DEF row
    <3>3. RowOK(r, row)
      BY <3>1 DEF RowOK
    <3>. QED  BY <3>1, <3>2, <3>3
  <2>3. CASE ~(call.op \in {"add", "update"} /\ call.qty \notin 1..MaxLineQty)
    <3>. DEFINE b == call.browser
                row == [request[r] EXCEPT !.at = "resolve", !.call = call,
                          !.user = browser[b].user, !.cookie = browser[b].cookie]
    <3>1. b \in Browsers
      BY <2>1 DEF Call
    <3>2. /\ row \in RequestRow /\ row.at = "resolve" /\ row.call = call
          /\ row.cookie = browser[b].cookie /\ row.cart = request[r].cart
          /\ row.setCookie = request[r].setCookie
      BY <1>0, <2>1, <3>1 DEF RequestRow, BrowserRow, Positions
    <3>3. request' = [request EXCEPT ![r] = row]
      BY <1>1, <2>3 DEF Arrive
    <3>4. request[r].at = "idle" /\ request[r].cart = NoCart
      BY <1>1 DEF Arrive, CallsOK
    <3>. HIDE DEF row, b
    <3>5. RowOK(r, row)
      BY <2>1, <2>3, <3>1, <3>2, <3>4 DEF RowOK
    <3>. QED  BY <3>2, <3>3, <3>5
  <2>. QED  BY <2>2, <2>3
<1>2. ASSUME Resolve(r) PROVE Goal
  <2>1. CASE GoTo(r, "create")
    BY <1>2, <2>1, GoesOn DEF Resolve
  <2>2. ASSUME NEW d \in Carts, carts[d].status = "active",
               request[r].user # Guest => carts[d].user = request[r].user,
               request' = [request EXCEPT ![r] = [@ EXCEPT !.at = "act", !.cart = d]]
        PROVE  Goal
    <3>. DEFINE row == [request[r] EXCEPT !.at = "act", !.cart = d]
    <3>1. /\ row \in RequestRow /\ row.at = "act" /\ row.call = request[r].call
          /\ row.user = request[r].user /\ row.cookie = request[r].cookie
          /\ row.cart = d /\ row.setCookie = request[r].setCookie
      BY <1>0, <2>2 DEF RequestRow, Positions
    <3>2. request' = [request EXCEPT ![r] = row]
      BY <2>2
    <3>3. request[r].at = "resolve" /\ carts' = carts
      BY <1>2 DEF Resolve
    <3>. HIDE DEF row
    <3>4. RowOK(r, row)
      BY <2>2, <3>1, <3>3 DEF RowOK, CallsOK
    <3>. QED  BY <3>1, <3>2, <3>4
  <2>3. request[r].cookie \in Carts \cup {NoCart}
    BY <1>0 DEF RequestRow
  <2>. QED  BY <1>2, <2>1, <2>2, <2>3 DEF Resolve, ActiveOf
<1>3. ASSUME NEW c \in Carts, CreateCart(r, c)
      PROVE  /\ Goal
             /\ \E u \in Users \cup {Guest} : InsertCart(c, u)
  <2>. DEFINE u == request[r].user
              k == IF u = Guest THEN c ELSE NoCart
              row == [request[r] EXCEPT !.at = "act", !.cart = c, !.setCookie = k]
  <2>1. /\ row \in RequestRow /\ row.at = "act" /\ row.call = request[r].call
        /\ row.user = u /\ row.cookie = request[r].cookie
        /\ row.cart = c /\ row.setCookie = k
    BY <1>0 DEF RequestRow, Positions
  <2>2. request' = [request EXCEPT ![r] = row]
    BY <1>3 DEF CreateCart
  <2>3. request[r].at = "create" /\ InsertCart(c, u) /\ u \in Users \cup {Guest}
    BY <1>0, <1>3 DEF CreateCart, RequestRow
  <2>4. carts'[c].status = "active" /\ carts'[c].user = u
    BY <1>0, <2>3 DEF InsertCart
  <2>. HIDE DEF row
  <2>5. RowOK(r, row)
    BY <2>1, <2>3, <2>4 DEF RowOK, CallsOK
  <2>. QED  BY <2>1, <2>2, <2>3, <2>5
<1>4. ASSUME NEW i \in Items, FindItem(r, i) PROVE Goal
  <2>1. CASE GoTo(r, "notFound")
    BY <2>1, GoesOn DEF Answer
  <2>2. ASSUME i \in Live, items[i].cart = request[r].cart,
               request' = [request EXCEPT ![r] = [@ EXCEPT !.at = "write", !.item = i]]
        PROVE  Goal
    <3>. DEFINE row == [request[r] EXCEPT !.at = "write", !.item = i]
    <3>1. /\ row \in RequestRow /\ row.at = "write" /\ row.call = request[r].call
          /\ row.user = request[r].user /\ row.cookie = request[r].cookie
          /\ row.cart = request[r].cart /\ row.setCookie = request[r].setCookie
          /\ row.item = i
      BY <1>0, <2>2 DEF RequestRow, Positions
    <3>2. request' = [request EXCEPT ![r] = row]
      BY <2>2
    <3>3. request[r].at = "act" /\ request[r].call.op = "update" /\ items' = items
      BY <1>4 DEF FindItem, Asks
    <3>. HIDE DEF row
    <3>4. RowOK(r, row)
      BY <2>2, <3>1, <3>3 DEF RowOK, CallsOK
    <3>. QED  BY <3>1, <3>2, <3>4
  <2>. QED  BY <1>4, <2>1, <2>2 DEF FindItem, GetCartItem
<1>5. ASSUME LookupFails(r) \/ CreateRefused(r) \/ Add(r) \/ WriteItem(r) \/ Snapshot(r)
               \/ Fail(r) \/ \E i \in Items : Remove(r, i)
      PROVE  Goal
  <2>. HIDE DEF Goal
  <2>1. ASSUME NEW step \in Answer \cup {"snapshot"}, GoTo(r, step) PROVE Goal
    BY <2>1, GoesOn DEF Goal, Answer
  <2>2. ASSUME request[r].at = "resolve", GoTo(r, "create") PROVE Goal
    BY <2>2, GoesOn DEF Goal
  <2>. QED
    BY <1>5, <2>1, <2>2 DEF LookupFails, CreateRefused, Add, WriteItem, Snapshot, Fail, Remove,
                           Answer
<1>. HIDE DEF Goal
<1>6. Goal
  BY <1>1, <1>2, <1>3, <1>4, <1>5 DEF RequestStep
<1>7. browser' = browser /\ (carts' = carts \/ \E c \in Carts : CreateCart(r, c))
  BY DEF RequestStep, Arrive, Resolve, LookupFails, CreateRefused, CreateCart, Add, WriteItem,
         Snapshot, Fail, FindItem, Remove
<1>. QED  BY <1>3, <1>6, <1>7 DEF Goal

----------------------------------------------------------------------------
(* The inductive invariant *)

(* A cart that a cookie may name, and one that a request of u may work on.
   Either is for ever. *)
GuestRow(c) == carts[c].status # "none" /\ (carts[c].status = "active" => carts[c].user = Guest)
HomeRow(c, u) == carts[c].status # "none" /\ (u # Guest => carts[c].user = u)

Named ==
  /\ \A b \in Browsers : browser[b].cookie \in Carts => GuestRow(browser[b].cookie)
  /\ \A r \in Requests :
       /\ request[r].cookie \in Carts => GuestRow(request[r].cookie)
       /\ request[r].setCookie \in Carts => GuestRow(request[r].setCookie)

Homes ==
  \A r \in Requests : request[r].cart \in Carts => HomeRow(request[r].cart, request[r].user)

OneLine ==
  \A i, j \in Live : items[i].cart = items[j].cart /\ items[i].variant = items[j].variant => i = j

(* The line found for an update stays in the cart or is deleted. *)
Targets ==
  \A r \in Requests : request[r].at = "write" =>
    /\ items[request[r].item].cart \in {request[r].cart, NoCart}
    /\ items[request[r].item].qty # 0

CartInv ==
  /\ CartServiceTypeOK /\ CallsOK /\ LinesCount /\ OneLine
  /\ Named /\ Homes /\ Targets /\ OneActiveCart

(* The carts table only grows, and an owner is for ever. *)
LEMMA CartsKeep ==
  ASSUME CartServiceTypeOK, OneActiveCart,
         \/ carts' = carts
         \/ \E c \in Carts, u \in Users \cup {Guest} : InsertCart(c, u)
         \/ \E c \in Carts, u \in Users : ConvertCart(c, u)
  PROVE  /\ carts' \in [Carts -> CartRow] /\ OneActiveCart'
         /\ \A c \in Carts : GuestRow(c) => GuestRow(c)'
         /\ \A c \in Carts, u \in Users \cup {Guest} : HomeRow(c, u) => HomeRow(c, u)'
<1>0. carts \in [Carts -> CartRow] /\ Guest \notin Users
  BY Rows, CartAssumption
<1>1. CASE carts' = carts
  BY <1>0, <1>1 DEF OneActiveCart, ActiveOf, GuestRow, HomeRow
<1>2. ASSUME NEW c \in Carts, NEW u \in Users \cup {Guest}, InsertCart(c, u)
      PROVE  /\ carts' \in [Carts -> CartRow] /\ OneActiveCart'
             /\ \A d \in Carts : GuestRow(d) => GuestRow(d)'
             /\ \A d \in Carts, w \in Users \cup {Guest} : HomeRow(d, w) => HomeRow(d, w)'
  <2>. DEFINE row == [user |-> u, status |-> "active"]
  <2>1. row \in CartRow /\ row.user = u /\ row.status = "active"
    BY DEF CartRow
  <2>2. carts[c].status = "none" /\ carts' = [carts EXCEPT ![c] = row]
        /\ (u # Guest => ActiveOf(u) = {})
    BY <1>2 DEF InsertCart
  <2>. HIDE DEF row
  <2>3. /\ carts' \in [Carts -> CartRow] /\ carts'[c] = row
        /\ \A d \in Carts : d # c => carts'[d] = carts[d]
    BY <1>0, <2>1, <2>2
  <2>4. OneActiveCart'
    <3>. SUFFICES ASSUME NEW w \in Users, NEW d \in ActiveOf(w)', NEW e \in ActiveOf(w)'
                  PROVE  d = e
      BY DEF OneActiveCart
    <3>. QED  BY <1>0, <2>1, <2>2, <2>3 DEF OneActiveCart, ActiveOf
  <2>5. /\ \A d \in Carts : GuestRow(d) => GuestRow(d)'
        /\ \A d \in Carts, w \in Users \cup {Guest} : HomeRow(d, w) => HomeRow(d, w)'
    BY <2>2, <2>3 DEF GuestRow, HomeRow
  <2>. QED  BY <2>3, <2>4, <2>5
<1>3. ASSUME NEW c \in Carts, NEW u \in Users, ConvertCart(c, u)
      PROVE  /\ carts' \in [Carts -> CartRow] /\ OneActiveCart'
             /\ \A d \in Carts : GuestRow(d) => GuestRow(d)'
             /\ \A d \in Carts, w \in Users \cup {Guest} : HomeRow(d, w) => HomeRow(d, w)'
  <2>. DEFINE row == [user |-> u, status |-> "converted"]
  <2>1. row \in CartRow /\ row.user = u /\ row.status = "converted"
    BY DEF CartRow
  <2>2. carts[c].status = "active" /\ carts' = [carts EXCEPT ![c] = row]
        /\ carts[c].user \in {Guest, u}
    BY <1>3 DEF ConvertCart
  <2>. HIDE DEF row
  <2>3. /\ carts' \in [Carts -> CartRow] /\ carts'[c] = row
        /\ \A d \in Carts : d # c => carts'[d] = carts[d]
    BY <1>0, <2>1, <2>2
  <2>4. OneActiveCart'
    BY <1>0, <2>1, <2>2, <2>3 DEF OneActiveCart, ActiveOf
  <2>5. /\ \A d \in Carts : GuestRow(d) => GuestRow(d)'
        /\ \A d \in Carts, w \in Users \cup {Guest} : HomeRow(d, w) => HomeRow(d, w)'
    BY <2>1, <2>2, <2>3 DEF GuestRow, HomeRow
  <2>. QED  BY <2>3, <2>4, <2>5
<1>. QED  BY <1>1, <1>2, <1>3

(* A line stays in its cart until it is deleted, and is the only one of its
   variant there. *)
LEMMA LinesKeep ==
  ASSUME CartServiceTypeOK, LinesCount, OneLine, NEW r \in Requests,
         items' = items \/ Writes(r)
  PROVE  /\ items' \in [Items -> ItemRow] /\ LinesCount' /\ OneLine'
         /\ \A i \in Items : items[i].qty # 0 =>
              items'[i].qty # 0 /\ items'[i].cart \in {items[i].cart, NoCart}
<1>0. items \in [Items -> ItemRow]
  BY Rows
<1>1. CASE items' = items
  BY <1>0, <1>1 DEF LinesCount, OneLine, Live
<1>2. CASE AddsLine(r)
  <2>1. PICK i \in Items, row \in ItemRow :
          /\ items[i].qty = 0 /\ row.variant \in Variants /\ row.qty # 0
          /\ Line(row.cart, row.variant) = {} /\ items' = [items EXCEPT ![i] = row]
    BY <1>2 DEF AddsLine, Unused
  <2>2. items' \in [Items -> ItemRow] /\ items'[i] = row
        /\ \A j \in Items : j # i => items'[j] = items[j]
    BY <2>1, ItemsChange
  <2>3. i \notin Live
    BY <2>1 DEF LinesCount
  <2>. QED  BY <2>1, <2>2, <2>3 DEF LinesCount, OneLine, Live, Line
<1>3. CASE ChangesLine(r) \/ DeletesLine(r)
  <2>1. PICK i \in Live, row \in ItemRow :
          /\ row.cart \in {items[i].cart, NoCart} /\ row.variant = items[i].variant
          /\ row.qty # 0 \/ row.qty = items[i].qty
          /\ items' = [items EXCEPT ![i] = row]
    BY <1>3 DEF ChangesLine, DeletesLine
  <2>2. i \in Items /\ items[i].qty # 0 /\ items[i].variant \in Variants
        /\ items[i].cart # NoCart
    BY DEF LinesCount, Live
  <2>3. items' \in [Items -> ItemRow] /\ items'[i] = row
        /\ \A j \in Items : j # i => items'[j] = items[j]
    BY <2>1, <2>2, ItemsChange
  <2>. QED  BY <2>1, <2>2, <2>3 DEF LinesCount, OneLine, Live
<1>. QED  BY <1>1, <1>2, <1>3 DEF Writes

LEMMA CartInvInit == CartServiceInit => CartInv
<1>. SUFFICES ASSUME CartServiceInit PROVE CartInv
  OBVIOUS
<1>. USE DEF CartServiceInit
<1>1. CartServiceTypeOK
  BY CartAssumption DEF CartServiceTypeOK, NoRequest, Answer
<1>2. CallsOK /\ Homes /\ Targets
  BY CartAssumption DEF CallsOK, Homes, Targets, NoRequest
<1>3. Live = {}
  BY DEF Live
<1>4. LinesCount /\ OneLine
  BY <1>3 DEF LinesCount, OneLine
<1>5. Named
  BY CartAssumption DEF Named, NoRequest
<1>6. OneActiveCart
  BY DEF OneActiveCart, ActiveOf
<1>. QED  BY <1>1, <1>2, <1>4, <1>5, <1>6 DEF CartInv

LEMMA CartInvStep == CartInv /\ [CartServiceNext]_cartServiceVars => CartInv'
<1>. SUFFICES ASSUME CartInv, [CartServiceNext]_cartServiceVars PROVE CartInv'
  OBVIOUS
<1>0. /\ CartServiceTypeOK /\ CallsOK /\ LinesCount /\ OneLine
      /\ Named /\ Homes /\ Targets /\ OneActiveCart
      /\ request \in [Requests -> RequestRow] /\ browser \in [Browsers -> BrowserRow]
      /\ carts \in [Carts -> CartRow] /\ items \in [Items -> ItemRow]
  BY Rows DEF CartInv
<1>1. ASSUME NEW r \in Requests, RequestStep(r) PROVE CartInv'
  <2>1. /\ browser' = browser
        /\ carts' = carts \/ \E c \in Carts, u \in Users \cup {Guest} : InsertCart(c, u)
    BY <1>0, <1>1, StepCases
  <2>2. PICK row \in RequestRow : request' = [request EXCEPT ![r] = row] /\ RowOK(r, row)
    BY <1>0, <1>1, StepCases
  <2>3. /\ carts' \in [Carts -> CartRow] /\ OneActiveCart'
        /\ \A c \in Carts : GuestRow(c) => GuestRow(c)'
        /\ \A c \in Carts, u \in Users \cup {Guest} : HomeRow(c, u) => HomeRow(c, u)'
    BY <1>0, <2>1, CartsKeep
  <2>4. /\ items' \in [Items -> ItemRow] /\ LinesCount' /\ OneLine'
        /\ \A i \in Items : items[i].qty # 0 =>
             items'[i].qty # 0 /\ items'[i].cart \in {items[i].cart, NoCart}
    BY <1>0, <1>1, WriteCases, LinesKeep
  <2>5. /\ request' \in [Requests -> RequestRow] /\ request'[r] = row
        /\ \A s \in Requests : s # r => request'[s] = request[s]
    BY <1>0, <2>2
  <2>6. CartServiceTypeOK'
    BY <1>0, <2>1, <2>3, <2>4, <2>5
       DEF CartServiceTypeOK, CartRow, ItemRow, BrowserRow, RequestRow, Positions
  <2>7. CallsOK'
    BY <1>0, <2>2, <2>5 DEF CallsOK, RowOK, Live
  <2>8. Named'
    <3>1. row.cookie \in Carts => GuestRow(row.cookie)'
      BY <1>0, <2>2, <2>3 DEF RowOK, Named
    <3>2. row.setCookie \in Carts => GuestRow(row.setCookie)'
      BY <1>0, <2>2, <2>3, CartAssumption DEF RowOK, Named, GuestRow
    <3>3. \A s \in Requests : s # r =>
            /\ (request[s].cookie \in Carts => GuestRow(request[s].cookie))'
            /\ (request[s].setCookie \in Carts => GuestRow(request[s].setCookie))'
      BY <1>0, <2>3, <2>5 DEF Named, GuestRow
    <3>4. \A b \in Browsers : (browser[b].cookie \in Carts => GuestRow(browser[b].cookie))'
      BY <1>0, <2>1, <2>3 DEF Named, GuestRow
    <3>. QED  BY <2>5, <3>1, <3>2, <3>3, <3>4 DEF Named, GuestRow
  <2>9. Homes'
    <3>1. row.user \in Users \cup {Guest} /\ request[r].user \in Users \cup {Guest}
      BY <1>0 DEF RequestRow
    <3>2. row.cart \in Carts => HomeRow(row.cart, row.user)'
      BY <1>0, <2>2, <2>3, <3>1, CartAssumption DEF RowOK, Homes, HomeRow
    <3>3. \A s \in Requests : s # r =>
            (request[s].cart \in Carts => HomeRow(request[s].cart, request[s].user))'
      <4>. SUFFICES ASSUME NEW s \in Requests, s # r, request[s].cart \in Carts
                    PROVE  HomeRow(request[s].cart, request[s].user)'
        BY <2>5
      <4>. DEFINE c == request[s].cart
                  u == request[s].user
      <4>1. c \in Carts /\ u \in Users \cup {Guest} /\ HomeRow(c, u)
        BY <1>0 DEF Homes, RequestRow
      <4>2. request'[s] = request[s]
        BY <2>5
      <4>3. carts'[c].status # "none" /\ (u # Guest => carts'[c].user = u)
        BY <2>3, <4>1 DEF HomeRow
      <4>. QED  BY <4>2, <4>3 DEF HomeRow
    <3>. QED  BY <2>5, <3>2, <3>3 DEF Homes, HomeRow
  <2>10. Targets'
    <3>1. row.at = "write" =>
            /\ items'[row.item].cart \in {row.cart, NoCart} /\ items'[row.item].qty # 0
      BY <1>0, <2>2, <2>4 DEF RowOK, LinesCount
    <3>2. \A s \in Requests : s # r /\ request'[s].at = "write" =>
            /\ items'[request'[s].item].cart \in {request'[s].cart, NoCart}
            /\ items'[request'[s].item].qty # 0
      BY <1>0, <2>4, <2>5 DEF Targets, CallsOK
    <3>. QED  BY <2>5, <3>1, <3>2 DEF Targets
  <2>. QED  BY <2>3, <2>4, <2>6, <2>7, <2>8, <2>9, <2>10 DEF CartInv
<1>2. ASSUME NEW r \in Requests, Receive(r) PROVE CartInv'
  <2>. DEFINE b == request[r].call.browser
              c == request[r].setCookie
              visit == [browser[b] EXCEPT !.cookie = c]
              row == [request[r] EXCEPT !.setCookie = NoCart]
  <2>1. /\ c \in Carts /\ UNCHANGED <<carts, items>>
        /\ browser' = [browser EXCEPT ![b] = visit]
        /\ request' = [request EXCEPT ![r] = row]
    BY <1>0, <1>2 DEF Receive, RequestRow
  <2>2. /\ row \in RequestRow /\ row.at = request[r].at /\ row.call = request[r].call
        /\ row.user = request[r].user /\ row.cookie = request[r].cookie
        /\ row.cart = request[r].cart /\ row.item = request[r].item /\ row.setCookie = NoCart
    BY <1>0 DEF RequestRow
  <2>3. b \in Browsers => visit \in BrowserRow /\ visit.cookie = c
    BY <1>0, <2>1 DEF BrowserRow
  <2>. HIDE DEF b, visit, row
  <2>4. /\ request' \in [Requests -> RequestRow] /\ request'[r] = row
        /\ \A s \in Requests : s # r => request'[s] = request[s]
    BY <1>0, <2>1, <2>2
  <2>5. /\ browser' \in [Browsers -> BrowserRow]
        /\ \A d \in Browsers : browser'[d].cookie = browser[d].cookie \/ browser'[d].cookie = c
    BY <1>0, <2>1, <2>3
  <2>6. CartServiceTypeOK'
    BY <1>0, <2>1, <2>4, <2>5
       DEF CartServiceTypeOK, CartRow, ItemRow, BrowserRow, RequestRow, Positions
  <2>7. CallsOK' /\ Homes' /\ Targets' /\ LinesCount' /\ OneLine' /\ OneActiveCart'
    BY <1>0, <2>1, <2>2, <2>4
       DEF CallsOK, Homes, HomeRow, Targets, LinesCount, OneLine, Live, OneActiveCart, ActiveOf
  <2>8. Named'
    BY <1>0, <2>1, <2>2, <2>4, <2>5, CartAssumption DEF Named, GuestRow
  <2>. QED  BY <2>6, <2>7, <2>8 DEF CartInv
<1>3. ASSUME NEW b \in Browsers, ChangeToken(b) PROVE CartInv'
  <2>. DEFINE u == IF browser[b].user = Guest THEN Account[b] ELSE Guest
              visit == [browser[b] EXCEPT !.user = u]
  <2>1. browser' = [browser EXCEPT ![b] = visit] /\ UNCHANGED <<carts, items, request>>
    BY <1>3 DEF ChangeToken
  <2>2. visit \in BrowserRow /\ visit.cookie = browser[b].cookie
    BY <1>0, CartAssumption DEF BrowserRow
  <2>. HIDE DEF visit
  <2>3. /\ browser' \in [Browsers -> BrowserRow]
        /\ \A d \in Browsers : browser'[d].cookie = browser[d].cookie
    BY <1>0, <2>1, <2>2
  <2>4. CartServiceTypeOK'
    BY <1>0, <2>1, <2>3
       DEF CartServiceTypeOK, CartRow, ItemRow, BrowserRow, RequestRow, Positions
  <2>. QED
    BY <1>0, <2>1, <2>3, <2>4
       DEF CartInv, CallsOK, Homes, HomeRow, Targets, LinesCount, OneLine, Live, OneActiveCart,
           ActiveOf, Named, GuestRow
<1>4. ASSUME NEW c \in Carts, NEW u \in Users, ConvertCart(c, u) PROVE CartInv'
  <2>1. UNCHANGED <<items, browser, request>>
    BY <1>4 DEF ConvertCart
  <2>2. /\ carts' \in [Carts -> CartRow] /\ OneActiveCart'
        /\ \A d \in Carts : GuestRow(d) => GuestRow(d)'
        /\ \A d \in Carts, w \in Users \cup {Guest} : HomeRow(d, w) => HomeRow(d, w)'
    BY <1>0, <1>4, CartsKeep
  <2>3. CartServiceTypeOK'
    BY <1>0, <2>1, <2>2
       DEF CartServiceTypeOK, CartRow, ItemRow, BrowserRow, RequestRow, Positions
  <2>4. Named'
    BY <1>0, <2>1, <2>2 DEF Named
  <2>5. Homes'
    BY <1>0, <2>1, <2>2 DEF Homes, RequestRow
  <2>6. CallsOK' /\ Targets' /\ LinesCount' /\ OneLine'
    BY <1>0, <2>1 DEF CallsOK, Targets, LinesCount, OneLine, Live
  <2>. QED  BY <2>2, <2>3, <2>4, <2>5, <2>6 DEF CartInv
<1>5. ASSUME UNCHANGED cartServiceVars PROVE CartInv'
  BY <1>0, <1>5
     DEF cartServiceVars, CartInv, CartServiceTypeOK, CallsOK, Homes, HomeRow, Targets, LinesCount,
         OneLine, Live, OneActiveCart, ActiveOf, Named, GuestRow
<1>. QED  BY <1>1, <1>2, <1>3, <1>4, <1>5 DEF CartServiceNext

LEMMA CartInvHolds == CartServiceSpec => []CartInv
BY CartInvInit, CartInvStep, PTL DEF CartServiceSpec

----------------------------------------------------------------------------
(* The theorems *)

(* Whatever the requests do, the tables, the browsers and the requests hold
   what their columns and fields may hold: no line leaves 1..MaxLineQty. *)
THEOREM CartTypeCorrect == CartServiceSpec => []CartServiceTypeOK
<1>1. CartInv => CartServiceTypeOK
  BY DEF CartInv
<1>. QED  BY <1>1, CartInvHolds, PTL

(* A user never has two active carts (service.go:54-67, and the unique index
   that it falls back on). *)
THEOREM CartIsUnique == CartServiceSpec => []OneActiveCart
<1>1. CartInv => OneActiveCart
  BY DEF CartInv
<1>. QED  BY <1>1, CartInvHolds, PTL

(* A cookie never names the active cart of a user: Resolve need not look at
   the owner of the cookie's cart (service.go:43). *)
THEOREM CookieIsNobodys == CartServiceSpec => []CookieIsUnowned
<1>1. CartInv => CookieIsUnowned
  <2>. SUFFICES ASSUME CartInv, NEW c \in Carts, carts[c].status = "active",
                       \/ \E b \in Browsers : c = browser[b].cookie
                       \/ \E r \in Requests : c \in {request[r].cookie, request[r].setCookie}
                PROVE  carts[c].user = Guest
    BY DEF CookieIsUnowned
  <2>. QED  BY DEF CartInv, Named, GuestRow
<1>. QED  BY <1>1, CartInvHolds, PTL

(* Only a request that resolved the cart of a line changes it, and that cart
   is its user's, although the line is checked in an earlier query than it is
   written in (service.go:86-104). *)
THEOREM LinesChangeAtHome == CartServiceSpec => WritesStayHome
<1>. DEFINE Kept ==
       \A i \in Items : items'[i] # items[i] =>
         LET home == IF i \in Live THEN items[i].cart ELSE items'[i].cart IN
         \E r \in Requests :
           /\ request'[r] # request[r]
           /\ request[r].cart = home
           /\ request[r].user # Guest => carts[home].user = request[r].user
<1>1. ASSUME CartInv, [CartServiceNext]_cartServiceVars PROVE Kept
  <2>0. /\ CartServiceTypeOK /\ CallsOK /\ LinesCount /\ Homes /\ Targets
        /\ items \in [Items -> ItemRow]
    BY <1>1, Rows DEF CartInv
  <2>. SUFFICES ASSUME NEW i \in Items, items'[i] # items[i]
                PROVE  LET home == IF i \in Live THEN items[i].cart ELSE items'[i].cart IN
                       \E r \in Requests :
                         /\ request'[r] # request[r]
                         /\ request[r].cart = home
                         /\ request[r].user # Guest => carts[home].user = request[r].user
    OBVIOUS
  <2>. DEFINE Home == IF i \in Live THEN items[i].cart ELSE items'[i].cart
  <2>1. PICK r \in Requests : RequestStep(r)
    BY <1>1 DEF CartServiceNext, cartServiceVars, Receive, ChangeToken, ConvertCart
  <2>2. /\ Writes(r) /\ request[r].at \in {"act", "write"} /\ GoTo(r, "snapshot")
    BY <2>0, <2>1, WriteCases
  <2>3. request'[r] # request[r]
    <3>1. "snapshot" \in Positions
      BY DEF Positions
    <3>2. request'[r].at = "snapshot"
      BY <2>0, <2>2, <3>1, Moves
    <3>. QED  BY <2>2, <3>2
  <2>4. request[r].cart \in Carts
    BY <2>0, <2>2 DEF CallsOK
  <2>5. request[r].cart = Home
    <3>1. CASE AddsLine(r)
      <4>1. PICK j \in Items, row \in ItemRow :
              /\ items[j].qty = 0 /\ row.cart = request[r].cart
              /\ items' = [items EXCEPT ![j] = row]
        BY <3>1 DEF AddsLine, Unused
      <4>2. j = i /\ items'[i] = row
        BY <2>0, <4>1
      <4>. QED  BY <2>0, <4>1, <4>2 DEF LinesCount
    <3>2. CASE ChangesLine(r) \/ DeletesLine(r)
      <4>1. PICK j \in Live, row \in ItemRow :
              /\ items[j].cart = request[r].cart \/ (request[r].at = "write" /\ request[r].item = j)
              /\ items' = [items EXCEPT ![j] = row]
        BY <3>2 DEF ChangesLine, DeletesLine
      <4>2. j = i
        BY <2>0, <4>1
      <4>3. items[i].cart = request[r].cart
        BY <2>0, <4>1, <4>2 DEF Targets, Live
      <4>. QED  BY <4>1, <4>2, <4>3
    <3>. QED  BY <2>2, <3>1, <3>2 DEF Writes
  <2>6. request[r].user # Guest => carts[request[r].cart].user = request[r].user
    BY <2>0, <2>4 DEF Homes, HomeRow
  <2>. QED  BY <2>3, <2>5, <2>6
<1>. QED  BY <1>1, CartInvHolds, PTL DEF CartServiceSpec, WritesStayHome

----------------------------------------------------------------------------
(* The refinement *)

QtyIsOfLine ==
  OneLine => \A c \in Carts, v \in Variants : \A i \in Line(c, v) : LineQty(c, v) = items[i].qty

LEMMA LineQtyIs == QtyIsOfLine
<1>. SUFFICES ASSUME OneLine, NEW c \in Carts, NEW v \in Variants, NEW i \in Line(c, v)
              PROVE  LineQty(c, v) = items[i].qty
  BY DEF QtyIsOfLine
<1>. DEFINE j == CHOOSE j \in Line(c, v) : TRUE
<1>1. j \in Line(c, v)
  OBVIOUS
<1>2. j = i
  BY <1>1 DEF OneLine, Line
<1>. QED  BY <1>2 DEF LineQty

LEMMA LineQtySame ==
  ASSUME NEW c \in Carts, NEW v \in Variants, Line(c, v)' = Line(c, v),
         \A i \in Line(c, v) : items'[i] = items[i]
  PROVE  LineQty(c, v)' = LineQty(c, v)
<1>. DEFINE i == CHOOSE i \in Line(c, v) : TRUE
<1>1. CASE Line(c, v) = {}
  BY <1>1 DEF LineQty
<1>2. CASE Line(c, v) # {}
  <2>1. i \in Line(c, v)
    BY <1>2
  <2>2. i' = i
    OBVIOUS
  <2>3. LineQty(c, v) = items[i].qty /\ LineQty(c, v)' = items'[i'].qty
    BY <1>2 DEF LineQty
  <2>. QED  BY <2>1, <2>2, <2>3
<1>. QED  BY <1>1, <1>2

(* A write changes the quantity of one variant in one cart. *)
LEMMA WriteEdits ==
  ASSUME CartInv, OneLine', NEW r \in Requests, Writes(r), request[r].cart \in Carts
  PROVE  \E c \in Carts, v \in Variants, q \in 0..MaxLineQty :
           /\ c = request[r].cart
           /\ \A d \in Carts, w \in Variants :
                LineQty(d, w)' = IF d = c /\ w = v THEN q ELSE LineQty(d, w)
<1>0. /\ CartServiceTypeOK /\ CallsOK /\ LinesCount /\ OneLine /\ Targets
      /\ items \in [Items -> ItemRow] /\ NoCart \notin Carts /\ MaxLineQty \in Nat
  BY Rows, CartAssumption DEF CartInv
<1>c. PICK c \in Carts : c = request[r].cart
  OBVIOUS
<1>1. PICK i \in Items, row \in ItemRow, v \in Variants :
        /\ items' = [items EXCEPT ![i] = row] /\ row.variant = v /\ row.cart \in {c, NoCart}
        /\ Line(c, v) \subseteq {i}
        /\ i \in Live => items[i].cart = c /\ items[i].variant = v
  <2>1. CASE AddsLine(r)
    BY <1>0, <1>c, <2>1 DEF AddsLine, Unused, LinesCount
  <2>2. CASE ChangesLine(r) \/ DeletesLine(r)
    <3>1. PICK i \in Live, row \in ItemRow :
            /\ items[i].cart = c \/ (request[r].at = "write" /\ request[r].item = i)
            /\ row.cart \in {items[i].cart, NoCart} /\ row.variant = items[i].variant
            /\ items' = [items EXCEPT ![i] = row]
      BY <1>c, <2>2 DEF ChangesLine, DeletesLine
    <3>2. items[i].cart = c /\ items[i].variant \in Variants /\ i \in Items
      BY <1>0, <1>c, <3>1 DEF Targets, Live, LinesCount
    <3>3. Line(c, items[i].variant) \subseteq {i}
      BY <1>0, <3>1, <3>2 DEF OneLine, Line
    <3>. QED  BY <3>1, <3>2, <3>3
  <2>. QED  BY <2>1, <2>2 DEF Writes
<1>2. /\ items'[i] = row /\ \A j \in Items : j # i => items'[j] = items[j]
  BY <1>0, <1>1
<1>. DEFINE q == IF row.cart = NoCart THEN 0 ELSE row.qty
<1>3. q \in 0..MaxLineQty
  BY <1>0 DEF ItemRow
<1>4. LineQty(c, v)' = q
  <2>1. CASE row.cart = NoCart
    <3>1. Line(c, v)' = {}
      BY <1>0, <1>1, <1>2, <2>1 DEF Line, Live
    <3>. QED  BY <2>1, <3>1 DEF LineQty
  <2>2. CASE row.cart = c
    <3>1. i \in Line(c, v)'
      BY <1>0, <1>1, <1>2, <2>2 DEF Line, Live
    <3>2. LineQty(c, v)' = items'[i].qty
      <4>1. QtyIsOfLine'
        BY LineQtyIs, PTL
      <4>. QED  BY <3>1, <4>1 DEF QtyIsOfLine
    <3>. QED  BY <1>0, <1>2, <2>2, <3>2
  <2>. QED  BY <1>1, <2>1, <2>2
<1>5. ASSUME NEW d \in Carts, NEW w \in Variants, ~(d = c /\ w = v)
      PROVE  LineQty(d, w)' = LineQty(d, w)
  <2>1. i \notin Line(d, w) /\ i \notin Line(d, w)'
    BY <1>0, <1>1, <1>2, <1>5 DEF Line, Live
  <2>2. Line(d, w)' = Line(d, w)
    BY <1>2, <2>1 DEF Line, Live
  <2>3. \A j \in Line(d, w) : items'[j] = items[j]
    BY <1>2, <2>1 DEF Line, Live
  <2>. QED  BY <2>2, <2>3, LineQtySame
<1>. HIDE DEF q
<1>6. \A d \in Carts, w \in Variants :
        LineQty(d, w)' = IF d = c /\ w = v THEN q ELSE LineQty(d, w)
  BY <1>4, <1>5
<1>. QED  BY <1>c, <1>3, <1>6

ownerOf == [c \in Carts |-> carts[c].user]
statusOf == [c \in Carts |-> carts[c].status]
linesOf == [c \in Carts |-> [v \in Variants |-> LineQty(c, v)]]

LEMMA SameLines ==
  ASSUME items' = items
  PROVE  linesOf' = linesOf
<1>1. \A c \in Carts, v \in Variants : LineQty(c, v)' = LineQty(c, v)
  BY LineQtySame DEF Line, Live
<1>. QED  BY <1>1 DEF linesOf

(* The overlapping requests of the cart endpoints change the tables as checkout
   relies on (CartStore): line by line, in a cart that exists, under the cap,
   at most one active cart of a user, and an owner that stays. *)
THEOREM CartImplementsStore == CartServiceSpec => ImplementsStore
<1>1. ASSUME CartServiceInit PROVE Store!StoreInit
  <2>1. \A c \in Carts, v \in Variants : LineQty(c, v) = 0
    BY <1>1 DEF CartServiceInit, LineQty, Line, Live
  <2>. QED  BY <1>1, <2>1 DEF CartServiceInit, Store!StoreInit
<1>2. ASSUME CartInv, CartInv', [CartServiceNext]_cartServiceVars
      PROVE  [Store!StoreNext]_(Store!storeVars)
  <2>0. /\ CartServiceTypeOK /\ CallsOK /\ Homes /\ OneLine' /\ carts \in [Carts -> CartRow]
    BY <1>2, Rows DEF CartInv
  <2>. DEFINE Same == ownerOf' = ownerOf /\ statusOf' = statusOf /\ linesOf' = linesOf
  <2>1. Same => [Store!StoreNext]_(Store!storeVars)
    BY DEF ownerOf, statusOf, linesOf, Store!storeVars
  <2>2. carts' = carts => ownerOf' = ownerOf /\ statusOf' = statusOf
    BY DEF ownerOf, statusOf
  <2>3. ASSUME carts' = carts, items' = items PROVE Same
    BY <2>2, <2>3, SameLines
  <2>4. ASSUME NEW c \in Carts, NEW u \in Users \cup {Guest}, InsertCart(c, u), items' = items
        PROVE  Store!StoreNext
    <3>1. /\ statusOf[c] = "none"
          /\ u # Guest => \A d \in Carts : ~(ownerOf[d] = u /\ statusOf[d] = "active")
      BY <2>4 DEF InsertCart, ActiveOf, ownerOf, statusOf
    <3>2. /\ ownerOf' = [ownerOf EXCEPT ![c] = u]
          /\ statusOf' = [statusOf EXCEPT ![c] = "active"]
      BY <2>0, <2>4 DEF InsertCart, ownerOf, statusOf
    <3>3. linesOf' = linesOf
      BY <2>4, SameLines
    <3>4. Store!Open(c, u)
      BY <3>1, <3>2, <3>3 DEF Store!Open, ownerOf, statusOf, linesOf
    <3>. QED  BY <3>4 DEF Store!StoreNext
  <2>5. ASSUME NEW c \in Carts, NEW u \in Users, ConvertCart(c, u)
        PROVE  Store!StoreNext
    <3>1. statusOf[c] = "active" /\ ownerOf[c] \in {Guest, u}
      BY <2>5 DEF ConvertCart, ownerOf, statusOf
    <3>2. /\ ownerOf' = [ownerOf EXCEPT ![c] = u]
          /\ statusOf' = [statusOf EXCEPT ![c] = "converted"]
      BY <2>0, <2>5 DEF ConvertCart, ownerOf, statusOf
    <3>3. linesOf' = linesOf
      BY <2>5, SameLines DEF ConvertCart
    <3>4. Store!Buy(c, u)
      BY <3>1, <3>2, <3>3 DEF Store!Buy, ownerOf, statusOf, linesOf
    <3>. QED  BY <3>4 DEF Store!StoreNext
  <2>6. ASSUME NEW r \in Requests, RequestStep(r), items' # items
        PROVE  Store!StoreNext
    <3>1. Writes(r) /\ carts' = carts /\ request[r].cart \in Carts
      BY <1>2, <2>6, WriteCases DEF CartInv, CallsOK
    <3>2. PICK c \in Carts, v \in Variants, q \in 0..MaxLineQty :
            /\ c = request[r].cart
            /\ \A d \in Carts, w \in Variants :
                 LineQty(d, w)' = IF d = c /\ w = v THEN q ELSE LineQty(d, w)
      BY <1>2, <2>0, <3>1, WriteEdits
    <3>3. statusOf[c] # "none"
      BY <2>0, <3>2 DEF Homes, HomeRow, statusOf
    <3>4. linesOf' = [linesOf EXCEPT ![c][v] = q]
      BY <3>2 DEF linesOf
    <3>5. Store!Edit(c, v, q)
      BY <2>2, <3>1, <3>3, <3>4 DEF Store!Edit, ownerOf, statusOf, linesOf
    <3>. QED  BY <3>5 DEF Store!StoreNext
  <2>7. ASSUME NEW r \in Requests, RequestStep(r)
        PROVE  [Store!StoreNext]_(Store!storeVars)
    <3>1. carts' = carts \/ \E c \in Carts, u \in Users \cup {Guest} : InsertCart(c, u)
      BY <2>0, <2>7, StepCases
    <3>. QED  BY <2>1, <2>3, <2>4, <2>6, <2>7, <3>1
  <2>8. ASSUME UNCHANGED <<carts, items>> PROVE [Store!StoreNext]_(Store!storeVars)
    BY <2>1, <2>3, <2>8
  <2>. QED
    BY <1>2, <2>5, <2>7, <2>8 DEF CartServiceNext, Receive, ChangeToken, cartServiceVars
<1>. QED
  BY <1>1, <1>2, CartInvHolds, PTL DEF CartServiceSpec, ImplementsStore, Store!StoreSpec

----------------------------------------------------------------------------
(* What the adds amount to: a step adds to a line what it makes a request count
   for, or it neither adds nor counts less than before *)

Answered == {"snapshot", "ok"}
Possible == {"snapshot", "ok", "error"}

OnlyAdds ==
  \A r \in Requests : request[r].call # NoCall => ~Asks(r, "update") /\ ~Asks(r, "remove")

Asked == {r \in Requests : request[r].call # NoCall}

(* Requests arrive one by one, so that only finitely many ever count. *)
FewAsked ==
  /\ IsFiniteSet(Asked)
  /\ \A r \in Requests : request[r].at = "idle" => request[r].call = NoCall

AddsInv == FewAsked /\ AddsAccumulate

AddedIsFinite ==
  FewAsked =>
    \A c \in Carts, v \in Variants, steps \in {Answered, Possible} :
      IsFiniteSet(Added(c, v, steps)) /\ Cardinality(Added(c, v, steps)) \in Nat

LEMMA AddedFinite == AddedIsFinite
<1>. SUFFICES ASSUME FewAsked, NEW c \in Carts, NEW v \in Variants,
                     NEW steps \in {Answered, Possible}
              PROVE  IsFiniteSet(Added(c, v, steps)) /\ Cardinality(Added(c, v, steps)) \in Nat
  BY DEF AddedIsFinite
<1>1. IsFiniteSet(1..MaxLineQty)
  <2>1. 1 \in Int /\ MaxLineQty \in Int
    BY CartAssumption
  <2>. QED  BY <2>1, FS_Interval
<1>2. IsFiniteSet(Asked \X (1..MaxLineQty))
  BY <1>1, FS_Product DEF FewAsked
<1>3. Added(c, v, steps) \in SUBSET (Asked \X (1..MaxLineQty))
  BY DEF Added, Counted, Asked
<1>. QED  BY <1>2, <1>3, FS_Subset, FS_CardinalityType

(* The row that a request becomes counts less for sure than it did, and no
   less possibly. *)
Loosens(old, row) ==
  \A c \in Carts, v \in Variants :
    /\ Counted(row, c, v, Answered) => Counted(old, c, v, Answered) /\ row.call = old.call
    /\ Counted(old, c, v, Possible) => Counted(row, c, v, Possible) /\ row.call = old.call

Uncounted(req) == req.call = NoCall \/ req.call.op # "add" \/ req.at \notin Possible

(* A successful add. *)
Puts(r) ==
  /\ request[r].at = "act" /\ request[r].call.op = "add"
  /\ request[r].call.variant # NoVariant
  /\ UpsertCartItem(request[r].cart, request[r].call.variant, request[r].call.qty)
  /\ GoTo(r, "snapshot") /\ UNCHANGED <<carts, browser>>

LEMMA AddCases ==
  ASSUME CartServiceTypeOK, CallsOK, FewAsked, NEW r \in Requests, RequestStep(r)
  PROVE  /\ \A s \in Requests : s # r => request'[s] = request[s]
         /\ request[r].call = NoCall \/ request'[r].call = request[r].call
         /\ request'[r].at # "idle"
         /\ \/ items' = items /\ Loosens(request[r], request'[r])
            \/ Puts(r)
            \/ request[r].call # NoCall /\ (Asks(r, "update") \/ Asks(r, "remove"))
<1>0. request \in [Requests -> RequestRow] /\ NoCall \notin Call
  BY Rows, CartAssumption
<1>1. PICK row \in RequestRow : request' = [request EXCEPT ![r] = row] /\ RowOK(r, row)
  BY StepCases
<1>2. /\ request'[r] = row /\ row.at # "idle"
      /\ \A s \in Requests : s # r => request'[s] = request[s]
  BY <1>0, <1>1 DEF RowOK
<1>3. ASSUME Uncounted(request[r]), Uncounted(request'[r])
      PROVE  Loosens(request[r], request'[r])
  BY <1>3 DEF Loosens, Uncounted, Counted, Answered, Possible
<1>4. ASSUME NEW step \in Positions, GoTo(r, step)
      PROVE  request'[r] = [request[r] EXCEPT !.at = step] /\ request'[r].at = step
             /\ request'[r].call = request[r].call /\ request'[r].cart = request[r].cart
  BY <1>4, Moves
<1>. DEFINE Same == request'[r].call = request[r].call
            Quiet == items' = items /\ Loosens(request[r], request'[r])
            Edit == request[r].call # NoCall /\ (Asks(r, "update") \/ Asks(r, "remove"))
<1>5. ASSUME NEW call \in Calls[r], Arrive(r, call)
      PROVE  request[r].call = NoCall /\ Quiet
  <2>1. request[r].call = NoCall /\ request[r].at = "idle"
    BY <1>5 DEF Arrive, FewAsked
  <2>2. request'[r].at \in {"invalid", "resolve"}
    BY <1>0, <1>5 DEF Arrive, RequestRow
  <2>. QED  BY <1>3, <1>5, <2>1, <2>2 DEF Arrive, Uncounted, Possible
<1>6. ASSUME Resolve(r) \/ (\E c \in Carts : CreateCart(r, c)) \/ (\E i \in Items : FindItem(r, i))
      PROVE  Same /\ Quiet
  <2>1. request[r].at \in {"resolve", "create", "act"} /\ items' = items
    BY <1>6 DEF Resolve, CreateCart, FindItem
  <2>2. \/ \E step \in {"create", "notFound"} : GoTo(r, step)
        \/ \E d \in Carts : request' = [request EXCEPT ![r] = [@ EXCEPT !.at = "act", !.cart = d]]
        \/ \E d \in Carts, k \in Carts \cup {NoCart} :
             request' = [request EXCEPT ![r] =
               [@ EXCEPT !.at = "act", !.cart = d, !.setCookie = k]]
        \/ \E i \in Items :
             request' = [request EXCEPT ![r] = [@ EXCEPT !.at = "write", !.item = i]]
    <3>1. CASE Resolve(r)
      <4>1. request[r].cookie \in Carts \cup {NoCart}
        BY <1>0 DEF RequestRow
      <4>. QED  BY <3>1, <4>1 DEF Resolve, ActiveOf
    <3>2. ASSUME NEW c \in Carts, CreateCart(r, c)
          PROVE  \E d \in Carts, k \in Carts \cup {NoCart} :
                   request' = [request EXCEPT ![r] =
                     [@ EXCEPT !.at = "act", !.cart = d, !.setCookie = k]]
      BY <3>2 DEF CreateCart
    <3>3. CASE \E i \in Items : FindItem(r, i)
      BY <3>3 DEF FindItem
    <3>. QED  BY <1>6, <3>1, <3>2, <3>3
  <2>3. /\ request'[r].at \in {"create", "act", "write", "notFound"}
        /\ request'[r].call = request[r].call
    <3>1. CASE \E step \in {"create", "notFound"} : GoTo(r, step)
      BY <1>4, <3>1 DEF Positions, Answer
    <3>2. ASSUME NEW d \in Carts,
                 request' = [request EXCEPT ![r] = [@ EXCEPT !.at = "act", !.cart = d]]
          PROVE  request'[r].at = "act" /\ request'[r].call = request[r].call
      BY <1>0, <3>2 DEF RequestRow
    <3>3. ASSUME NEW d \in Carts, NEW k \in Carts \cup {NoCart},
                 request' = [request EXCEPT ![r] =
                   [@ EXCEPT !.at = "act", !.cart = d, !.setCookie = k]]
          PROVE  request'[r].at = "act" /\ request'[r].call = request[r].call
      BY <1>0, <3>3 DEF RequestRow
    <3>4. ASSUME NEW i \in Items,
                 request' = [request EXCEPT ![r] = [@ EXCEPT !.at = "write", !.item = i]]
          PROVE  request'[r].at = "write" /\ request'[r].call = request[r].call
      BY <1>0, <3>4 DEF RequestRow
    <3>. QED  BY <2>2, <3>1, <3>2, <3>3, <3>4
  <2>. QED  BY <1>3, <2>1, <2>3 DEF Uncounted, Possible
<1>7. ASSUME LookupFails(r) \/ CreateRefused(r)
      PROVE  Same /\ Quiet
  <2>1. request[r].at \in {"resolve", "create"} /\ items' = items
        /\ (GoTo(r, "create") \/ GoTo(r, "unresolved"))
    BY <1>7 DEF LookupFails, CreateRefused
  <2>2. request'[r].at \in {"create", "unresolved"} /\ request'[r].call = request[r].call
    BY <1>4, <2>1 DEF Positions, Answer
  <2>. QED  BY <1>3, <2>1, <2>2 DEF Uncounted, Possible
<1>8. ASSUME Add(r), ~Puts(r)
      PROVE  Same /\ Quiet
  <2>1. request[r].at = "act" /\ items' = items /\ (GoTo(r, "notFound") \/ GoTo(r, "tooLarge"))
    BY <1>8 DEF Add, Puts, Asks
  <2>2. request'[r].at \in {"notFound", "tooLarge"} /\ request'[r].call = request[r].call
    BY <1>4, <2>1 DEF Positions, Answer
  <2>. QED  BY <1>3, <2>1, <2>2 DEF Uncounted, Possible
<1>9. ASSUME Puts(r)
      PROVE  Same
  BY <1>4, <1>9 DEF Puts, Positions
<1>10. ASSUME Snapshot(r)
       PROVE  Same /\ Quiet
  <2>1. /\ items' = items /\ GoTo(r, "ok")
        /\ \/ request[r].at = "snapshot"
           \/ request[r].at = "act" /\ request[r].call.op = "view"
    BY <1>10 DEF Snapshot, Asks
  <2>2. /\ request'[r].at = "ok" /\ request'[r].call = request[r].call
        /\ request'[r].cart = request[r].cart
    BY <1>4, <2>1 DEF Positions, Answer
  <2>. QED  BY <2>1, <2>2 DEF Loosens, Counted, Answered, Possible
<1>11. ASSUME Fail(r)
       PROVE  Same /\ Quiet
  <2>1. items' = items /\ GoTo(r, "error")
    BY <1>11 DEF Fail
  <2>2. /\ request'[r].at = "error" /\ request'[r].call = request[r].call
        /\ request'[r].cart = request[r].cart
    BY <1>4, <2>1 DEF Positions, Answer
  <2>. QED  BY <2>1, <2>2 DEF Loosens, Counted, Answered, Possible
<1>12. ASSUME WriteItem(r) \/ \E i \in Items : Remove(r, i)
       PROVE  Same /\ Edit
  <2>1. request[r].at \in {"act", "write"} /\ (Asks(r, "update") \/ Asks(r, "remove"))
    BY <1>12 DEF WriteItem, Remove, CallsOK, Asks
  <2>2. request[r].call # NoCall
    BY <1>0, <2>1 DEF CallsOK
  <2>3. GoTo(r, "snapshot") \/ GoTo(r, "error") \/ GoTo(r, "notFound")
    BY <1>12 DEF WriteItem, Remove
  <2>. QED  BY <1>4, <2>1, <2>2, <2>3 DEF Positions, Answer
<1>. QED
  BY <1>2, <1>5, <1>6, <1>7, <1>8, <1>9, <1>10, <1>11, <1>12 DEF RequestStep

(* A successful add puts its quantity on the line, and on no other. *)
LEMMA AddEdits ==
  ASSUME CartInv, OneLine', NEW r \in Requests, Puts(r)
  PROVE  \E c \in Carts, v \in Variants, q \in 1..MaxLineQty :
           /\ c = request[r].cart /\ v = request[r].call.variant /\ q = request[r].call.qty
           /\ LineQty(c, v)' = LineQty(c, v) + q
           /\ \A d \in Carts, w \in Variants :
                ~(d = c /\ w = v) => LineQty(d, w)' = LineQty(d, w)
<1>0. /\ CartServiceTypeOK /\ CallsOK /\ LinesCount /\ OneLine
      /\ items \in [Items -> ItemRow] /\ NoCart \notin Carts /\ MaxLineQty \in Nat
  BY Rows, CartAssumption DEF CartInv
<1>c. PICK c \in Carts : c = request[r].cart
  BY <1>0 DEF Puts, CallsOK
<1>v. PICK v \in Variants : v = request[r].call.variant
  BY <1>0 DEF Puts, CallsOK, Call
<1>q. PICK q \in 1..MaxLineQty : q = request[r].call.qty
  BY <1>0 DEF Puts, CallsOK
<1>u. UpsertCartItem(c, v, q)
  BY <1>c, <1>v, <1>q DEF Puts
<1>1. PICK i \in Items, row \in ItemRow :
        /\ items' = [items EXCEPT ![i] = row] /\ row.variant = v /\ row.cart = c
        /\ Line(c, v) \subseteq {i}
        /\ i \in Live => items[i].cart = c /\ items[i].variant = v
        /\ row.qty = LineQty(c, v) + q
  <2>1. CASE AddLine(c, v, q)
    <3>1. PICK i \in Unused : items' = [items EXCEPT ![i] = [cart |-> c, variant |-> v, qty |-> q]]
      BY <2>1 DEF AddLine
    <3>. DEFINE row == [cart |-> c, variant |-> v, qty |-> q]
    <3>2. row \in ItemRow /\ row.cart = c /\ row.variant = v /\ row.qty = q
      BY DEF ItemRow
    <3>3. items' = [items EXCEPT ![i] = row]
      BY <3>1
    <3>. HIDE DEF row
    <3>4. Line(c, v) = {} /\ LineQty(c, v) = 0
      BY <2>1 DEF AddLine, LineQty
    <3>5. i \in Items /\ i \notin Live
      BY <1>0 DEF Unused, LinesCount
    <3>6. row.qty = LineQty(c, v) + q
      BY <3>2, <3>4
    <3>. QED  BY <3>2, <3>3, <3>4, <3>5, <3>6
  <2>2. CASE \E i \in Line(c, v) :
               items[i].qty + q <= MaxLineQty /\ items' = [items EXCEPT ![i].qty = @ + q]
    <3>1. PICK i \in Line(c, v) :
            items[i].qty + q <= MaxLineQty /\ items' = [items EXCEPT ![i].qty = @ + q]
      BY <2>2
    <3>2. i \in Items /\ i \in Live /\ items[i].cart = c /\ items[i].variant = v
      BY DEF Line, Live
    <3>. DEFINE n == items[i].qty + q
                row == [items[i] EXCEPT !.qty = n]
    <3>3. n \in 0..MaxLineQty
      BY <1>0, <3>1, <3>2 DEF ItemRow
    <3>4. items' = [items EXCEPT ![i] = row]
      BY <3>1
    <3>5. LineQty(c, v) = items[i].qty
      BY <1>0, LineQtyIs DEF QtyIsOfLine
    <3>6. n = LineQty(c, v) + q
      BY <3>5
    <3>. HIDE DEF n
    <3>7. row \in ItemRow /\ row.qty = n /\ row.cart = c /\ row.variant = v
      BY <1>0, <3>2, <3>3 DEF ItemRow
    <3>. HIDE DEF row
    <3>8. Line(c, v) \subseteq {i}
      BY <1>0, <3>2 DEF OneLine, Line
    <3>. QED  BY <3>2, <3>4, <3>6, <3>7, <3>8
  <2>. QED  BY <1>u, <2>1, <2>2 DEF UpsertCartItem
<1>2. /\ items'[i] = row /\ \A j \in Items : j # i => items'[j] = items[j]
  BY <1>0, <1>1
<1>3. LineQty(c, v)' = LineQty(c, v) + q
  <2>1. i \in Line(c, v)'
    BY <1>0, <1>1, <1>2 DEF Line, Live
  <2>2. QtyIsOfLine'
    BY LineQtyIs, PTL
  <2>3. LineQty(c, v)' = items'[i].qty
    BY <1>0, <2>1, <2>2 DEF QtyIsOfLine
  <2>. QED  BY <1>1, <1>2, <2>3
<1>4. ASSUME NEW d \in Carts, NEW w \in Variants, ~(d = c /\ w = v)
      PROVE  LineQty(d, w)' = LineQty(d, w)
  <2>1. i \notin Line(d, w) /\ i \notin Line(d, w)'
    BY <1>0, <1>1, <1>2, <1>4 DEF Line, Live
  <2>2. Line(d, w)' = Line(d, w)
    BY <1>2, <2>1 DEF Line, Live
  <2>3. \A j \in Line(d, w) : items'[j] = items[j]
    BY <1>2, <2>1 DEF Line, Live
  <2>. QED  BY <2>2, <2>3, LineQtySame
<1>. QED  BY <1>c, <1>v, <1>q, <1>3, <1>4

LEMMA OneToN ==
  ASSUME NEW n \in Int, 1 <= n
  PROVE  IsFiniteSet(1..n) /\ Cardinality(1..n) = n
<1>1. 1 \in Int
  OBVIOUS
<1>2. IsFiniteSet(1..n) /\ Cardinality(1..n) = IF 1 > n THEN 0 ELSE n - 1 + 1
  BY <1>1, FS_Interval
<1>. QED  BY <1>2

(* It counts from then on, unit by unit. *)
LEMMA AddCounts ==
  ASSUME CartInv, FewAsked, NEW r \in Requests, Puts(r),
         NEW steps \in {Answered, Possible}, NEW q \in 1..MaxLineQty, q = request[r].call.qty
  PROVE  \A c \in Carts, v \in Variants :
           Cardinality(Added(c, v, steps)') =
             Cardinality(Added(c, v, steps))
               + IF c = request[r].cart /\ v = request[r].call.variant THEN q ELSE 0
<1>0. CartServiceTypeOK /\ request[r].call # NoCall /\ MaxLineQty \in Nat
  BY CartAssumption DEF CartInv, CallsOK, Puts
<1>1. /\ request'[r].at = "snapshot" /\ request'[r].call = request[r].call
      /\ request'[r].cart = request[r].cart
      /\ \A s \in Requests : s # r => request'[s] = request[s]
  <2>1. "snapshot" \in Positions
    BY DEF Positions
  <2>. QED  BY <1>0, <2>1, Moves DEF Puts
<1>. SUFFICES ASSUME NEW c \in Carts, NEW v \in Variants
              PROVE  Cardinality(Added(c, v, steps)') =
                       Cardinality(Added(c, v, steps))
                         + IF c = request[r].cart /\ v = request[r].call.variant THEN q ELSE 0
  OBVIOUS
<1>. DEFINE before == Added(c, v, steps)
            after == Added(c, v, steps)'
            units == {r} \X (1..q)
<1>2. \A s \in Requests : s # r => (Counted(request'[s], c, v, steps) <=> Counted(request[s], c, v, steps))
                                   /\ request'[s].call = request[s].call
  BY <1>1
<1>3. ~Counted(request[r], c, v, steps)
  BY DEF Puts, Counted, Answered, Possible
<1>4. Counted(request'[r], c, v, steps) <=> c = request[r].cart /\ v = request[r].call.variant
  BY <1>0, <1>1 DEF Puts, Counted, Answered, Possible
<1>5. IsFiniteSet(before) /\ Cardinality(before) \in Nat
  BY AddedFinite DEF AddedIsFinite
<1>6. CASE ~(c = request[r].cart /\ v = request[r].call.variant)
  <2>1. after = before
    BY <1>1, <1>2, <1>3, <1>4, <1>6 DEF Added
  <2>. HIDE DEF before, after
  <2>2. Cardinality(after) = Cardinality(before) + 0
    BY <1>5, <2>1
  <2>. QED  BY <1>6, <2>2 DEF before, after
<1>7. CASE c = request[r].cart /\ v = request[r].call.variant
  <2>1. after = before \cup units
    <3>1. \A s \in Requests, n \in 1..MaxLineQty :
            <<s, n>> \in after <=> Counted(request'[s], c, v, steps) /\ n <= request'[s].call.qty
      BY DEF Added
    <3>2. \A s \in Requests, n \in 1..MaxLineQty :
            <<s, n>> \in before <=> Counted(request[s], c, v, steps) /\ n <= request[s].call.qty
      BY DEF Added
    <3>3. \A s \in Requests, n \in 1..MaxLineQty : <<s, n>> \in units <=> s = r /\ n <= q
      BY <1>0
    <3>4. \A s \in Requests, n \in 1..MaxLineQty :
            <<s, n>> \in after <=> <<s, n>> \in before \/ <<s, n>> \in units
      BY <1>1, <1>2, <1>3, <1>4, <1>7, <3>1, <3>2, <3>3
    <3>5. /\ after \subseteq Requests \X (1..MaxLineQty)
          /\ before \subseteq Requests \X (1..MaxLineQty)
          /\ units \subseteq Requests \X (1..MaxLineQty)
      BY <1>0 DEF Added
    <3>. HIDE DEF after, before, units
    <3>. QED  BY <3>4, <3>5
  <2>2. before \cap units = {}
    BY <1>3 DEF Added
  <2>3. IsFiniteSet(units) /\ Cardinality(units) = q
    <3>1. IsFiniteSet({r}) /\ Cardinality({r}) = 1
      BY FS_Singleton
    <3>2. IsFiniteSet(1..q) /\ Cardinality(1..q) = q
      <4>1. 1 \in Int /\ q \in Int /\ 1 <= q
        BY <1>0
      <4>. HIDE DEF units, before, after
      <4>. QED  BY <4>1, OneToN
    <3>3. IsFiniteSet(units) /\ Cardinality(units) = Cardinality({r}) * Cardinality(1..q)
      BY <3>1, <3>2, FS_Product
    <3>4. 1 * q = q
      OBVIOUS
    <3>. QED  BY <3>1, <3>2, <3>3, <3>4
  <2>. HIDE DEF before, after, units
  <2>4. Cardinality(after) = Cardinality(before) + Cardinality(units) - Cardinality(before \cap units)
    BY <1>5, <2>1, <2>3, FS_Union
  <2>5. Cardinality(before \cap units) = 0
    BY <2>2, FS_EmptySet
  <2>6. Cardinality(after) = Cardinality(before) + q
    BY <1>5, <2>3, <2>4, <2>5
  <2>. QED  BY <1>7, <2>6 DEF before, after
<1>. QED  BY <1>6, <1>7

(* Any other step keeps the lines between the bounds. *)
LEMMA OthersLoosen ==
  ASSUME FewAsked, FewAsked', NEW r \in Requests, Loosens(request[r], request'[r]),
         \A s \in Requests : s # r => request'[s] = request[s],
         NEW c \in Carts, NEW v \in Variants
  PROVE  /\ Cardinality(Added(c, v, Answered)') <= Cardinality(Added(c, v, Answered))
         /\ Cardinality(Added(c, v, Possible)) <= Cardinality(Added(c, v, Possible)')
<1>1. Added(c, v, Answered)' \subseteq Added(c, v, Answered)
  BY DEF Added, Loosens
<1>2. Added(c, v, Possible) \subseteq Added(c, v, Possible)'
  BY DEF Added, Loosens
<1>3. IsFiniteSet(Added(c, v, Answered))
  BY AddedFinite DEF AddedIsFinite
<1>4. IsFiniteSet(Added(c, v, Possible)')
  <2>1. AddedIsFinite'
    BY AddedFinite, PTL
  <2>. QED  BY <2>1 DEF AddedIsFinite, Possible, Answered
<1>. QED  BY <1>1, <1>2, <1>3, <1>4, FS_Subset

(* A step that arrives or moves on leaves the counts in order. *)
LEMMA FewAskedStays ==
  ASSUME FewAsked, NEW r \in Requests, request'[r].at # "idle",
         \A s \in Requests : s # r => request'[s] = request[s]
  PROVE  FewAsked'
<1>1. Asked' \subseteq Asked \cup {r}
  BY DEF Asked
<1>2. IsFiniteSet(Asked \cup {r})
  BY FS_AddElement DEF FewAsked
<1>3. IsFiniteSet(Asked')
  BY <1>1, <1>2, FS_Subset
<1>. QED  BY <1>3 DEF FewAsked

Between ==
  \A c \in Carts, v \in Variants :
    LineQty(c, v) \in Cardinality(Added(c, v, Answered))..Cardinality(Added(c, v, Possible))

LEMMA AddsInvStep ==
  ASSUME CartInv, CartInv', AddsInv, [CartServiceNext]_cartServiceVars
  PROVE  AddsInv'
<1>0. /\ CartServiceTypeOK /\ CallsOK /\ FewAsked /\ (OnlyAdds => Between)
      /\ request \in [Requests -> RequestRow] /\ OneLine' /\ MaxLineQty \in Nat
  BY Rows, CartAssumption DEF CartInv, AddsInv, AddsAccumulate, OnlyAdds, Between, Answered, Possible
<1>1. SUFFICES FewAsked' /\ (OnlyAdds' => Between')
  BY DEF AddsInv, AddsAccumulate, OnlyAdds, Between, Answered, Possible
<1>2. ASSUME items' = items, NEW c \in Carts, NEW v \in Variants
      PROVE  LineQty(c, v)' = LineQty(c, v)
  BY <1>2, LineQtySame DEF Line, Live
<1>3. ASSUME NEW r \in Requests, RequestStep(r)
      PROVE  FewAsked' /\ (OnlyAdds' => Between')
  <2>1. /\ \A s \in Requests : s # r => request'[s] = request[s]
        /\ request[r].call = NoCall \/ request'[r].call = request[r].call
        /\ request'[r].at # "idle"
        /\ \/ items' = items /\ Loosens(request[r], request'[r])
           \/ Puts(r)
           \/ request[r].call # NoCall /\ (Asks(r, "update") \/ Asks(r, "remove"))
    BY <1>0, <1>3, AddCases
  <2>2. FewAsked'
    BY <1>0, <2>1, FewAskedStays
  <2>3. OnlyAdds' => OnlyAdds
    BY <2>1 DEF OnlyAdds, Asks
  <2>4. AddedIsFinite /\ AddedIsFinite'
    BY AddedFinite, PTL
  <2>5. ASSUME OnlyAdds', NEW c \in Carts, NEW v \in Variants
        PROVE  LineQty(c, v)' \in Cardinality(Added(c, v, Answered)')
                                   ..Cardinality(Added(c, v, Possible)')
    <3>. DEFINE low == Cardinality(Added(c, v, Answered))
                high == Cardinality(Added(c, v, Possible))
                lowNext == Cardinality(Added(c, v, Answered)')
                highNext == Cardinality(Added(c, v, Possible)')
                qty == LineQty(c, v)
                qtyNext == LineQty(c, v)'
    <3>1. qty \in low..high
      BY <1>0, <2>3, <2>5 DEF Between
    <3>2. low \in Nat /\ high \in Nat /\ lowNext \in Nat /\ highNext \in Nat
      BY <1>0, <2>2, <2>4 DEF AddedIsFinite, Answered, Possible
    <3>3. ~(request[r].call # NoCall /\ (Asks(r, "update") \/ Asks(r, "remove")))
      BY <2>3, <2>5 DEF OnlyAdds
    <3>4. CASE items' = items /\ Loosens(request[r], request'[r])
      <4>1. lowNext <= low /\ high <= highNext
        BY <1>0, <2>1, <2>2, <3>4, OthersLoosen
      <4>2. qtyNext = qty
        BY <1>2, <3>4
      <4>. HIDE DEF low, high, lowNext, highNext, qty, qtyNext
      <4>3. qtyNext \in lowNext..highNext
        BY <3>1, <3>2, <4>1, <4>2
      <4>. QED  BY <4>3 DEF lowNext, highNext, qtyNext
    <3>5. CASE Puts(r)
      <4>1. PICK d \in Carts, w \in Variants, q \in 1..MaxLineQty :
              /\ d = request[r].cart /\ w = request[r].call.variant /\ q = request[r].call.qty
              /\ LineQty(d, w)' = LineQty(d, w) + q
              /\ \A e \in Carts, x \in Variants :
                   ~(e = d /\ x = w) => LineQty(e, x)' = LineQty(e, x)
        BY <1>0, <3>5, AddEdits
      <4>. DEFINE more == IF c = request[r].cart /\ v = request[r].call.variant THEN q ELSE 0
      <4>2. lowNext = low + more
        BY <1>0, <3>5, <4>1, AddCounts
      <4>3. highNext = high + more
        BY <1>0, <3>5, <4>1, AddCounts
      <4>4. more \in Nat
        BY <1>0
      <4>5. qtyNext = qty + more
        <5>1. CASE c = d /\ v = w
          BY <4>1, <5>1
        <5>2. CASE ~(c = d /\ v = w)
          <6>1. qtyNext = qty /\ more = 0
            BY <4>1, <5>2
          <6>. HIDE DEF qty, qtyNext, more
          <6>. QED  BY <3>1, <3>2, <6>1
        <5>. QED  BY <5>1, <5>2
      <4>. HIDE DEF low, high, lowNext, highNext, qty, qtyNext, more
      <4>6. qtyNext \in lowNext..highNext
        BY <3>1, <3>2, <4>2, <4>3, <4>4, <4>5
      <4>. QED  BY <4>6 DEF lowNext, highNext, qtyNext
    <3>. QED  BY <2>1, <3>3, <3>4, <3>5
  <2>. QED  BY <2>2, <2>5 DEF Between
<1>4. ASSUME items' = items,
             \A s \in Requests : /\ request'[s].at = request[s].at /\ request'[s].call = request[s].call
                                 /\ request'[s].cart = request[s].cart
      PROVE  FewAsked' /\ (OnlyAdds' => Between')
  <2>1. Asked' = Asked
    BY <1>4 DEF Asked
  <2>2. \A c \in Carts, v \in Variants, steps \in {Answered, Possible} :
          Added(c, v, steps)' = Added(c, v, steps)
    BY <1>4 DEF Added, Counted
  <2>3. OnlyAdds' => OnlyAdds
    BY <1>4 DEF OnlyAdds, Asks
  <2>4. FewAsked'
    BY <1>0, <1>4, <2>1 DEF FewAsked
  <2>. QED  BY <1>0, <1>2, <1>4, <2>2, <2>3, <2>4 DEF Between
<1>5. ASSUME NEW r \in Requests, Receive(r)
      PROVE  FewAsked' /\ (OnlyAdds' => Between')
  <2>1. items' = items /\ request' = [request EXCEPT ![r].setCookie = NoCart]
    BY <1>5 DEF Receive
  <2>2. \A s \in Requests : /\ request'[s].at = request[s].at /\ request'[s].call = request[s].call
                            /\ request'[s].cart = request[s].cart
    BY <1>0, <2>1 DEF RequestRow
  <2>. QED  BY <1>4, <2>1, <2>2
<1>6. ASSUME UNCHANGED <<items, request>>
      PROVE  FewAsked' /\ (OnlyAdds' => Between')
  BY <1>4, <1>6
<1>. QED  BY <1>3, <1>5, <1>6 DEF CartServiceNext, ChangeToken, ConvertCart, cartServiceVars

(* As long as nobody asks for an update or a removal, a line holds what was
   added to it, however the requests that add overlap: an add that was
   answered counts once, and one that failed may count (cart.sql:32). *)
THEOREM AddsAddUp == CartServiceSpec => []AddsAccumulate
<1>1. CartServiceInit => AddsInv
  <2>. SUFFICES ASSUME CartServiceInit PROVE AddsInv
    OBVIOUS
  <2>1. Asked = {}
    BY DEF CartServiceInit, Asked, NoRequest
  <2>2. FewAsked
    BY <2>1, FS_EmptySet DEF CartServiceInit, FewAsked, NoRequest
  <2>3. \A c \in Carts, v \in Variants : LineQty(c, v) = 0
    BY DEF CartServiceInit, LineQty, Line, Live
  <2>4. \A c, v, steps : Added(c, v, steps) = {}
    BY DEF CartServiceInit, Added, Counted, NoRequest
  <2>5. Cardinality({}) = 0
    BY FS_EmptySet
  <2>6. \A c \in Carts, v \in Variants :
          LineQty(c, v) \in Cardinality(Added(c, v, {"snapshot", "ok"}))
                           ..Cardinality(Added(c, v, {"snapshot", "ok", "error"}))
    <3>. SUFFICES ASSUME NEW c \in Carts, NEW v \in Variants
                  PROVE  LineQty(c, v) \in Cardinality(Added(c, v, {"snapshot", "ok"}))
                                          ..Cardinality(Added(c, v, {"snapshot", "ok", "error"}))
      OBVIOUS
    <3>1. /\ Cardinality(Added(c, v, {"snapshot", "ok"})) = 0
          /\ Cardinality(Added(c, v, {"snapshot", "ok", "error"})) = 0
      BY <2>4, <2>5
    <3>. QED  BY <2>3, <3>1
  <2>. QED  BY <2>2, <2>6 DEF AddsInv, AddsAccumulate
<1>2. CartInv /\ CartInv' /\ AddsInv /\ [CartServiceNext]_cartServiceVars => AddsInv'
  BY AddsInvStep
<1>3. AddsInv => AddsAccumulate
  BY DEF AddsInv
<1>. QED  BY <1>1, <1>2, <1>3, CartInvHolds, PTL DEF CartServiceSpec
=============================================================================
