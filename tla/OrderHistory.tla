---------------------------- MODULE OrderHistory ----------------------------
(***************************************************************************)
(* GET /orders and GET /orders/:id (internal/order) while checkout places  *)
(* orders and webhooks settle them.  The handlers open no transaction:     *)
(* each of their two queries sees what is committed by then.  An order     *)
(* becomes visible when its transaction commits, with all its items, but   *)
(* its created_at is when the transaction began, so orders do not appear   *)
(* in the order in which they are listed.                                  *)
(***************************************************************************)
EXTENDS Paging, FiniteSets

CONSTANTS
  Placed,                   \* order ids
  Buyer,                    \* the user of each order
  Items,                    \* the items of each order
  Viewers, Viewer,          \* clients that read the history, and their users
  Limits,                   \* the limits they may ask for
  NoOrder

ASSUME HistoryAssumption ==
  /\ IsFiniteSet(Placed) /\ NoOrder \notin Placed
  /\ Limits \subseteq Nat

VARIABLES
  orders,  \* per order, its status and its created_at, 0 before it has one
  viewing, \* where the reading of the list stands, per client
  detail   \* where the reading of one order stands, per client

historyVars == <<orders, viewing, detail>>

(* Which way an order was settled makes no difference here. *)
Visible == {o \in Placed : orders[o].status \in {"pending", "settled"}}
OrdersOf(u) == {o \in Visible : Buyer[o] = u}

----------------------------------------------------------------------------
(* The queries *)

CountOrdersByUser(u) == Cardinality(OrdersOf(u))

(* ORDER BY created_at DESC: where the order stands among its user's. *)
Position(o, u) ==
  1 + Cardinality({p \in OrdersOf(u) : orders[p].created > orders[o].created})

(* ListOrdersByUser: LIMIT and OFFSET pick their positions. *)
ListOrdersByUser(u, limit, offset) ==
  {o \in OrdersOf(u) : Position(o, u) \in Window(CountOrdersByUser(u), limit, offset)}

(* Mutant: the order is looked up by id alone. *)
GetOrderOfAnybody(o, u) == o \in Visible

GetOrderForUser(o, u) == o \in OrdersOf(u)

ListOrderItems(o) == IF o \in Visible THEN Items[o] ELSE {}

----------------------------------------------------------------------------
(* The handlers *)

(* List reads a page, with the limit the service clamps the client's to ... *)
ListOrders(c) ==
  /\ viewing[c].at = "list"
  /\ viewing' = [viewing EXCEPT ![c] =
       [@ EXCEPT !.at = "count",
                 !.rows = ListOrdersByUser(Viewer[c], ClampLimit(viewing[c].limit),
                                           Offset(viewing[c].page, viewing[c].limit))]]
  /\ UNCHANGED <<orders, detail>>

(* ... and then counts; page and limit go back as the client gave them. *)
CountOrders(c) ==
  /\ viewing[c].at = "count"
  /\ viewing' = [viewing EXCEPT ![c] =
       [@ EXCEPT !.at = "shown", !.total = CountOrdersByUser(Viewer[c]),
                 !.seen = viewing[c].seen \cup viewing[c].rows]]
  /\ UNCHANGED <<orders, detail>>

(* Mutants: the service counts before it lists. *)
CountOrdersFirst(c) ==
  /\ viewing[c].at = "list"
  /\ viewing' = [viewing EXCEPT ![c] =
       [@ EXCEPT !.at = "count", !.total = CountOrdersByUser(Viewer[c])]]
  /\ UNCHANGED <<orders, detail>>

ListOrdersLast(c) ==
  LET rows == ListOrdersByUser(Viewer[c], ClampLimit(viewing[c].limit),
                               Offset(viewing[c].page, viewing[c].limit)) IN
  /\ viewing[c].at = "count"
  /\ viewing' = [viewing EXCEPT ![c] =
       [@ EXCEPT !.at = "shown", !.rows = rows, !.seen = @ \cup rows]]
  /\ UNCHANGED <<orders, detail>>

ListPageCountingFirst(c) == CountOrdersFirst(c) \/ ListOrdersLast(c)

ListPageOfOrders(c) == ListOrders(c) \/ CountOrders(c)

(* Mutant: the items are listed before the order is looked up. *)
GetItemsFirst(c, o) ==
  \/ /\ detail[c].at = "idle"
     /\ detail' = [detail EXCEPT ![c] = [at |-> "items", order |-> o, items |-> ListOrderItems(o)]]
     /\ UNCHANGED <<orders, viewing>>
  \/ /\ detail[c].at = "items" /\ detail[c].order = o
     /\ detail' = [detail EXCEPT ![c].at =
          IF GetOrderForUser(o, Viewer[c]) THEN "ok" ELSE "notFound"]
     /\ UNCHANGED <<orders, viewing>>

(* Get: the order, if it is the caller's, and then its items. *)
Get(c, o) ==
  \/ /\ detail[c].at = "idle"
     /\ detail' = [detail EXCEPT ![c] =
          [at |-> IF GetOrderForUser(o, Viewer[c]) THEN "items" ELSE "notFound",
           order |-> o, items |-> {}]]
     /\ UNCHANGED <<orders, viewing>>
  \/ /\ detail[c].at = "items" /\ detail[c].order = o
     /\ detail' = [detail EXCEPT ![c] = [@ EXCEPT !.at = "ok", !.items = ListOrderItems(o)]]
     /\ UNCHANGED <<orders, viewing>>

(* An error of either query. *)
ListFails(c) ==
  /\ viewing[c].at \in {"list", "count"}
  /\ viewing' = [viewing EXCEPT ![c].at = "failed"]
  /\ UNCHANGED <<orders, detail>>

GetFails(c) ==
  /\ detail[c].at = "items"
  /\ detail' = [detail EXCEPT ![c].at = "failed"]
  /\ UNCHANGED <<orders, viewing>>

----------------------------------------------------------------------------
(* The client *)

(* The page of the orders is opened; parseIntDefault reads the parameters. *)
OpenHistory(c, limit) ==
  /\ viewing[c].at = "start"
  /\ viewing' = [viewing EXCEPT ![c] =
       [@ EXCEPT !.at = "list", !.limit = IF limit < 1 THEN DefaultLimit ELSE limit,
                 !.owed = OrdersOf(Viewer[c])]]
  /\ UNCHANGED <<orders, detail>>

TurnHistoryPage(c) ==
  /\ viewing[c].at = "shown"
  /\ viewing' = [viewing EXCEPT ![c] =
       IF HasNext(viewing[c].page, viewing[c].limit, viewing[c].total)
         THEN [@ EXCEPT !.at = "list", !.page = viewing[c].page + 1] ELSE [@ EXCEPT !.at = "done"]]
  /\ UNCHANGED <<orders, detail>>

(* Back to the orders: another order can be opened. *)
CloseDetail(c) ==
  /\ detail[c].at \in {"ok", "notFound", "failed"}
  /\ detail' = [detail EXCEPT ![c] = [at |-> "idle", order |-> NoOrder, items |-> {}]]
  /\ UNCHANGED <<orders, viewing>>

----------------------------------------------------------------------------
(* The writers, as Checkout has them *)

(* The checkout transaction begins: created_at is its now(). *)
BeginOrder(o) ==
  /\ orders[o].status = "none"
  /\ orders' = [orders EXCEPT ![o] =
       [status |-> "open", created |-> 1 + Cardinality({p \in Placed : orders[p].created > 0})]]
  /\ UNCHANGED <<viewing, detail>>

EndOrder(o) ==
  /\ orders[o].status = "open"
  /\ \E status \in {"pending", "undone"} : orders' = [orders EXCEPT ![o].status = status]
  /\ UNCHANGED <<viewing, detail>>

SettleOrder(o) ==
  /\ orders[o].status = "pending"
  /\ orders' = [orders EXCEPT ![o].status = "settled"]
  /\ UNCHANGED <<viewing, detail>>

----------------------------------------------------------------------------
HistoryInit ==
  /\ orders = [o \in Placed |-> [status |-> "none", created |-> 0]]
  /\ viewing = [c \in Viewers |->
       [at |-> "start", page |-> 1, limit |-> 0, rows |-> {}, total |-> 0,
        seen |-> {}, owed |-> {}]]
  /\ detail = [c \in Viewers |-> [at |-> "idle", order |-> NoOrder, items |-> {}]]

ListNext ==
  \E c \in Viewers :
    \/ \E limit \in Limits : OpenHistory(c, limit)
    \/ ListPageOfOrders(c) \/ TurnHistoryPage(c) \/ ListFails(c)

DetailNext ==
  \E c \in Viewers : (\E o \in Placed : Get(c, o)) \/ GetFails(c) \/ CloseDetail(c)

WriterNext == \E o \in Placed : BeginOrder(o) \/ EndOrder(o) \/ SettleOrder(o)

HistoryNext == ListNext \/ DetailNext \/ WriterNext

HistorySpec == HistoryInit /\ [][HistoryNext]_historyVars

----------------------------------------------------------------------------
(* Properties *)

HistoryTypeOK ==
  /\ orders \in [Placed -> [status : {"none", "open", "undone", "pending", "settled"},
                            created : 0..Cardinality(Placed)]]
  /\ \A c \in Viewers :
       /\ viewing[c].at \in {"start", "list", "count", "shown", "failed", "done"}
       /\ viewing[c].page \in Nat \ {0} /\ viewing[c].limit \in Nat /\ viewing[c].total \in Nat
       /\ viewing[c].rows \cup viewing[c].seen \cup viewing[c].owed \subseteq Placed
       /\ detail[c].at \in {"idle", "items", "ok", "notFound", "failed"}
       /\ detail[c].order \in Placed \cup {NoOrder}

(* Page and total are two queries (service.go:51-59), but the total covers the
   page: the client is never shown rows beyond the last page it can turn to. *)
TotalCoversPage ==
  \A c \in Viewers :
    viewing[c].at = "shown" /\ viewing[c].rows # {} =>
      Offset(viewing[c].page, viewing[c].limit) + Cardinality(viewing[c].rows)
        <= viewing[c].total

(* Reading page after page misses no order that was there at the start,
   although orders are inserted meanwhile, also between those already shown.
   The client may not ask for more than MaxLimit: the answer repeats its limit
   unclamped (handler.go:45), and pages would be skipped. *)
WalkMissesNothing ==
  \A c \in Viewers :
    viewing[c].at = "done" /\ viewing[c].limit <= MaxLimit => viewing[c].owed \subseteq viewing[c].seen

(* The detail of an order goes to its buyer only and never without its items:
   the order is found in one query and its items in the next. *)
DetailIsWhole ==
  \A c \in Viewers :
    detail[c].at = "ok" =>
      Buyer[detail[c].order] = Viewer[c] /\ detail[c].items = Items[detail[c].order]
=============================================================================
