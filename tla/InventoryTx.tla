---------------------------- MODULE InventoryTx ----------------------------
(***************************************************************************)
(* The transactions behind Inventory, statement by statement, as Postgres  *)
(* runs them under READ COMMITTED.                                         *)
(*                                                                         *)
(* The variables of Inventory are the committed rows.  A session computes  *)
(* the new images of the stock rows it updates when it locks them and      *)
(* installs them when it commits.  An UPDATE that does not match the       *)
(* committed row returns at once; one that matches waits while another     *)
(* session has changed the row, then looks again.  A row stays locked      *)
(* until the session that changed it ends.  Whether each transaction is    *)
(* the single step that Inventory says is a property of these rules.       *)
(***************************************************************************)
EXTENDS Inventory

CONSTANTS
  Sessions,  \* connections that serve checkouts, webhooks and cancellations
  Nowhere,   \* the variant of a transaction that is between two lines
  NoImage    \* a stock row the transaction has not updated

ASSUME SessionsAssumption ==
  /\ Sessions \cap Sweepers = {}
  /\ Nowhere \notin Variants \cup Orders
  /\ NoImage \notin [available : Int, reserved : Int]

VARIABLE tx   \* per session, the transaction it has open

txVars == <<inventoryVars, tx>>

Connections == Sessions \cup Sweepers
Op == {"idle", "reserve"} \cup Outcome
StockRow == [available : Int, reserved : Int]
Transaction ==
  [op : Op, order : Orders \cup {Nowhere}, todo : SUBSET Variants,
   at : Variants \cup {Nowhere}, marked : BOOLEAN, qty : Basket,
   image : [Variants -> StockRow \cup {NoImage}]]

Idle == [op |-> "idle", order |-> Nowhere, todo |-> {}, at |-> Nowhere,
         marked |-> FALSE, qty |-> Nothing, image |-> [v \in Variants |-> NoImage]]

Active(t) == tx[t].op # "idle"
Updated(t) == {v \in Variants : tx[t].image[v] # NoImage}

(* The row a session's next statement updates: the reservation of a line that
   is to be settled, then the stock of its variant. *)
ResRow(o, v) == <<"reservations", o, v>>
InvRow(v) == <<"inventory", v>>

Target(t) ==
  IF tx[t].op \in Outcome /\ ~tx[t].marked
    THEN ResRow(tx[t].order, tx[t].at) ELSE InvRow(tx[t].at)

(* Mutant: listing the reservations of an order takes a share lock on them. *)
LocksShared(t) ==
  {InvRow(v) : v \in Updated(t)}
  \cup (IF tx[t].op \in Outcome
          THEN {ResRow(tx[t].order, v) : v \in Updated(t) \cup tx[t].todo \cup {tx[t].at}}
          ELSE {})

(* The rows a session has changed, and so has locked. *)
Locks(t) ==
  {InvRow(v) : v \in Updated(t)}
  \cup (IF tx[t].op \in Outcome
          THEN {ResRow(tx[t].order, v) :
                  v \in Updated(t) \cup (IF tx[t].marked THEN {tx[t].at} ELSE {})}
          ELSE {})

BlockedBy(t, u) ==
  /\ u # t /\ Active(t) /\ tx[t].at # Nowhere
  /\ Target(t) \in Locks(u)

Free(t) == \A u \in Connections : ~BlockedBy(t, u)

(* The transaction goes to any line it has left: lines come in cart order, and
   the reservations of an order share their created_at. *)
NextLine(t, new) ==
  IF new.todo = {} THEN tx' = [tx EXCEPT ![t] = [new EXCEPT !.at = Nowhere]]
  ELSE \E v \in new.todo :
         tx' = [tx EXCEPT ![t] = [new EXCEPT !.at = v, !.todo = @ \ {v}]]

RollBack(t) == tx' = [tx EXCEPT ![t] = Idle]

----------------------------------------------------------------------------
(* reserveLines in the checkout transaction, and ReserveOne *)

BeginReserve(t, o, basket) ==
  /\ ~Active(t)
  /\ basket # Nothing
  /\ \A v \in Variants : reservation[<<o, v>>] = NoReservation
  /\ \A u \in Connections : tx[u].order # o
  /\ NextLine(t, [Idle EXCEPT !.op = "reserve", !.order = o, !.qty = basket,
                              !.todo = {v \in Variants : basket[v] > 0}])
  /\ UNCHANGED inventoryVars

(* Mutant: the counts are read, checked and written back without a lock. *)
ReserveLineUnlocked(t) ==
  LET v == tx[t].at
      q == tx[t].qty[v] IN
  /\ tx[t].op = "reserve" /\ v # Nowhere
  /\ available[v] >= q
  /\ NextLine(t, [tx[t] EXCEPT !.image[v] =
       [available |-> available[v] - q, reserved |-> reserved[v] + q]])
  /\ UNCHANGED inventoryVars

(* Mutant: the predicate of the UPDATE is dropped. *)
ReserveLineUnchecked(t) ==
  LET v == tx[t].at
      q == tx[t].qty[v] IN
  /\ tx[t].op = "reserve" /\ v # Nowhere
  /\ Free(t)
  /\ NextLine(t, [tx[t] EXCEPT !.image[v] =
       [available |-> available[v] - q, reserved |-> reserved[v] + q]])
  /\ UNCHANGED inventoryVars

(* TryReserveStock changes one row; the reservation and the journal row are
   inserts, which nobody waits for. *)
ReserveLine(t) ==
  LET v == tx[t].at
      q == tx[t].qty[v] IN
  /\ tx[t].op = "reserve" /\ v # Nowhere
  /\ Free(t)
  /\ available[v] >= q
  /\ NextLine(t, [tx[t] EXCEPT !.image[v] =
       [available |-> available[v] - q, reserved |-> reserved[v] + q]])
  /\ UNCHANGED inventoryVars

(* Mutant: the transaction of a failed reservation is never rolled back. *)
OutOfStockLeftOpen(t) ==
  /\ tx[t].op = "reserve" /\ tx[t].at # Nowhere
  /\ available[tx[t].at] < tx[t].qty[tx[t].at]
  /\ UNCHANGED txVars

(* Mutant: a line that is out of stock is left out of the order. *)
OutOfStockSkipped(t) ==
  /\ tx[t].op = "reserve" /\ tx[t].at # Nowhere
  /\ available[tx[t].at] < tx[t].qty[tx[t].at]
  /\ NextLine(t, tx[t])
  /\ UNCHANGED inventoryVars

(* TryReserveStock changes no row: ErrOutOfStock, the transaction is undone. *)
OutOfStock(t) ==
  /\ tx[t].op = "reserve" /\ tx[t].at # Nowhere
  /\ available[tx[t].at] < tx[t].qty[tx[t].at]
  /\ RollBack(t)
  /\ UNCHANGED inventoryVars

----------------------------------------------------------------------------
(* transitionReservations in a webhook's or a cancellation's transaction, and
   one row of ReleaseExpired *)

(* ListReservationsByOrder: the rows still held as of now. *)
BeginSettle(t, o, outcome) ==
  LET held == {v \in Variants : Held(<<o, v>>)} IN
  /\ t \in Sessions /\ ~Active(t)
  /\ held # {}
  /\ NextLine(t, [Idle EXCEPT !.op = outcome, !.order = o, !.todo = held])
  /\ UNCHANGED inventoryVars

BeginExpire(s, l) ==
  /\ ~Active(s)
  /\ l \in expiring[s]
  /\ NextLine(s, [Idle EXCEPT !.op = "expired", !.order = l[1], !.todo = {l[2]}])
  /\ UNCHANGED inventoryVars

(* Mutant: the row is updated by id alone. *)
MarkLineUnguarded(t) ==
  LET l == <<tx[t].order, tx[t].at>> IN
  /\ tx[t].op \in Outcome /\ tx[t].at # Nowhere /\ ~tx[t].marked
  /\ Free(t)
  /\ tx' = [tx EXCEPT ![t] = [@ EXCEPT !.marked = TRUE, !.qty[tx[t].at] = reservation[l].qty]]
  /\ UNCHANGED inventoryVars

(* GetReservation, then MarkReservation changes the row. *)
MarkLine(t) ==
  LET l == <<tx[t].order, tx[t].at>> IN
  /\ tx[t].op \in Outcome /\ tx[t].at # Nowhere /\ ~tx[t].marked
  /\ Held(l) /\ Free(t)
  /\ tx' = [tx EXCEPT ![t] = [@ EXCEPT !.marked = TRUE, !.qty[tx[t].at] = reservation[l].qty]]
  /\ UNCHANGED inventoryVars

(* MarkReservation changes no row: ErrReservationNotHeld, the line is left
   alone; a sweeper drops it from its list. *)
LineNotHeld(t) ==
  LET l == <<tx[t].order, tx[t].at>> IN
  /\ tx[t].op \in Outcome /\ tx[t].at # Nowhere /\ ~tx[t].marked
  /\ ~Held(l)
  /\ IF t \in Sweepers
       THEN RollBack(t) /\ expiring' = [expiring EXCEPT ![t] = @ \ {l}]
       ELSE NextLine(t, tx[t]) /\ UNCHANGED expiring
  /\ UNCHANGED <<stockVars, overdue>>

(* Mutant: the counts are read, checked and written back without a lock. *)
SettleStockUnlocked(t) ==
  LET v == tx[t].at
      q == tx[t].qty[v]
      back == IF tx[t].op = "committed" THEN 0 ELSE q IN
  /\ tx[t].marked
  /\ reserved[v] >= q
  /\ NextLine(t, [tx[t] EXCEPT !.marked = FALSE, !.image[v] =
       [available |-> available[v] + back, reserved |-> reserved[v] - q]])
  /\ UNCHANGED inventoryVars

(* CommitReservedStock or ReleaseReservedStock. *)
SettleStock(t) ==
  LET v == tx[t].at
      q == tx[t].qty[v]
      back == IF tx[t].op = "committed" THEN 0 ELSE q IN
  /\ tx[t].marked
  /\ Free(t)
  /\ reserved[v] >= q
  /\ NextLine(t, [tx[t] EXCEPT !.marked = FALSE, !.image[v] =
       [available |-> available[v] + back, reserved |-> reserved[v] - q]])
  /\ UNCHANGED inventoryVars

----------------------------------------------------------------------------
(* The end of a transaction *)

(* Mutant: a commit's journal row takes the units from available once more. *)
PostingAvailableTwice(op, vs, out) ==
  \/ op = "reserve" /\ InsertLedger(vs, Negated(out), out)
  \/ op = "committed" /\ InsertLedger(vs, Negated(out), Negated(out))
  \/ op \in {"released", "expired"} /\ InsertLedger(vs, out, Negated(out))

(* The journal rows that the engine writes for each kind of transaction. *)
Post(op, vs, out) ==
  \/ op = "reserve" /\ InsertLedger(vs, Negated(out), out)
  \/ op = "committed" /\ InsertLedger(vs, Nothing, Negated(out))
  \/ op \in {"released", "expired"} /\ InsertLedger(vs, out, Negated(out))

(* COMMIT installs the images and the inserted rows. *)
CommitTx(t) ==
  LET vs == Updated(t)
      out == [v \in Variants |-> IF v \in vs THEN tx[t].qty[v] ELSE 0]
      status == IF tx[t].op = "reserve" THEN "held" ELSE tx[t].op IN
  /\ Active(t) /\ tx[t].at = Nowhere
  /\ available' = [v \in Variants |->
       IF v \in vs THEN tx[t].image[v].available ELSE available[v]]
  /\ reserved' = [v \in Variants |->
       IF v \in vs THEN tx[t].image[v].reserved ELSE reserved[v]]
  /\ reservation' = [l \in Lines |->
       IF l[1] = tx[t].order /\ l[2] \in vs
         THEN [qty |-> tx[t].qty[l[2]], status |-> status] ELSE reservation[l]]
  /\ Post(tx[t].op, vs, out)
  /\ expiring' = IF t \in Sweepers
       THEN [expiring EXCEPT ![t] = @ \ {<<tx[t].order, v>> : v \in vs}] ELSE expiring
  /\ RollBack(t)
  /\ UNCHANGED overdue

(* An error or a lost connection; a sweeper then gives up its list. *)
Abort(t) ==
  /\ Active(t)
  /\ RollBack(t)
  /\ expiring' = IF t \in Sweepers THEN [expiring EXCEPT ![t] = {}] ELSE expiring
  /\ UNCHANGED <<stockVars, overdue>>

(* Sessions that wait for each other in a circle. *)
Deadlocked(S) == S # {} /\ \A t \in S : \E u \in S : BlockedBy(t, u)

(* Postgres breaks a circle by failing one of its transactions. *)
DeadlockVictim(t) ==
  /\ \E S \in SUBSET Connections : t \in S /\ Deadlocked(S)
  /\ Abort(t)

Step(t) ==
  \/ ReserveLine(t) \/ OutOfStock(t)
  \/ MarkLine(t) \/ LineNotHeld(t) \/ SettleStock(t)
  \/ CommitTx(t) \/ DeadlockVictim(t)

----------------------------------------------------------------------------
TxInit == Init /\ tx = [t \in Connections |-> Idle]

TxNext ==
  \/ \E t \in Sessions, o \in Orders, basket \in Basket : BeginReserve(t, o, basket)
  \/ \E t \in Sessions, o \in Orders, outcome \in {"committed", "released"} :
       BeginSettle(t, o, outcome)
  \/ \E s \in Sweepers, l \in Lines : BeginExpire(s, l)
  \/ \E s \in Sweepers : ~Active(s) /\ ListExpired(s) /\ UNCHANGED tx
  \/ \E l \in Lines : DeadlinePasses(l) /\ UNCHANGED tx
  \/ \E t \in Connections : Step(t) \/ Abort(t)

TxSpec == TxInit /\ [][TxNext]_txVars

(* A connection goes on with its transaction whenever it can.  The fairness is
   strong because Postgres queues the sessions that wait for a row: one that
   is waiting gets its turn, whoever else keeps asking for the row. *)
FairTxSpec == TxSpec /\ \A t \in Connections : SF_txVars(Step(t))

----------------------------------------------------------------------------
(* Properties *)

TxTypeOK ==
  /\ TypeOK
  /\ tx \in [Connections -> Transaction]

(* An order is reserved line by line, and when its transaction is over every
   line of the basket is held, or none is there, whichever line was out of
   stock and whatever other transactions did in between (checkout/service.go:
   reserveLines). *)
AllOrNothing ==
  [][\A t \in Connections :
       tx[t].op = "reserve" /\ tx'[t] = Idle =>
         LET o == tx[t].order
             basket == tx[t].qty IN
         \/ \A v \in Variants : reservation'[<<o, v>>] = NoReservation
         \/ \A v \in Variants :
              reservation'[<<o, v>>] =
                IF basket[v] > 0 THEN [qty |-> basket[v], status |-> "held"]
                                 ELSE NoReservation]_txVars

(* A circle of waiting transactions needs one with several lines: orders of
   one line and the row-by-row sweeper never deadlock among themselves
   (service.go:77-102 gives every expired row a transaction of its own). *)
DeadlockNeedsTwoLines ==
  \A S \in SUBSET Connections :
    Deadlocked(S) =>
      \E t \in S : Cardinality(Updated(t) \cup tx[t].todo \cup {tx[t].at}) > 1

(* Every transaction ends, in spite of the rows it waits for. *)
TransactionsEnd == \A t \in Connections : Active(t) ~> ~Active(t)
=============================================================================
