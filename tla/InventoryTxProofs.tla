------------------------- MODULE InventoryTxProofs -------------------------
(***************************************************************************)
(* Why the statements of concurrent transactions add up to the one-step    *)
(* transactions of Inventory.  A session computes the new image of a stock *)
(* row when it updates it and installs it when it commits; in between the  *)
(* committed row must stay as it was.  The invariant says so: an image is  *)
(* what the committed row becomes, because no other session has changed    *)
(* the row, and a row that a settlement has marked is still held.          *)
(***************************************************************************)
EXTENDS InventoryTx, InventoryProofs

(* Of one transaction x: the stock rows it has updated, the lines whose
   reservation row it has marked, and the lines still before it. *)
UpdatedBy(x) == {v \in Variants : x.image[v] # NoImage}
MarkedBy(x) == UpdatedBy(x) \cup (IF x.marked THEN {x.at} ELSE {})
AheadOf(x) == x.todo \cup ({x.at} \ {Nowhere})

(* The order in which a transaction goes through its lines. *)
Shape(x) ==
  /\ x.op = "idle" => x = Idle
  /\ x.op # "idle" => x.order \in Orders
  /\ x.marked => x.op \in Outcome /\ x.at # Nowhere
  /\ x.at = Nowhere => x.todo = {}
  /\ x.at \notin x.todo
  /\ AheadOf(x) \cap UpdatedBy(x) = {}
  /\ x.op = "reserve" => /\ x.qty # Nothing
                         /\ {v \in Variants : x.qty[v] > 0} = UpdatedBy(x) \cup AheadOf(x)

(* A reservation makes rows that are not there yet, and its images follow
   from the committed counts. *)
Reserving(x) ==
  /\ \A v \in Variants : reservation[<<x.order, v>>] = NoReservation
  /\ \A v \in UpdatedBy(x) :
       /\ available[v] >= x.qty[v]
       /\ x.image[v] = [available |-> available[v] - x.qty[v],
                        reserved |-> reserved[v] + x.qty[v]]

(* A settlement has marked rows that are still held, with the quantities that
   are committed, and its images follow from the committed counts. *)
Settling(x) ==
  /\ \A v \in MarkedBy(x) : /\ Held(<<x.order, v>>)
                            /\ x.qty[v] = reservation[<<x.order, v>>].qty
  /\ \A v \in UpdatedBy(x) :
       /\ reserved[v] >= x.qty[v]
       /\ x.image[v] = [available |-> available[v] +
                                      (IF x.op = "committed" THEN 0 ELSE x.qty[v]),
                        reserved |-> reserved[v] - x.qty[v]]

Sound(x) ==
  /\ x.op = "reserve" => Reserving(x)
  /\ x.op \in Outcome => Settling(x)

(* What connection t may do: a sweeper settles one row of its list at a time. *)
Role(t, x) ==
  /\ t \in Sessions => x.op # "expired"
  /\ t \in Sweepers /\ x.op # "idle" =>
       /\ x.op = "expired"
       /\ \E l \in expiring[t] : /\ x.order = l[1]
                                 /\ UpdatedBy(x) \cup AheadOf(x) = {l[2]}

(* Two transactions have changed no row in common, and nobody else works on
   an order that is being reserved. *)
Apart(x, y) ==
  /\ UpdatedBy(x) \cap UpdatedBy(y) = {}
  /\ x.op \in Outcome /\ y.op \in Outcome /\ x.order = y.order
       => MarkedBy(x) \cap MarkedBy(y) = {}
  /\ "reserve" \in {x.op, y.op} => x.order # y.order

(* A listed reservation exists. *)
ListedExist == \A s \in Sweepers : \A l \in expiring[s] : reservation[l].status # "none"

TxInv ==
  /\ TxTypeOK
  /\ \A t \in Connections : Shape(tx[t]) /\ Sound(tx[t]) /\ Role(t, tx[t])
  /\ \A t, u \in Connections : t # u => Apart(tx[t], tx[u])
  /\ ListedExist

----------------------------------------------------------------------------
(* Transactions that go on, and transactions that are gone *)

LEMMA IdleFacts ==
  /\ Idle \in Transaction
  /\ Idle.op = "idle" /\ Idle.order = Nowhere /\ Idle.at = Nowhere
  /\ ~Idle.marked /\ Idle.todo = {}
  /\ UpdatedBy(Idle) = {} /\ AheadOf(Idle) = {} /\ MarkedBy(Idle) = {}
<1>1. Nothing \in Basket
  BY ConstantsAssumption DEF Nothing, Basket
<1>. QED  BY <1>1 DEF Idle, Transaction, Op, UpdatedBy, AheadOf, MarkedBy

LEMMA IdleIsFine ==
  ASSUME NEW t \in Connections, NEW x \in Transaction, x.op = "idle" => x = Idle,
         x.op # "idle" => x.order \in Orders
  PROVE  /\ Shape(Idle) /\ Sound(Idle) /\ Role(t, Idle)
         /\ Apart(Idle, x) /\ Apart(x, Idle)
BY IdleFacts, SessionsAssumption
   DEF Shape, Sound, Role, Apart, Outcome

LEMMA ApartSymmetric ==
  ASSUME NEW x, NEW y, Apart(x, y)
  PROVE  Apart(y, x)
BY DEF Apart

(* The part of the invariant that a transaction x of connection t stands for. *)
Fine(t, x) == Shape(x) /\ Sound(x) /\ Role(t, x)

LEMMA TxInvParts ==
  TxInv <=> /\ TypeOK
            /\ tx \in [Connections -> Transaction]
            /\ \A t \in Connections : Fine(t, tx[t])
            /\ \A t, u \in Connections : t # u => Apart(tx[t], tx[u])
            /\ ListedExist
BY DEF TxInv, TxTypeOK, Fine

(* One connection's transaction becomes row, the committed rows stay. *)
LEMMA RowReplaced ==
  ASSUME TxInv, UNCHANGED inventoryVars, NEW t \in Connections,
         NEW row \in Transaction, tx' = [tx EXCEPT ![t] = row],
         Fine(t, row),
         \A u \in Connections : u # t => Apart(row, tx[u])
  PROVE  TxInv'
<1>1. TypeOK' /\ ListedExist'
  BY DEF TxInv, TxTypeOK, TypeOK, ListedExist, inventoryVars
<1>2. /\ tx' \in [Connections -> Transaction]
      /\ tx'[t] = row
      /\ \A u \in Connections : u # t => tx'[u] = tx[u]
  BY TxInvParts
<1>3. ASSUME NEW u \in Connections, NEW x, tx'[u] = x, Fine(u, x)
      PROVE  (Shape(tx[u]) /\ Sound(tx[u]) /\ Role(u, tx[u]))'
  BY <1>3 DEF Fine, Shape, Sound, Reserving, Settling, Held, Role, inventoryVars,
              UpdatedBy, MarkedBy, AheadOf
<1>4. (\A u \in Connections : Shape(tx[u]) /\ Sound(tx[u]) /\ Role(u, tx[u]))'
  BY <1>2, <1>3, TxInvParts
<1>5. \A u, w \in Connections : u # w => Apart(tx'[u], tx'[w])
  BY <1>2, TxInvParts, ApartSymmetric
<1>6. (\A u, w \in Connections : u # w => Apart(tx[u], tx[w]))'
  BY <1>5 DEF Apart, UpdatedBy, MarkedBy
<1>. QED  BY <1>1, <1>2, <1>4, <1>6 DEF TxInv, TxTypeOK

(* One connection's transaction is over, and what it has done to the committed
   rows leaves the other transactions sound. *)
LEMMA TransactionOver ==
  ASSUME TxInv, TypeOK', NEW t \in Connections, RollBack(t),
         \A s \in Sweepers : /\ expiring'[s] \subseteq expiring[s]
                             /\ s # t => expiring'[s] = expiring[s],
         \A l \in Lines : reservation'[l].status = "none" => reservation[l].status = "none",
         \A u \in Connections : u # t => Sound(tx[u])'
  PROVE  TxInv'
<1>1. /\ tx' \in [Connections -> Transaction]
      /\ tx'[t] = Idle
      /\ \A u \in Connections : u # t => tx'[u] = tx[u]
  BY TxInvParts, IdleFacts DEF RollBack
<1>2. \A u \in Connections : Shape(tx[u]) /\ Role(u, tx[u])
  BY DEF TxInv
<1>3. Shape(tx[t])' /\ Sound(tx[t])' /\ Role(t, tx[t])'
  BY <1>1, IdleFacts
     DEF Shape, Sound, Role, Outcome, UpdatedBy, AheadOf
<1>4. ASSUME NEW u \in Connections, u # t
      PROVE  Shape(tx[u])' /\ Role(u, tx[u])'
  BY <1>1, <1>2, <1>4 DEF Shape, Role, UpdatedBy, AheadOf
<1>5. ASSUME NEW u \in Connections, u # t
      PROVE  Apart(Idle, tx[u]) /\ Apart(tx[u], Idle)
  BY <1>2, <1>5, TxInvParts, IdleIsFine DEF Shape
<1>6. \A u, w \in Connections : u # w => Apart(tx'[u], tx'[w])
  BY <1>1, <1>5, TxInvParts
<1>7. (\A u, w \in Connections : u # w => Apart(tx[u], tx[w]))'
  BY <1>6 DEF Apart, UpdatedBy, MarkedBy
<1>8. ListedExist'
  BY DEF ListedExist, TxInv, TxTypeOK, TypeOK
<1>. QED  BY <1>1, <1>3, <1>4, <1>7, <1>8 DEF TxInv, TxTypeOK

(* NextLine only chooses the line that comes next. *)
LEMMA NextLineRow ==
  ASSUME NEW t \in Connections, NEW new \in Transaction, NextLine(t, new)
  PROVE  \E row \in Transaction :
           /\ tx' = [tx EXCEPT ![t] = row]
           /\ row.op = new.op /\ row.order = new.order
           /\ row.marked = new.marked
           /\ row.qty = new.qty /\ row.image = new.image
           /\ AheadOf(row) = new.todo
           /\ row.at = Nowhere => row.todo = {}
           /\ row.at \notin row.todo
<1>1. CASE new.todo = {}
  <2>. DEFINE row == [new EXCEPT !.at = Nowhere]
  <2>1. /\ row \in Transaction /\ row.at = Nowhere /\ row.todo = {}
        /\ row.op = new.op /\ row.order = new.order
        /\ row.marked = new.marked
        /\ row.qty = new.qty /\ row.image = new.image
    BY <1>1 DEF Transaction
  <2>2. tx' = [tx EXCEPT ![t] = row]
    BY <1>1 DEF NextLine
  <2>. HIDE DEF row
  <2>. QED  BY <1>1, <2>1, <2>2 DEF AheadOf
<1>2. CASE new.todo # {}
  <2>1. PICK v \in new.todo :
          tx' = [tx EXCEPT ![t] = [new EXCEPT !.at = v, !.todo = @ \ {v}]]
    BY <1>2 DEF NextLine
  <2>2. v \in Variants
    BY DEF Transaction
  <2>. DEFINE row == [new EXCEPT !.at = v, !.todo = @ \ {v}]
  <2>3. /\ row \in Transaction /\ row.at = v /\ row.todo = new.todo \ {v}
        /\ row.op = new.op /\ row.order = new.order
        /\ row.marked = new.marked
        /\ row.qty = new.qty /\ row.image = new.image
    BY <2>2 DEF Transaction
  <2>4. tx' = [tx EXCEPT ![t] = row]
    BY <2>1
  <2>. HIDE DEF row
  <2>. QED  BY <2>2, <2>3, <2>4, SessionsAssumption DEF AheadOf
<1>. QED  BY <1>1, <1>2

(* A transaction that begins, or has dealt with a line, goes to another. *)
LEMMA TransactionGoesOn ==
  ASSUME TxInv, UNCHANGED inventoryVars, NEW t \in Connections,
         NEW new \in Transaction, NextLine(t, new),
         new.op # "idle", new.order \in Orders, ~new.marked,
         new.todo \cap UpdatedBy(new) = {},
         new.op = "reserve" =>
           /\ new.qty # Nothing
           /\ {v \in Variants : new.qty[v] > 0} = UpdatedBy(new) \cup new.todo,
         Sound(new),
         t \in Sessions => new.op # "expired",
         t \in Sweepers =>
           /\ new.op = "expired"
           /\ \E l \in expiring[t] : /\ new.order = l[1]
                                     /\ UpdatedBy(new) \cup new.todo = {l[2]},
         \A u \in Connections : u # t => Apart(new, tx[u])
  PROVE  TxInv'
<1>1. PICK row \in Transaction :
        /\ tx' = [tx EXCEPT ![t] = row]
        /\ row.op = new.op /\ row.order = new.order
        /\ row.marked = new.marked
        /\ row.qty = new.qty /\ row.image = new.image
        /\ AheadOf(row) = new.todo
        /\ row.at = Nowhere => row.todo = {}
        /\ row.at \notin row.todo
  BY NextLineRow
<1>2. UpdatedBy(row) = UpdatedBy(new) /\ MarkedBy(row) = MarkedBy(new)
  BY <1>1 DEF UpdatedBy, MarkedBy
<1>3. Shape(row)
  BY <1>1, <1>2 DEF Shape
<1>4. Sound(row)
  BY <1>1, <1>2 DEF Sound, Reserving, Settling
<1>5. Role(t, row)
  BY <1>1, <1>2 DEF Role
<1>6. \A u \in Connections : u # t => Apart(row, tx[u])
  BY <1>1, <1>2 DEF Apart
<1>. QED  BY <1>1, <1>3, <1>4, <1>5, <1>6, RowReplaced DEF Fine

----------------------------------------------------------------------------
(* The steps *)

(* A transaction that has updated nothing stays apart from one that reserves
   another order, and from any that settles. *)
LEMMA FreshIsApart ==
  ASSUME TxInv, NEW x, UpdatedBy(x) = {}, ~x.marked, x.op # "reserve",
         NEW v \in Variants, reservation[<<x.order, v>>].status # "none",
         NEW u \in Connections
  PROVE  Apart(x, tx[u])
<1>1. tx[u].op = "reserve" => reservation[<<tx[u].order, v>>] = NoReservation
  BY DEF TxInv, Sound, Reserving
<1>2. tx[u].op = "reserve" => tx[u].order # x.order
  BY <1>1 DEF NoReservation
<1>. QED  BY <1>2 DEF Apart, MarkedBy

LEMMA BeginReserveStep ==
  ASSUME TxInv, NEW t \in Sessions, NEW o \in Orders, NEW basket \in Basket,
         BeginReserve(t, o, basket)
  PROVE  TxInv'
<1>. DEFINE new == [Idle EXCEPT !.op = "reserve", !.order = o, !.qty = basket,
                                !.todo = {v \in Variants : basket[v] > 0}]
<1>1. /\ new \in Transaction
      /\ new.op = "reserve" /\ new.order = o /\ new.qty = basket
      /\ new.todo = {v \in Variants : basket[v] > 0}
      /\ ~new.marked /\ new.image = Idle.image
  BY IdleFacts DEF Transaction, Idle, Op
<1>2. NextLine(t, new) /\ UNCHANGED inventoryVars
  BY DEF BeginReserve
<1>. HIDE DEF new
<1>3. UpdatedBy(new) = {}
  BY <1>1, IdleFacts DEF UpdatedBy
<1>4. Sound(new)
  BY <1>1, <1>3 DEF BeginReserve, Sound, Reserving, Outcome
<1>5. \A u \in Connections : Apart(new, tx[u])
  BY <1>1, <1>3 DEF BeginReserve, Apart, Outcome
<1>6. t \in Connections /\ t \notin Sweepers
  BY SessionsAssumption DEF Connections
<1>. QED
  BY <1>1, <1>2, <1>3, <1>4, <1>5, <1>6, TransactionGoesOn DEF BeginReserve

LEMMA BeginSettleStep ==
  ASSUME TxInv, NEW t \in Sessions, NEW o \in Orders,
         NEW outcome \in {"committed", "released"}, BeginSettle(t, o, outcome)
  PROVE  TxInv'
<1>. DEFINE held == {v \in Variants : Held(<<o, v>>)}
            new == [Idle EXCEPT !.op = outcome, !.order = o, !.todo = held]
<1>1. /\ new \in Transaction
      /\ new.op = outcome /\ new.order = o /\ new.todo = held
      /\ ~new.marked /\ new.image = Idle.image
  BY IdleFacts DEF Transaction, Idle, Op, Outcome
<1>2. NextLine(t, new) /\ UNCHANGED inventoryVars
  BY DEF BeginSettle
<1>3. PICK v \in Variants : Held(<<o, v>>)
  BY DEF BeginSettle
<1>. HIDE DEF new
<1>4. UpdatedBy(new) = {} /\ MarkedBy(new) = {}
  BY <1>1, IdleFacts DEF UpdatedBy, MarkedBy
<1>5. Sound(new)
  BY <1>1, <1>4 DEF Sound, Settling
<1>6. \A u \in Connections : Apart(new, tx[u])
  BY <1>1, <1>3, <1>4, FreshIsApart DEF Held
<1>7. t \in Connections /\ t \notin Sweepers
  BY SessionsAssumption DEF Connections
<1>. QED
  BY <1>1, <1>2, <1>4, <1>5, <1>6, <1>7, TransactionGoesOn

LEMMA BeginExpireStep ==
  ASSUME TxInv, NEW s \in Sweepers, NEW l \in Lines, BeginExpire(s, l)
  PROVE  TxInv'
<1>. DEFINE new == [Idle EXCEPT !.op = "expired", !.order = l[1], !.todo = {l[2]}]
<1>1. l[1] \in Orders /\ l[2] \in Variants /\ l = <<l[1], l[2]>>
  BY DEF Lines
<1>2. /\ new \in Transaction
      /\ new.op = "expired" /\ new.order = l[1] /\ new.todo = {l[2]}
      /\ ~new.marked /\ new.image = Idle.image
  BY <1>1, IdleFacts DEF Transaction, Idle, Op, Outcome
<1>3. NextLine(s, new) /\ l \in expiring[s] /\ UNCHANGED inventoryVars
  BY DEF BeginExpire
<1>. HIDE DEF new
<1>4. UpdatedBy(new) = {} /\ MarkedBy(new) = {}
  BY <1>2, IdleFacts DEF UpdatedBy, MarkedBy
<1>5. Sound(new)
  BY <1>2, <1>4 DEF Sound, Settling
<1>6. \A u \in Connections : Apart(new, tx[u])
  BY <1>1, <1>2, <1>3, <1>4, FreshIsApart DEF TxInv, ListedExist
<1>7. s \in Connections /\ s \notin Sessions
  BY SessionsAssumption DEF Connections
<1>. QED
  BY <1>1, <1>2, <1>3, <1>4, <1>5, <1>6, <1>7, TransactionGoesOn

(* A session that is free to change the stock row of its line is the only one
   to change it, and the same for the reservation row. *)
LEMMA FreeStockRow ==
  ASSUME NEW t \in Connections, Active(t), tx[t].at # Nowhere, Free(t),
         tx[t].op \in Outcome => tx[t].marked,
         NEW u \in Connections, u # t, tx[t].at \in Variants
  PROVE  tx[t].at \notin UpdatedBy(tx[u])
BY DEF Free, BlockedBy, Target, Locks, Updated, UpdatedBy

LEMMA FreeReservationRow ==
  ASSUME NEW t \in Connections, tx[t].op \in Outcome, tx[t].at # Nowhere, Free(t),
         ~tx[t].marked, tx[t].at \in Variants,
         NEW u \in Connections, u # t,
         tx[u].op \in Outcome, tx[u].order = tx[t].order
  PROVE  tx[t].at \notin MarkedBy(tx[u])
BY DEF Free, BlockedBy, Target, Locks, Updated, UpdatedBy, MarkedBy, Active, Outcome

(* A transaction that is still open has left its current line undone. *)
LEMMA OpenTransaction ==
  ASSUME TxInv, NEW t \in Connections
  PROVE  /\ tx[t] \in Transaction
         /\ Shape(tx[t]) /\ Sound(tx[t]) /\ Role(t, tx[t])
         /\ tx[t].at # Nowhere =>
              /\ tx[t].at \in Variants \ UpdatedBy(tx[t])
              /\ tx[t].at \in AheadOf(tx[t])
              /\ Active(t) /\ tx[t].order \in Orders
              /\ tx[t].qty[tx[t].at] \in Nat
<1>1. tx[t] \in Transaction /\ Shape(tx[t]) /\ Sound(tx[t]) /\ Role(t, tx[t])
  BY TxInvParts DEF Fine
<1>2. tx[t].at # Nowhere => tx[t].at \in Variants /\ tx[t].qty[tx[t].at] \in Nat
  BY <1>1, ConstantsAssumption DEF Transaction, Basket
<1>3. tx[t].at # Nowhere => Active(t)
  BY <1>1, IdleFacts DEF Shape, Active
<1>. QED  BY <1>1, <1>2, <1>3 DEF Shape, AheadOf, Active

(* A new image of one row: the record new differs from x only in that image,
   and perhaps in its mark. *)
ImageSet(new, x, v, row, marked) ==
  /\ new \in Transaction
  /\ new.op = x.op /\ new.order = x.order /\ new.qty = x.qty
  /\ new.todo = x.todo /\ new.marked = marked
  /\ new.image[v] = row
  /\ \A w \in UpdatedBy(x) \ {v} : new.image[w] = x.image[w]
  /\ UpdatedBy(new) = UpdatedBy(x) \cup {v}

LEMMA ImageIsSet ==
  ASSUME NEW x \in Transaction, NEW v \in Variants, NEW row \in StockRow
  PROVE  /\ ImageSet([x EXCEPT !.image[v] = row], x, v, row, x.marked)
         /\ ImageSet([x EXCEPT !.marked = FALSE, !.image[v] = row], x, v, row, FALSE)
<1>1. row # NoImage
  BY SessionsAssumption DEF StockRow
<1>2. ASSUME NEW new, NEW marked \in BOOLEAN,
             /\ new \in Transaction
             /\ new.op = x.op /\ new.order = x.order /\ new.qty = x.qty
             /\ new.todo = x.todo /\ new.marked = marked
             /\ new.image = [x.image EXCEPT ![v] = row]
      PROVE  ImageSet(new, x, v, row, marked)
  <2>1. x.image \in [Variants -> StockRow \cup {NoImage}]
    BY DEF Transaction
  <2>. QED  BY <1>1, <1>2, <2>1 DEF ImageSet, UpdatedBy
<1>3. ImageSet([x EXCEPT !.image[v] = row], x, v, row, x.marked)
  <2>. DEFINE new == [x EXCEPT !.image[v] = row]
  <2>1. /\ new \in Transaction
        /\ new.op = x.op /\ new.order = x.order /\ new.qty = x.qty
        /\ new.todo = x.todo /\ new.marked = x.marked
        /\ new.image = [x.image EXCEPT ![v] = row]
        /\ x.marked \in BOOLEAN
    BY DEF Transaction
  <2>. HIDE DEF new
  <2>2. ImageSet(new, x, v, row, x.marked)
    BY <1>2, <2>1
  <2>. QED  BY <2>2 DEF new
<1>4. ImageSet([x EXCEPT !.marked = FALSE, !.image[v] = row], x, v, row, FALSE)
  <2>. DEFINE new == [x EXCEPT !.marked = FALSE, !.image[v] = row]
  <2>1. /\ new \in Transaction
        /\ new.op = x.op /\ new.order = x.order /\ new.qty = x.qty
        /\ new.todo = x.todo /\ new.marked = FALSE
        /\ new.image = [x.image EXCEPT ![v] = row]
    BY DEF Transaction
  <2>. HIDE DEF new
  <2>2. ImageSet(new, x, v, row, FALSE)
    BY <1>2, <2>1
  <2>. QED  BY <2>2 DEF new
<1>. QED  BY <1>3, <1>4

LEMMA ReserveLineStep ==
  ASSUME TxInv, NEW t \in Connections, ReserveLine(t)
  PROVE  TxInv'
<1>. DEFINE v == tx[t].at
            q == tx[t].qty[v]
            row == [available |-> available[v] - q, reserved |-> reserved[v] + q]
            new == [tx[t] EXCEPT !.image[v] = row]
<1>1. /\ tx[t].op = "reserve" /\ v # Nowhere /\ Free(t)
      /\ available[v] >= q
      /\ NextLine(t, new) /\ UNCHANGED inventoryVars
  BY DEF ReserveLine
<1>2. /\ tx[t] \in Transaction /\ Shape(tx[t]) /\ Sound(tx[t]) /\ Role(t, tx[t])
      /\ v \in Variants \ UpdatedBy(tx[t]) /\ v \in AheadOf(tx[t])
      /\ Active(t) /\ tx[t].order \in Orders /\ q \in Nat
  BY <1>1, OpenTransaction
<1>3. available[v] \in Nat /\ reserved[v] \in Nat
  BY <1>2, TxInvParts DEF TypeOK
<1>4. row \in StockRow
  BY <1>2, <1>3 DEF StockRow
<1>5. ImageSet(new, tx[t], v, row, tx[t].marked)
  BY <1>2, <1>4, ImageIsSet
<1>6. /\ new \in Transaction
      /\ new.op = tx[t].op /\ new.order = tx[t].order /\ new.qty = tx[t].qty
      /\ new.todo = tx[t].todo /\ new.marked = tx[t].marked
      /\ new.image[v] = row
      /\ \A w \in UpdatedBy(tx[t]) : new.image[w] = tx[t].image[w]
      /\ UpdatedBy(new) = UpdatedBy(tx[t]) \cup {v}
  BY <1>2, <1>5 DEF ImageSet
<1>7. ~tx[t].marked
  BY <1>1, <1>2 DEF Shape, Outcome
<1>8. AheadOf(tx[t]) = tx[t].todo \cup {v}
  BY <1>1 DEF AheadOf
<1>9. \A u \in Connections : u # t => v \notin UpdatedBy(tx[u])
  BY <1>1, <1>2, FreeStockRow DEF Outcome
<1>. HIDE DEF new
<1>10. Sound(new)
  BY <1>1, <1>2, <1>6 DEF Sound, Reserving, Outcome
<1>11. \A u \in Connections : u # t => Apart(new, tx[u])
  BY <1>1, <1>6, <1>9, TxInvParts DEF Apart, Outcome
<1>12. new.todo \cap UpdatedBy(new) = {}
  BY <1>2, <1>6, <1>8 DEF Shape
<1>. QED
  BY <1>1, <1>2, <1>6, <1>7, <1>8, <1>10, <1>11, <1>12, TransactionGoesOn DEF Shape, Role

(* A transaction that is undone leaves every committed row as it was. *)
LEMMA RolledBack ==
  ASSUME TxInv, NEW t \in Connections, RollBack(t), UNCHANGED <<stockVars, overdue>>,
         expiring' \in [Sweepers -> SUBSET Lines],
         \A s \in Sweepers : /\ expiring'[s] \subseteq expiring[s]
                             /\ s # t => expiring'[s] = expiring[s]
  PROVE  TxInv'
<1>1. TypeOK'
  BY TxInvParts DEF TypeOK, stockVars
<1>2. ASSUME NEW u \in Connections, u # t
      PROVE  Sound(tx[u])'
  <2>1. tx'[u] = tx[u] /\ Sound(tx[u])
    BY <1>2, TxInvParts DEF RollBack, TxInv
  <2>. QED
    BY <2>1 DEF Sound, Reserving, Settling, Held, UpdatedBy, MarkedBy, stockVars
<1>. QED  BY <1>1, <1>2, TransactionOver DEF stockVars

LEMMA OutOfStockStep ==
  ASSUME TxInv, NEW t \in Connections, OutOfStock(t)
  PROVE  TxInv'
<1>1. expiring' \in [Sweepers -> SUBSET Lines] /\ expiring' = expiring
  BY TxInvParts DEF TypeOK, OutOfStock, inventoryVars
<1>. QED  BY <1>1, RolledBack DEF OutOfStock, inventoryVars, stockVars

LEMMA AbortStep ==
  ASSUME TxInv, NEW t \in Connections, Abort(t)
  PROVE  TxInv'
<1>1. expiring \in [Sweepers -> SUBSET Lines]
  BY TxInvParts DEF TypeOK
<1>2. /\ expiring' \in [Sweepers -> SUBSET Lines]
      /\ \A s \in Sweepers : /\ expiring'[s] \subseteq expiring[s]
                             /\ s # t => expiring'[s] = expiring[s]
  BY <1>1 DEF Abort
<1>. QED  BY <1>2, RolledBack DEF Abort

LEMMA MarkLineStep ==
  ASSUME TxInv, NEW t \in Connections, MarkLine(t)
  PROVE  TxInv'
<1>. DEFINE v == tx[t].at
            q == reservation[<<tx[t].order, v>>].qty
            row == [tx[t] EXCEPT !.marked = TRUE, !.qty[v] = q]
<1>1. /\ tx[t].op \in Outcome /\ v # Nowhere /\ ~tx[t].marked
      /\ Held(<<tx[t].order, v>>) /\ Free(t)
      /\ tx' = [tx EXCEPT ![t] = row]
      /\ UNCHANGED inventoryVars
  <2>1. tx' = [tx EXCEPT ![t] = row]
    BY DEF MarkLine
  <2>. QED  BY <2>1 DEF MarkLine
<1>2. /\ tx[t] \in Transaction /\ Shape(tx[t]) /\ Sound(tx[t]) /\ Role(t, tx[t])
      /\ v \in Variants \ UpdatedBy(tx[t]) /\ v \in AheadOf(tx[t])
      /\ Active(t) /\ tx[t].order \in Orders
  BY <1>1, OpenTransaction
<1>3. q \in 0..MaxQty
  <2>1. reservation[<<tx[t].order, v>>] \in Reservation
    BY <1>2, TxInvParts DEF TypeOK, Lines
  <2>. QED  BY <2>1 DEF Reservation
<1>4. /\ row \in Transaction
      /\ row.op = tx[t].op /\ row.order = tx[t].order /\ row.todo = tx[t].todo
      /\ row.at = v /\ row.marked /\ row.image = tx[t].image
      /\ row.qty = [tx[t].qty EXCEPT ![v] = q]
  BY <1>2, <1>3 DEF Transaction, Basket
<1>5. row.qty[v] = q /\ \A w \in Variants \ {v} : row.qty[w] = tx[t].qty[w]
  BY <1>2, <1>4 DEF Transaction, Basket
<1>. HIDE DEF row
<1>6. /\ UpdatedBy(row) = UpdatedBy(tx[t]) /\ AheadOf(row) = AheadOf(tx[t])
      /\ MarkedBy(row) = MarkedBy(tx[t]) \cup {v}
  BY <1>1, <1>4 DEF UpdatedBy, MarkedBy, AheadOf
<1>7. Shape(row) /\ Role(t, row)
  BY <1>1, <1>2, <1>4, <1>6 DEF Shape, Role, Outcome
<1>8. Sound(row)
  <2>1. Settling(tx[t])
    BY <1>1, <1>2 DEF Sound
  <2>2. MarkedBy(tx[t]) = UpdatedBy(tx[t]) /\ UpdatedBy(tx[t]) \subseteq Variants \ {v}
    BY <1>1, <1>2 DEF MarkedBy, UpdatedBy
  <2>3. Settling(row)
    BY <1>1, <1>4, <1>5, <1>6, <2>1, <2>2 DEF Settling
  <2>. QED  BY <1>1, <1>4, <2>3 DEF Sound, Outcome
<1>9. \A u \in Connections : u # t => Apart(row, tx[u])
  <2>1. ASSUME NEW u \in Connections, u # t
        PROVE  Apart(row, tx[u])
    <3>1. Apart(tx[t], tx[u])
      BY <2>1, TxInvParts
    <3>2. tx[u].op \in Outcome /\ tx[u].order = tx[t].order => v \notin MarkedBy(tx[u])
      BY <1>1, <1>2, <2>1, FreeReservationRow
    <3>. QED  BY <1>4, <1>6, <3>1, <3>2 DEF Apart
  <2>. QED  BY <2>1
<1>. QED  BY <1>1, <1>4, <1>7, <1>8, <1>9, RowReplaced DEF Fine

LEMMA LineNotHeldStep ==
  ASSUME TxInv, NEW t \in Connections, LineNotHeld(t)
  PROVE  TxInv'
<1>1. CASE t \in Sweepers
  <2>1. expiring \in [Sweepers -> SUBSET Lines]
    BY TxInvParts DEF TypeOK
  <2>2. /\ expiring' \in [Sweepers -> SUBSET Lines]
        /\ \A s \in Sweepers : /\ expiring'[s] \subseteq expiring[s]
                               /\ s # t => expiring'[s] = expiring[s]
    BY <1>1, <2>1 DEF LineNotHeld
  <2>. QED  BY <1>1, <2>2, RolledBack DEF LineNotHeld
<1>2. CASE t \notin Sweepers
  <2>1. /\ tx[t].op \in Outcome /\ tx[t].at # Nowhere /\ ~tx[t].marked
        /\ NextLine(t, tx[t]) /\ UNCHANGED inventoryVars
    BY <1>2 DEF LineNotHeld, inventoryVars, stockVars
  <2>2. /\ tx[t] \in Transaction /\ Shape(tx[t]) /\ Sound(tx[t]) /\ Role(t, tx[t])
        /\ tx[t].order \in Orders /\ tx[t].op # "idle"
    BY <2>1, OpenTransaction DEF Active
  <2>3. tx[t].todo \cap UpdatedBy(tx[t]) = {} /\ tx[t].op # "reserve"
    BY <2>1, <2>2 DEF Shape, AheadOf, Outcome
  <2>. QED
    BY <1>2, <2>1, <2>2, <2>3, TxInvParts, TransactionGoesOn DEF Role
<1>. QED  BY <1>1, <1>2

LEMMA SettleStockStep ==
  ASSUME TxInv, NEW t \in Connections, SettleStock(t)
  PROVE  TxInv'
<1>. DEFINE v == tx[t].at
            q == tx[t].qty[v]
            back == IF tx[t].op = "committed" THEN 0 ELSE q
            row == [available |-> available[v] + back, reserved |-> reserved[v] - q]
            new == [tx[t] EXCEPT !.marked = FALSE, !.image[v] = row]
<1>1. /\ tx[t].marked /\ Free(t) /\ reserved[v] >= q
      /\ NextLine(t, new) /\ UNCHANGED inventoryVars
  BY DEF SettleStock
<1>2. /\ tx[t] \in Transaction /\ Shape(tx[t]) /\ Sound(tx[t]) /\ Role(t, tx[t])
      /\ tx[t].op \in Outcome /\ v # Nowhere
  BY <1>1, OpenTransaction DEF Shape
<1>3. /\ v \in Variants \ UpdatedBy(tx[t]) /\ v \in AheadOf(tx[t])
      /\ Active(t) /\ tx[t].order \in Orders /\ q \in Nat
  BY <1>2, OpenTransaction
<1>4. available[v] \in Nat /\ reserved[v] \in Nat
  BY <1>3, TxInvParts DEF TypeOK
<1>5. row \in StockRow
  BY <1>3, <1>4 DEF StockRow
<1>6. ImageSet(new, tx[t], v, row, FALSE)
  BY <1>2, <1>3, <1>5, ImageIsSet
<1>7. /\ new \in Transaction
      /\ new.op = tx[t].op /\ new.order = tx[t].order /\ new.qty = tx[t].qty
      /\ new.todo = tx[t].todo /\ ~new.marked
      /\ new.image[v] = row
      /\ \A w \in UpdatedBy(tx[t]) : new.image[w] = tx[t].image[w]
      /\ UpdatedBy(new) = UpdatedBy(tx[t]) \cup {v}
  BY <1>3, <1>6 DEF ImageSet
<1>8. AheadOf(tx[t]) = tx[t].todo \cup {v} /\ v \notin tx[t].todo
  BY <1>2 DEF AheadOf, Shape
<1>9. \A u \in Connections : u # t => v \notin UpdatedBy(tx[u])
  BY <1>1, <1>2, <1>3, FreeStockRow
<1>. HIDE DEF new
<1>10. MarkedBy(new) = MarkedBy(tx[t])
  BY <1>1, <1>7 DEF MarkedBy
<1>11. Sound(new)
  <2>1. Settling(tx[t])
    BY <1>2 DEF Sound
  <2>2. Settling(new)
    BY <1>1, <1>3, <1>7, <1>10, <2>1 DEF Settling
  <2>. QED  BY <1>2, <1>7, <2>2 DEF Sound, Outcome
<1>12. \A u \in Connections : u # t => Apart(new, tx[u])
  BY <1>7, <1>9, <1>10, TxInvParts DEF Apart
<1>13. new.todo \cap UpdatedBy(new) = {}
  BY <1>2, <1>7, <1>8 DEF Shape
<1>14. new.op # "idle" /\ new.op # "reserve"
  BY <1>2, <1>7 DEF Outcome
<1>. QED
  BY <1>1, <1>2, <1>3, <1>7, <1>8, <1>11, <1>12, <1>13, <1>14, TransactionGoesOn DEF Role

----------------------------------------------------------------------------
(* A COMMIT is the transaction of Inventory, or changes nothing *)

(* What COMMIT does, written with the transaction x. *)
Committed(t, x) ==
  LET vs == UpdatedBy(x)
      out == [v \in Variants |-> IF v \in vs THEN x.qty[v] ELSE 0]
      status == IF x.op = "reserve" THEN "held" ELSE x.op IN
  /\ x.op # "idle" /\ x.at = Nowhere
  /\ available' = [v \in Variants |->
       IF v \in vs THEN x.image[v].available ELSE available[v]]
  /\ reserved' = [v \in Variants |->
       IF v \in vs THEN x.image[v].reserved ELSE reserved[v]]
  /\ reservation' = [l \in Lines |->
       IF l[1] = x.order /\ l[2] \in vs
         THEN [qty |-> x.qty[l[2]], status |-> status] ELSE reservation[l]]
  /\ Post(x.op, vs, out)
  /\ expiring' = IF t \in Sweepers
       THEN [expiring EXCEPT ![t] = @ \ {<<x.order, v>> : v \in vs}] ELSE expiring
  /\ UNCHANGED overdue

LEMMA CommitTxIs ==
  ASSUME NEW t \in Connections, CommitTx(t)
  PROVE  Committed(t, tx[t]) /\ RollBack(t)
BY DEF CommitTx, Committed, Updated, UpdatedBy, Active

LEMMA CommittedReserve ==
  ASSUME TypeOK, NEW t \in Sessions, NEW x \in Transaction, Shape(x), Sound(x),
         Committed(t, x), x.op = "reserve"
  PROVE  ReserveInTx(x.order, x.qty) /\ x.order \in Orders /\ x.qty \in Basket
<1>. DEFINE vs == UpdatedBy(x)
            q == x.qty
<1>1. x.order \in Orders /\ q \in Basket /\ q # Nothing
  BY DEF Shape, Transaction
<1>2. vs = {v \in Variants : q[v] > 0}
  BY DEF Shape, AheadOf, Committed
<1>3. \A v \in Variants : q[v] \in Nat /\ (v \notin vs => q[v] = 0)
  BY <1>1, <1>2, ConstantsAssumption DEF Basket
<1>4. Reserving(x)
  BY DEF Sound
<1>5. \A v \in Variants : available[v] \in Nat /\ reserved[v] \in Nat
  BY DEF TypeOK
<1>6. TryReserveStock(q)
  <2>1. /\ available' = [v \in Variants |->
              IF v \in vs THEN x.image[v].available ELSE available[v]]
        /\ reserved' = [v \in Variants |->
              IF v \in vs THEN x.image[v].reserved ELSE reserved[v]]
    BY DEF Committed
  <2>2. \A v \in vs : /\ available[v] >= q[v]
                      /\ x.image[v].available = available[v] - q[v]
                      /\ x.image[v].reserved = reserved[v] + q[v]
    <3>1. ASSUME NEW v \in vs
          PROVE  /\ available[v] >= q[v]
                 /\ x.image[v].available = available[v] - q[v]
                 /\ x.image[v].reserved = reserved[v] + q[v]
      <4>1. /\ available[v] >= q[v]
            /\ x.image[v] = [available |-> available[v] - q[v],
                             reserved |-> reserved[v] + q[v]]
        BY <1>4 DEF Reserving
      <4>. HIDE DEF vs, q
      <4>. QED  BY <4>1
    <3>. QED  BY <3>1
  <2>. HIDE DEF vs, q
  <2>3. \A v \in Variants :
          /\ available[v] >= q[v]
          /\ (IF v \in vs THEN x.image[v].available ELSE available[v]) = available[v] - q[v]
          /\ (IF v \in vs THEN x.image[v].reserved ELSE reserved[v]) = reserved[v] + q[v]
    BY <1>3, <1>5, <2>2
  <2>. QED  BY <2>1, <2>3 DEF TryReserveStock
<1>7. CreateReservations(x.order, q)
  <2>1. reservation' = [l \in Lines |->
          IF l[1] = x.order /\ l[2] \in vs
            THEN [qty |-> q[l[2]], status |-> "held"] ELSE reservation[l]]
    BY DEF Committed
  <2>2. \A l \in Lines : l[2] \in vs <=> q[l[2]] > 0
    BY <1>2 DEF Lines
  <2>. HIDE DEF vs, q
  <2>. QED  BY <2>1, <2>2 DEF CreateReservations
<1>8. InsertLedger({v \in Variants : q[v] > 0}, Negated(q), q)
  <2>. DEFINE out == [v \in Variants |-> IF v \in vs THEN q[v] ELSE 0]
  <2>1. out = q
    BY <1>1, <1>3 DEF Basket
  <2>2. InsertLedger(vs, Negated(out), out)
    BY DEF Committed, Post
  <2>. HIDE DEF out
  <2>. QED  BY <1>2, <2>1, <2>2
<1>9. UNCHANGED sweepVars
  BY SessionsAssumption DEF Committed, sweepVars
<1>10. \A v \in Variants : reservation[<<x.order, v>>] = NoReservation
  BY <1>4 DEF Reserving
<1>. QED
  BY <1>1, <1>6, <1>7, <1>8, <1>9, <1>10 DEF ReserveInTx, Reserve

(* A settlement takes and gives back what the rows it marked hold. *)
LEMMA CommittedSettle ==
  ASSUME TypeOK, NEW t, NEW x \in Transaction, Shape(x), Sound(x),
         Committed(t, x), x.op \in Outcome
  PROVE  LET vs == UpdatedBy(x)
             out == QtyHeld(x.order, vs) IN
         /\ x.order \in Orders
         /\ MarkReservations(x.order, vs, x.op)
         /\ x.op = "committed" => /\ CommitReservedStock(out)
                                  /\ InsertLedger(vs, Nothing, Negated(out))
         /\ x.op # "committed" => /\ ReleaseReservedStock(out)
                                  /\ InsertLedger(vs, out, Negated(out))
<1>. DEFINE vs == UpdatedBy(x)
            out == QtyHeld(x.order, vs)
<1>1. x.order \in Orders
  BY DEF Shape, Outcome
<1>2. Settling(x) /\ vs \subseteq MarkedBy(x) /\ vs \subseteq Variants
  BY DEF Sound, MarkedBy, UpdatedBy
<1>3. /\ \A v \in vs : /\ Held(<<x.order, v>>)
                       /\ x.qty[v] = reservation[<<x.order, v>>].qty
                       /\ x.qty[v] \in Nat
      /\ \A v \in Variants : available[v] \in Nat /\ reserved[v] \in Nat
  BY <1>2, ConstantsAssumption DEF Settling, TypeOK, Transaction, Basket
<1>4. MarkReservations(x.order, vs, x.op)
  <2>1. reservation' = [l \in Lines |->
          IF l[1] = x.order /\ l[2] \in vs
            THEN [qty |-> x.qty[l[2]], status |-> x.op] ELSE reservation[l]]
    BY DEF Committed, Outcome
  <2>2. \A l \in Lines : l[1] = x.order /\ l[2] \in vs => x.qty[l[2]] = reservation[l].qty
    BY <1>3 DEF Lines
  <2>. HIDE DEF vs
  <2>. QED  BY <1>3, <2>1, <2>2 DEF MarkReservations
<1>5. out = [v \in Variants |-> IF v \in vs THEN x.qty[v] ELSE 0]
  BY <1>3 DEF QtyHeld
<1>6. Post(x.op, vs, out)
  BY <1>5 DEF Committed
<1>7. /\ available' = [v \in Variants |->
            IF v \in vs THEN x.image[v].available ELSE available[v]]
      /\ reserved' = [v \in Variants |->
            IF v \in vs THEN x.image[v].reserved ELSE reserved[v]]
  BY DEF Committed
<1>8. \A v \in vs : /\ reserved[v] >= x.qty[v]
                    /\ x.image[v].reserved = reserved[v] - x.qty[v]
                    /\ x.image[v].available =
                         available[v] + (IF x.op = "committed" THEN 0 ELSE x.qty[v])
  <2>1. ASSUME NEW v \in vs
        PROVE  /\ reserved[v] >= x.qty[v]
               /\ x.image[v].reserved = reserved[v] - x.qty[v]
               /\ x.image[v].available =
                    available[v] + (IF x.op = "committed" THEN 0 ELSE x.qty[v])
    <3>1. /\ reserved[v] >= x.qty[v]
          /\ x.image[v] = [available |-> available[v] +
                             (IF x.op = "committed" THEN 0 ELSE x.qty[v]),
                           reserved |-> reserved[v] - x.qty[v]]
      BY <1>2 DEF Settling
    <3>. HIDE DEF vs
    <3>. QED  BY <3>1
  <2>. QED  BY <2>1
<1>9. \A v \in Variants : out[v] = IF v \in vs THEN x.qty[v] ELSE 0
  BY <1>5
<1>. HIDE DEF vs, out
<1>10. \A v \in Variants :
         /\ reserved[v] >= out[v]
         /\ (IF v \in vs THEN x.image[v].reserved ELSE reserved[v]) = reserved[v] - out[v]
  BY <1>3, <1>8, <1>9
<1>11. reserved' = [v \in Variants |-> reserved[v] - out[v]]
  BY <1>7, <1>10
<1>12. CASE x.op = "committed"
  <2>1. \A v \in Variants :
          (IF v \in vs THEN x.image[v].available ELSE available[v]) = available[v]
    BY <1>3, <1>8, <1>12
  <2>2. available' = available
    BY <1>7, <2>1 DEF TypeOK
  <2>3. InsertLedger(vs, Nothing, Negated(out))
    BY <1>6, <1>12 DEF Post
  <2>4. CommitReservedStock(out)
    BY <1>10, <1>11, <2>2 DEF CommitReservedStock
  <2>. QED  BY <1>1, <1>4, <1>12, <2>3, <2>4 DEF vs, out
<1>13. CASE x.op # "committed"
  <2>1. \A v \in Variants :
          (IF v \in vs THEN x.image[v].available ELSE available[v]) = available[v] + out[v]
    BY <1>3, <1>8, <1>9, <1>13
  <2>2. available' = [v \in Variants |-> available[v] + out[v]]
    BY <1>7, <2>1
  <2>3. InsertLedger(vs, out, Negated(out))
    BY <1>6, <1>13 DEF Post, Outcome
  <2>4. ReleaseReservedStock(out)
    BY <1>10, <1>11, <2>2 DEF ReleaseReservedStock
  <2>. QED  BY <1>1, <1>4, <1>13, <2>3, <2>4 DEF vs, out
<1>. QED  BY <1>12, <1>13

(* A settlement that found none of its lines held changes no row. *)
LEMMA CommittedNothing ==
  ASSUME TypeOK, NEW t \in Sessions, NEW x, Committed(t, x), UpdatedBy(x) = {},
         x.op \in {"reserve"} \cup Outcome
  PROVE  UNCHANGED inventoryVars
<1>1. available' = available /\ reserved' = reserved /\ reservation' = reservation
  BY DEF Committed, TypeOK
<1>2. ledger' = ledger
  BY DEF Committed, Post, InsertLedger, TypeOK
<1>3. expiring' = expiring /\ overdue' = overdue
  BY SessionsAssumption DEF Committed
<1>. QED  BY <1>1, <1>2, <1>3 DEF inventoryVars

LEMMA CommitTxRefines ==
  ASSUME TxInv, NEW t \in Connections, CommitTx(t)
  PROVE  [Next]_inventoryVars
<1>. DEFINE x == tx[t]
            vs == UpdatedBy(x)
<1>1. /\ TypeOK /\ x \in Transaction
      /\ Shape(x) /\ Sound(x) /\ Role(t, x)
      /\ Committed(t, x)
  BY TxInvParts, CommitTxIs DEF Fine
<1>2. x.op \in {"reserve"} \cup Outcome /\ AheadOf(x) = {} /\ vs \in SUBSET Variants
  BY <1>1 DEF Committed, Shape, AheadOf, Transaction, Op, UpdatedBy
<1>. HIDE DEF x
<1>3. CASE t \in Sweepers
  <2>1. PICK l \in expiring[t] : x.op = "expired" /\ x.order = l[1] /\ vs = {l[2]}
    BY <1>1, <1>2, <1>3 DEF Role, Outcome
  <2>2. l \in Lines /\ l = <<l[1], l[2]>>
    BY <1>1, <1>3, <2>1 DEF TypeOK, Lines
  <2>3. /\ MarkReservations(l[1], {l[2]}, "expired")
        /\ ReleaseReservedStock(QtyHeld(l[1], {l[2]}))
        /\ InsertLedger({l[2]}, QtyHeld(l[1], {l[2]}), Negated(QtyHeld(l[1], {l[2]})))
    BY <1>1, <2>1, CommittedSettle DEF Outcome
  <2>4. Release(l[1], {l[2]}, "expired")
    BY <2>3 DEF Release
  <2>5. expiring' = [expiring EXCEPT ![t] = @ \ {l}] /\ UNCHANGED overdue
    <3>1. {<<x.order, v>> : v \in vs} = {l}
      BY <2>1, <2>2
    <3>2. /\ expiring' = [expiring EXCEPT ![t] = @ \ {<<x.order, v>> : v \in vs}]
          /\ UNCHANGED overdue
      BY <1>1, <1>3 DEF Committed
    <3>. QED  BY <3>1, <3>2
  <2>6. ExpireListed(t, l)
    BY <2>1, <2>4, <2>5 DEF ExpireListed
  <2>. QED  BY <1>3, <2>2, <2>6 DEF Next, SweepStep
<1>4. CASE t \in Sessions
  <2>1. UNCHANGED sweepVars
    BY <1>1, <1>4, SessionsAssumption DEF Committed, sweepVars
  <2>2. CASE x.op = "reserve"
    BY <1>1, <1>4, <2>2, CommittedReserve DEF Next
  <2>3. CASE x.op \in Outcome /\ vs # {}
    <3>1. x.op \in {"committed", "released"}
      BY <1>1, <1>4, <2>3 DEF Role, Outcome
    <3>2. /\ x.order \in Orders
          /\ MarkReservations(x.order, vs, x.op)
          /\ x.op = "committed" =>
               /\ CommitReservedStock(QtyHeld(x.order, vs))
               /\ InsertLedger(vs, Nothing, Negated(QtyHeld(x.order, vs)))
          /\ x.op # "committed" =>
               /\ ReleaseReservedStock(QtyHeld(x.order, vs))
               /\ InsertLedger(vs, QtyHeld(x.order, vs), Negated(QtyHeld(x.order, vs)))
      BY <1>1, <2>3, CommittedSettle
    <3>3. x.op = "committed" => CommitInTx(x.order, vs)
      BY <2>1, <2>3, <3>2 DEF CommitInTx, Commit
    <3>4. x.op = "released" => ReleaseInTx(x.order, vs)
      BY <2>1, <2>3, <3>2 DEF ReleaseInTx, Release
    <3>. QED  BY <1>2, <3>1, <3>2, <3>3, <3>4 DEF Next
  <2>4. CASE vs = {}
    BY <1>1, <1>2, <1>4, <2>4, CommittedNothing
  <2>. QED  BY <1>2, <2>2, <2>3, <2>4
<1>. QED  BY <1>3, <1>4 DEF Connections

(* What COMMIT installs is in rows that no other transaction has changed. *)
LEMMA CommitTxStep ==
  ASSUME TxInv, TypeOK', NEW t \in Connections, CommitTx(t)
  PROVE  TxInv'
<1>. DEFINE x == tx[t]
            vs == UpdatedBy(x)
<1>1. /\ x \in Transaction /\ Shape(x) /\ Committed(t, x) /\ RollBack(t)
      /\ expiring \in [Sweepers -> SUBSET Lines]
  BY TxInvParts, CommitTxIs DEF Fine, TypeOK
<1>2. x.op \in {"reserve"} \cup Outcome
  BY <1>1 DEF Committed, Transaction, Op
<1>. HIDE DEF x
<1>3. \A v \in Variants \ vs : available'[v] = available[v] /\ reserved'[v] = reserved[v]
  BY <1>1 DEF Committed
<1>4. \A l \in Lines : l[1] # x.order \/ l[2] \notin vs => reservation'[l] = reservation[l]
  BY <1>1 DEF Committed
<1>5. \A l \in Lines : reservation'[l].status = "none" => reservation[l].status = "none"
  <2>1. ASSUME NEW l \in Lines, l[1] = x.order, l[2] \in vs
        PROVE  reservation'[l].status # "none"
    BY <1>1, <1>2, <2>1 DEF Committed, Outcome
  <2>. QED  BY <1>4, <2>1
<1>6. \A s \in Sweepers : /\ expiring'[s] \subseteq expiring[s]
                          /\ s # t => expiring'[s] = expiring[s]
  BY <1>1 DEF Committed
<1>7. ASSUME NEW u \in Connections, u # t
      PROVE  Sound(tx[u])'
  <2>. DEFINE y == tx[u]
  <2>1. /\ y \in Transaction /\ Shape(y) /\ Sound(y) /\ Apart(x, y) /\ tx'[u] = y
    BY <1>1, <1>7, TxInvParts DEF Fine, RollBack, x
  <2>2. \A v \in UpdatedBy(y) : v \in Variants \ vs
    BY <2>1 DEF Apart, UpdatedBy
  <2>3. MarkedBy(y) \subseteq Variants
    BY <2>1 DEF MarkedBy, UpdatedBy, Shape, Transaction
  <2>4. CASE y.op = "reserve"
    <3>1. y.order # x.order /\ y.order \in Orders
      BY <2>1, <2>4 DEF Apart, Shape
    <3>2. \A v \in Variants : reservation'[<<y.order, v>>] = reservation[<<y.order, v>>]
      BY <1>4, <3>1 DEF Lines
    <3>3. Reserving(y)
      BY <2>1, <2>4 DEF Sound
    <3>4. Reserving(tx[u])'
      BY <1>3, <2>1, <2>2, <3>2, <3>3 DEF Reserving, UpdatedBy
    <3>. QED  BY <2>1, <2>4, <3>4 DEF Sound, Outcome
  <2>5. CASE y.op \in Outcome
    <3>1. y.order \in Orders
      BY <2>1, <2>5 DEF Shape, Outcome
    <3>2. \A v \in MarkedBy(y) : y.order # x.order \/ v \notin vs
      BY <1>2, <2>1, <2>5 DEF Apart, MarkedBy
    <3>3. \A v \in MarkedBy(y) : reservation'[<<y.order, v>>] = reservation[<<y.order, v>>]
      BY <1>4, <2>3, <3>1, <3>2 DEF Lines
    <3>4. Settling(y)
      BY <2>1, <2>5 DEF Sound
    <3>5. Settling(tx[u])'
      BY <1>3, <2>1, <2>2, <3>3, <3>4 DEF Settling, UpdatedBy, MarkedBy, Held
    <3>. QED  BY <2>1, <2>5, <3>5 DEF Sound, Outcome
  <2>6. CASE y.op = "idle"
    BY <2>1, <2>6 DEF Sound, Outcome
  <2>. QED  BY <2>1, <2>4, <2>5, <2>6 DEF Transaction, Op
<1>. QED  BY <1>1, <1>5, <1>6, <1>7, TransactionOver

----------------------------------------------------------------------------
(* The refinement *)

(* The sweeper's query and the clock do not touch the transactions. *)
LEMMA SweepQueryStep ==
  ASSUME TxInv, TypeOK', NEW s \in Sweepers, ~Active(s), ListExpired(s), UNCHANGED tx
  PROVE  TxInv'
<1>1. /\ \A u \in Sweepers : u # s => expiring'[u] = expiring[u]
      /\ \A l \in expiring'[s] : Held(l)
      /\ UNCHANGED <<available, reserved, reservation>>
  BY TxInvParts DEF ListExpired, TypeOK, stockVars
<1>2. ASSUME NEW u \in Connections
      PROVE  Shape(tx[u])' /\ Sound(tx[u])' /\ Role(u, tx[u])'
  <2>1. Shape(tx[u]) /\ Sound(tx[u]) /\ Role(u, tx[u])
    BY DEF TxInv
  <2>2. Shape(tx[u])' /\ Sound(tx[u])'
    BY <1>1, <2>1 DEF Shape, Sound, Reserving, Settling, Held, UpdatedBy, MarkedBy, AheadOf
  <2>3. Role(u, tx[u])'
    BY <1>1, <2>1 DEF Role, UpdatedBy, AheadOf, Active
  <2>. QED  BY <2>2, <2>3
<1>3. (\A u, w \in Connections : u # w => Apart(tx[u], tx[w]))'
  BY DEF TxInv, Apart, UpdatedBy, MarkedBy
<1>4. ListedExist'
  BY <1>1 DEF TxInv, ListedExist, Held
<1>5. tx' \in [Connections -> Transaction]
  BY TxInvParts
<1>. QED  BY <1>2, <1>3, <1>4, <1>5 DEF TxInv, TxTypeOK

LEMMA ClockStep ==
  ASSUME TxInv, TypeOK', UNCHANGED <<stockVars, expiring, tx>>
  PROVE  TxInv'
<1>. USE DEF stockVars
<1>1. ASSUME NEW u \in Connections
      PROVE  Shape(tx[u])' /\ Sound(tx[u])' /\ Role(u, tx[u])'
  <2>1. Shape(tx[u]) /\ Sound(tx[u]) /\ Role(u, tx[u])
    BY DEF TxInv
  <2>. QED
    BY <2>1 DEF Shape, Sound, Reserving, Settling, Role, Held, UpdatedBy, MarkedBy, AheadOf
<1>2. (\A u, w \in Connections : u # w => Apart(tx[u], tx[w]))'
  BY DEF TxInv, Apart, UpdatedBy, MarkedBy
<1>3. ListedExist' /\ tx' \in [Connections -> Transaction]
  BY TxInvParts DEF ListedExist
<1>. QED  BY <1>1, <1>2, <1>3 DEF TxInv, TxTypeOK

(* A sweeper gives up its list, or one row of it, as Inventory says. *)
LEMMA AbortRefines ==
  ASSUME TxInv, NEW t \in Connections, Abort(t)
  PROVE  [Next]_inventoryVars
<1>1. CASE t \in Sweepers
  <2>1. PICK l \in expiring[t] : TRUE
    BY <1>1, OpenTransaction DEF Role, Active, Abort
  <2>2. SweepFails(t)
    BY <1>1, <2>1 DEF SweepFails, Abort
  <2>. QED  BY <1>1, <2>2 DEF Next, SweepStep
<1>2. CASE t \notin Sweepers
  BY <1>2 DEF Abort, inventoryVars, stockVars
<1>. QED  BY <1>1, <1>2

LEMMA LineNotHeldRefines ==
  ASSUME TxInv, NEW t \in Connections, LineNotHeld(t)
  PROVE  [Next]_inventoryVars
<1>1. CASE t \in Sweepers
  <2>. DEFINE l == <<tx[t].order, tx[t].at>>
  <2>1. /\ tx[t].op \in Outcome /\ tx[t].at # Nowhere /\ ~Held(l)
        /\ expiring' = [expiring EXCEPT ![t] = @ \ {l}]
        /\ UNCHANGED <<stockVars, overdue>>
    BY <1>1 DEF LineNotHeld
  <2>2. Role(t, tx[t]) /\ tx[t].at \in AheadOf(tx[t])
    BY <2>1, OpenTransaction
  <2>3. PICK k \in expiring[t] :
          /\ tx[t].order = k[1]
          /\ UpdatedBy(tx[t]) \cup AheadOf(tx[t]) = {k[2]}
    BY <1>1, <2>1, <2>2 DEF Role, Outcome
  <2>4. k \in Lines /\ k = <<k[1], k[2]>>
    BY <1>1, TxInvParts DEF TypeOK, Lines
  <2>5. l = k
    BY <2>2, <2>3, <2>4
  <2>6. SkipListed(t, l)
    BY <2>1, <2>3, <2>5 DEF SkipListed
  <2>. QED  BY <1>1, <2>4, <2>5, <2>6 DEF Next, SweepStep
<1>2. CASE t \notin Sweepers
  BY <1>2 DEF LineNotHeld, inventoryVars, stockVars
<1>. QED  BY <1>1, <1>2

(* Every statement is a transaction of Inventory or none of its steps. *)
LEMMA StatementRefines ==
  ASSUME TxInv, [TxNext]_txVars
  PROVE  [Next]_inventoryVars
<1>1. ASSUME NEW t \in Connections, Step(t) \/ Abort(t)
      PROVE  [Next]_inventoryVars
  <2>1. CASE ReserveLine(t) \/ OutOfStock(t) \/ MarkLine(t) \/ SettleStock(t)
    BY <2>1 DEF ReserveLine, OutOfStock, MarkLine, SettleStock
  <2>2. CASE LineNotHeld(t)
    BY <2>2, LineNotHeldRefines
  <2>3. CASE CommitTx(t)
    BY <2>3, CommitTxRefines
  <2>4. CASE Abort(t) \/ DeadlockVictim(t)
    BY <2>4, AbortRefines DEF DeadlockVictim
  <2>. QED  BY <1>1, <2>1, <2>2, <2>3, <2>4 DEF Step
<1>2. ASSUME NEW t \in Sessions, NEW o \in Orders, NEW basket \in Basket,
             BeginReserve(t, o, basket)
      PROVE  [Next]_inventoryVars
  BY <1>2 DEF BeginReserve
<1>3. ASSUME NEW t \in Sessions, NEW o \in Orders,
             NEW outcome \in {"committed", "released"}, BeginSettle(t, o, outcome)
      PROVE  [Next]_inventoryVars
  BY <1>3 DEF BeginSettle
<1>4. ASSUME NEW s \in Sweepers, NEW l \in Lines, BeginExpire(s, l)
      PROVE  [Next]_inventoryVars
  BY <1>4 DEF BeginExpire
<1>5. ASSUME NEW s \in Sweepers, ListExpired(s)
      PROVE  [Next]_inventoryVars
  BY <1>5 DEF Next, SweepStep
<1>6. ASSUME NEW l \in Lines, DeadlinePasses(l)
      PROVE  [Next]_inventoryVars
  BY <1>6 DEF Next
<1>7. CASE UNCHANGED txVars
  BY <1>7 DEF txVars
<1>. QED  BY <1>1, <1>2, <1>3, <1>4, <1>5, <1>6, <1>7 DEF TxNext

LEMMA TxInvInit == TxInit => TxInv
<1>. SUFFICES ASSUME TxInit PROVE TxInv
  OBVIOUS
<1>1. TypeOK /\ \A t \in Connections : tx[t] = Idle
  BY TypeInit DEF TxInit
<1>2. tx \in [Connections -> Transaction]
  BY IdleFacts DEF TxInit
<1>3. \A t \in Connections : Fine(t, tx[t])
  BY <1>1, IdleFacts, IdleIsFine DEF Fine
<1>4. \A t, u \in Connections : t # u => Apart(tx[t], tx[u])
  BY <1>1, IdleFacts, IdleIsFine
<1>5. ListedExist
  BY DEF TxInit, Init, ListedExist
<1>. QED  BY <1>1, <1>2, <1>3, <1>4, <1>5, TxInvParts

LEMMA TxInvStep == TxInv /\ [TxNext]_txVars => TxInv'
<1>. SUFFICES ASSUME TxInv, [TxNext]_txVars PROVE TxInv'
  OBVIOUS
<1>1. TypeOK'
  BY StatementRefines, TypeStep, TxInvParts
<1>2. ASSUME NEW t \in Connections, Step(t) \/ Abort(t)
      PROVE  TxInv'
  <2>1. CASE ReserveLine(t)
    BY <2>1, ReserveLineStep
  <2>2. CASE OutOfStock(t)
    BY <2>2, OutOfStockStep
  <2>3. CASE MarkLine(t)
    BY <2>3, MarkLineStep
  <2>4. CASE LineNotHeld(t)
    BY <2>4, LineNotHeldStep
  <2>5. CASE SettleStock(t)
    BY <2>5, SettleStockStep
  <2>6. CASE CommitTx(t)
    BY <1>1, <2>6, CommitTxStep
  <2>7. CASE Abort(t) \/ DeadlockVictim(t)
    BY <2>7, AbortStep DEF DeadlockVictim
  <2>. QED  BY <1>2, <2>1, <2>2, <2>3, <2>4, <2>5, <2>6, <2>7 DEF Step
<1>3. ASSUME NEW t \in Sessions, NEW o \in Orders, NEW basket \in Basket,
             BeginReserve(t, o, basket)
      PROVE  TxInv'
  BY <1>3, BeginReserveStep
<1>4. ASSUME NEW t \in Sessions, NEW o \in Orders,
             NEW outcome \in {"committed", "released"}, BeginSettle(t, o, outcome)
      PROVE  TxInv'
  BY <1>4, BeginSettleStep
<1>5. ASSUME NEW s \in Sweepers, NEW l \in Lines, BeginExpire(s, l)
      PROVE  TxInv'
  BY <1>5, BeginExpireStep
<1>6. ASSUME NEW s \in Sweepers, ~Active(s), ListExpired(s), UNCHANGED tx
      PROVE  TxInv'
  BY <1>1, <1>6, SweepQueryStep
<1>7. ASSUME NEW l \in Lines, DeadlinePasses(l), UNCHANGED tx
      PROVE  TxInv'
  BY <1>1, <1>7, ClockStep DEF DeadlinePasses
<1>8. CASE UNCHANGED txVars
  BY <1>1, <1>8, ClockStep DEF txVars, inventoryVars, stockVars
<1>. QED  BY <1>2, <1>3, <1>4, <1>5, <1>6, <1>7, <1>8 DEF TxNext

LEMMA TxInvAlways == TxSpec => []TxInv
BY TxInvInit, TxInvStep, PTL DEF TxSpec

(* Concurrent transactions under READ COMMITTED are the one-step transactions
   of Inventory: the conditional UPDATEs and the row locks they take make every
   reservation and every settlement atomic, whatever else runs, fails or is
   chosen as the victim of a deadlock (queries/inventory.sql, engine.go). *)
THEOREM TransactionsAreAtomic == TxSpec => Spec
<1>1. TxInit => Init
  BY DEF TxInit
<1>2. TxInv /\ [TxNext]_txVars => [Next]_inventoryVars
  BY StatementRefines
<1>. QED  BY <1>1, <1>2, TxInvAlways, PTL DEF TxSpec, Spec

(* No statement of a transaction takes a count below zero or leaves a row
   malformed, and every open transaction is well formed. *)
THEOREM TxTypeCorrect == TxSpec => []TxTypeOK
<1>1. TxInv => TxTypeOK
  BY DEF TxInv
<1>. QED  BY <1>1, TxInvAlways, PTL

(* Hence whatever is proved of the engine holds of its concurrent statements:
   the reserved count is what the held rows hold, no unit is lost or sold
   twice, the journal reconciles, nothing expires early and the first outcome
   of a reservation is its last. *)
THEOREM TransactionsConserveStock ==
  TxSpec => /\ [](ReservedIsHeld /\ StockConserved /\ LedgerReconciles)
            /\ []ExpiredOnlyOverdue
            /\ FirstWriterWins
BY TransactionsAreAtomic, ReservedCountsHeldRows, StockIsConserved, JournalReconciles,
   ExpiryIsLate, OutcomeIsFinal, PTL

----------------------------------------------------------------------------
(* Deadlocks *)

(* A transaction that has one line left to itself has updated no stock row. *)
LEMMA OneLine ==
  ASSUME TxInv, NEW t \in Connections, tx[t].at # Nowhere,
         ~(Cardinality(Updated(t) \cup tx[t].todo \cup {tx[t].at}) > 1)
  PROVE  Updated(t) = {}
<1>. DEFINE all == Updated(t) \cup tx[t].todo \cup {tx[t].at}
<1>1. tx[t].at \in Variants /\ tx[t].at \notin Updated(t) /\ all \subseteq Variants
  BY OpenTransaction DEF Transaction, Updated, UpdatedBy
<1>2. IsFiniteSet(all) /\ Cardinality(all) \in Nat
  BY <1>1, ConstantsAssumption, FS_Subset, FS_CardinalityType
<1>3. ASSUME NEW v \in Updated(t)
      PROVE  FALSE
  <2>. DEFINE two == {v, tx[t].at}
  <2>1. v # tx[t].at
    BY <1>1
  <2>2. IsFiniteSet(two) /\ Cardinality(two) = 2
    <3>1. IsFiniteSet({v}) /\ Cardinality({v}) = 1
      BY FS_Singleton
    <3>2. two = {v} \cup {tx[t].at} /\ tx[t].at \notin {v}
      BY <2>1
    <3>3. IsFiniteSet({v} \cup {tx[t].at})
          /\ Cardinality({v} \cup {tx[t].at}) = Cardinality({v}) + 1
      BY <3>1, <3>2, FS_AddElement
    <3>. QED  BY <3>1, <3>2, <3>3
  <2>3. Cardinality(two) <= Cardinality(all)
    BY <1>2, FS_Subset
  <2>. QED  BY <1>2, <2>2, <2>3
<1>. QED  BY <1>3

(* If each transaction of a circle had one line, each would hold at most the
   reservation row it has marked; then the one it waits for has marked its row
   and itself waits for a stock row, which nobody holds. *)
LEMMA CircleNeedsTwoLines == TxInv => DeadlockNeedsTwoLines
<1>. SUFFICES ASSUME TxInv, NEW S \in SUBSET Connections, Deadlocked(S),
                     \A t \in S : ~(Cardinality(Updated(t) \cup tx[t].todo \cup {tx[t].at}) > 1)
              PROVE  FALSE
  BY DEF DeadlockNeedsTwoLines
<1>1. \A t \in S : \E u \in S : BlockedBy(t, u)
  BY DEF Deadlocked
<1>2. \A t \in S : tx[t].at # Nowhere /\ Updated(t) = {}
  BY <1>1, OneLine DEF BlockedBy
<1>3. \A t, u \in S : BlockedBy(t, u) => tx[t].op \in Outcome /\ ~tx[t].marked /\ tx[u].marked
  <2>1. ASSUME NEW t \in S, NEW u \in S, BlockedBy(t, u)
        PROVE  tx[t].op \in Outcome /\ ~tx[t].marked /\ tx[u].marked
    <3>1. Target(t) \in Locks(u)
      BY <2>1 DEF BlockedBy
    <3>2. tx[u].marked /\ \E o, v : Target(t) = ResRow(o, v)
      BY <1>2, <3>1 DEF Locks
    <3>. QED  BY <3>2 DEF Target, ResRow, InvRow
  <2>. QED  BY <2>1
<1>4. PICK t \in S : TRUE
  BY DEF Deadlocked
<1>5. PICK u \in S : BlockedBy(t, u)
  BY <1>1
<1>6. PICK w \in S : BlockedBy(u, w)
  BY <1>1
<1>. QED  BY <1>3, <1>5, <1>6

(* Transactions of one line, as the sweeper's are by design (service.go:
   ReleaseExpired), never wait for each other in a circle. *)
THEOREM OneLineNeverDeadlocks == TxSpec => []DeadlockNeedsTwoLines
BY TxInvAlways, CircleNeedsTwoLines, PTL

----------------------------------------------------------------------------
(* A reservation is whole *)

(* Only a commit writes reservation rows, and it ends a transaction of its own
   connection. *)
LEMMA CommitsWriteRows ==
  ASSUME TxInv, TxNext, NEW t \in Connections, tx[t].op = "reserve", tx'[t] = Idle
  PROVE  reservation' = reservation \/ CommitTx(t)
<1>1. ASSUME NEW u \in Connections, CommitTx(u), u # t PROVE FALSE
  <2>1. tx'[t] = tx[t]
    BY <1>1, TxInvParts DEF CommitTx, RollBack
  <2>. QED  BY <2>1, IdleFacts
<1>2. ASSUME NEW u \in Connections, Step(u) \/ Abort(u)
      PROVE  reservation' = reservation \/ CommitTx(t)
  BY <1>1, <1>2
     DEF Step, ReserveLine, OutOfStock, MarkLine, LineNotHeld, SettleStock, DeadlockVictim,
         Abort, inventoryVars, stockVars
<1>. QED
  BY <1>2 DEF TxNext, BeginReserve, BeginSettle, BeginExpire, ListExpired, DeadlinePasses,
              inventoryVars, stockVars

(* A checkout holds all of its lines or none: the images and the lines still
   ahead are always the whole basket, and the rows are not there until all of
   them come at once (checkout/service.go: reserveLines, reserveAndCreateOrder). *)
THEOREM ReservationsAreWhole == TxSpec => AllOrNothing
<1>. DEFINE Whole(t) ==
       \/ \A v \in Variants : reservation'[<<tx[t].order, v>>] = NoReservation
       \/ \A v \in Variants :
            reservation'[<<tx[t].order, v>>] =
              IF tx[t].qty[v] > 0 THEN [qty |-> tx[t].qty[v], status |-> "held"]
                                  ELSE NoReservation
<1>1. ASSUME TxInv, TxNext, NEW t \in Connections, tx[t].op = "reserve", tx'[t] = Idle
      PROVE  Whole(t)
  <2>1. /\ Shape(tx[t]) /\ Sound(tx[t]) /\ Role(t, tx[t])
        /\ tx[t] \in Transaction /\ TypeOK
    BY <1>1, TxInvParts DEF Fine
  <2>2. \A v \in Variants : reservation[<<tx[t].order, v>>] = NoReservation
    BY <1>1, <2>1 DEF Sound, Reserving
  <2>3. CASE CommitTx(t)
    <3>1. t \in Sessions
      BY <1>1, <2>1 DEF Role, Connections
    <3>2. CreateReservations(tx[t].order, tx[t].qty) /\ tx[t].order \in Orders
      BY <1>1, <2>1, <2>3, <3>1, CommitTxIs, CommittedReserve DEF ReserveInTx, Reserve
    <3>. QED  BY <2>2, <3>2 DEF CreateReservations, Lines
  <2>. QED  BY <1>1, <2>2, <2>3, CommitsWriteRows
<1>2. TxInv /\ [TxNext]_txVars => [\A t \in Connections :
        tx[t].op = "reserve" /\ tx'[t] = Idle => Whole(t)]_txVars
  BY <1>1
<1>. QED  BY <1>2, TxInvAlways, PTL DEF TxSpec, AllOrNothing

----------------------------------------------------------------------------
(* Transactions go on *)

(* The conditional stock UPDATE of a settlement always finds its units: once a
   transaction has marked a held row, the committed count covers the row until
   the transaction ends, whatever commits in between, so that it never meets
   ErrStockConservation (engine.go: commit, release). *)
StockCoversStatements ==
  \A t \in Connections : tx[t].marked => reserved[tx[t].at] >= tx[t].qty[tx[t].at]

LEMMA MarkedIsCovered == TxInv /\ HeldIsCovered => StockCoversStatements
<1>. SUFFICES ASSUME TxInv, HeldIsCovered, NEW t \in Connections, tx[t].marked
              PROVE  reserved[tx[t].at] >= tx[t].qty[tx[t].at]
  BY DEF StockCoversStatements
<1>. DEFINE x == tx[t]
            l == <<x.order, x.at>>
<1>1. x \in Transaction /\ Shape(x) /\ Sound(x)
  BY DEF TxInv, TxTypeOK
<1>2. x.op \in Outcome /\ x.at \in Variants /\ x.order \in Orders
  <2>1. x.op \in Outcome /\ x.at # Nowhere
    BY <1>1 DEF Shape
  <2>2. x.op # "idle"
    BY <2>1 DEF Outcome
  <2>. QED  BY <1>1, <2>1, <2>2 DEF Shape, Transaction
<1>3. x.at \in MarkedBy(x)
  BY DEF MarkedBy
<1>4. Held(l) /\ x.qty[x.at] = reservation[l].qty
  BY <1>1, <1>2, <1>3 DEF Sound, Settling
<1>5. l \in Lines /\ l[2] = x.at
  BY <1>2 DEF Lines
<1>. QED  BY <1>4, <1>5 DEF HeldIsCovered

(* engine.go's two checks for ErrStockConservation never fire, although the
   row and its count are two statements. *)
THEOREM StatementsFindTheirUnits == TxSpec => []StockCoversStatements
BY MarkedIsCovered, TxInvAlways, TransactionsAreAtomic, NoConservationError, PTL

(* The next statement of transaction t returns: it commits; or the row it wants
   is free, and either the row matches or the transaction is told that it does
   not; only the stock of a marked row has to match. *)
CanGoOn(t) ==
  \/ Active(t) /\ tx[t].at = Nowhere
  \/ /\ tx[t].at # Nowhere /\ Free(t)
     /\ \/ tx[t].op = "reserve"
        \/ tx[t].op \in Outcome /\ ~tx[t].marked
        \/ tx[t].marked /\ reserved[tx[t].at] >= tx[t].qty[tx[t].at]

(* As long as a transaction is open, the next statement of some transaction
   returns, or all the open ones wait for each other, which Postgres notices
   and ends.  Nobody waits for a transaction that is over, and nobody is stuck
   on a row that no longer matches.  Apart from Postgres' queues for a row that
   is all that TransactionsEnd rests on. *)
SomebodyGoesOn ==
  LET open == {t \in Connections : Active(t)} IN
  open # {} => (\E t \in open : CanGoOn(t)) \/ Deadlocked(open)

LEMMA BlockersAreActive ==
  ASSUME TxInv, NEW t \in Connections, NEW u \in Connections, BlockedBy(t, u)
  PROVE  Active(u)
<1>1. ASSUME ~Active(u) PROVE Locks(u) = {}
  <2>1. tx[u] = Idle
    BY <1>1 DEF TxInv, Shape, Active
  <2>. QED  BY <2>1, IdleFacts DEF Locks, Updated, UpdatedBy, Outcome
<1>. QED  BY <1>1 DEF BlockedBy

(* Open transactions stand still only in a circle, which the deadlock detector
   breaks. *)
THEOREM OpenTransactionsGoOn == TxSpec => []SomebodyGoesOn
<1>. DEFINE open == {t \in Connections : Active(t)}
<1>1. ASSUME TxInv, StockCoversStatements, NEW t \in open, ~CanGoOn(t)
      PROVE  \E u \in open : BlockedBy(t, u)
  <2>1. tx[t].at # Nowhere /\ Active(t)
    BY <1>1 DEF CanGoOn
  <2>2. tx[t].op = "reserve" \/ tx[t].op \in Outcome
    BY <1>1, <2>1 DEF TxInv, TxTypeOK, Transaction, Op, Active
  <2>3. ~Free(t)
    BY <1>1, <2>1, <2>2 DEF CanGoOn, StockCoversStatements
  <2>4. PICK u \in Connections : BlockedBy(t, u)
    BY <2>3 DEF Free
  <2>5. Active(u)
    BY <1>1, <2>4, BlockersAreActive
  <2>. QED  BY <2>4, <2>5
<1>2. TxInv /\ StockCoversStatements => SomebodyGoesOn
  <2>. SUFFICES ASSUME TxInv, StockCoversStatements, open # {}, \A t \in open : ~CanGoOn(t)
                PROVE  Deadlocked(open)
    BY DEF SomebodyGoesOn
  <2>. QED  BY <1>1 DEF Deadlocked
<1>. QED  BY <1>2, TxInvAlways, StatementsFindTheirUnits, PTL

(* Hence the sweeper and orders of one line, which never deadlock among
   themselves, always get on without a victim: one of them goes on. *)
OneLinersGoOn ==
  LET open == {t \in Connections : Active(t)} IN
  open # {} /\ (\A t \in open : Cardinality(Updated(t) \cup tx[t].todo \cup {tx[t].at}) <= 1)
    => \E t \in open : CanGoOn(t)

(* The sweeper's transactions, one row each, never need the deadlock detector
   among themselves (service.go: ReleaseExpired). *)
THEOREM SweepersNeedNoVictim == TxSpec => []OneLinersGoOn
<1>1. ASSUME TxInv, SomebodyGoesOn, DeadlockNeedsTwoLines PROVE OneLinersGoOn
  <2>. DEFINE open == {t \in Connections : Active(t)}
              lines(t) == Updated(t) \cup tx[t].todo \cup {tx[t].at}
  <2>. SUFFICES ASSUME open # {}, \A t \in open : Cardinality(lines(t)) <= 1,
                       \A t \in open : ~CanGoOn(t)
                PROVE  FALSE
    BY DEF OneLinersGoOn
  <2>1. Deadlocked(open) /\ open \in SUBSET Connections
    BY <1>1 DEF SomebodyGoesOn
  <2>2. PICK t \in open : Cardinality(lines(t)) > 1
    BY <1>1, <2>1 DEF DeadlockNeedsTwoLines
  <2>3. Cardinality(lines(t)) \in Nat
    <3>1. lines(t) \subseteq Variants \cup {Nowhere}
      BY <1>1 DEF TxInv, TxTypeOK, Transaction, Updated
    <3>2. IsFiniteSet(Variants \cup {Nowhere})
      BY ConstantsAssumption, FS_AddElement
    <3>. QED  BY <3>1, <3>2, FS_Subset, FS_CardinalityType
  <2>. HIDE DEF lines
  <2>. QED  BY <2>2, <2>3
<1>. QED  BY <1>1, TxInvAlways, OpenTransactionsGoOn, OneLineNeverDeadlocks, PTL
=============================================================================
