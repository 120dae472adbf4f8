----------------------------- MODULE Inventory -----------------------------
(***************************************************************************)
(* The stock reservation engine (internal/inventory and its queries), one  *)
(* step per database transaction.                                          *)
(*                                                                         *)
(* A reservation row is one line of one order: cart_items are unique on    *)
(* (cart, variant), so an order reserves a variant at most once and the    *)
(* row is named by the pair <<order, variant>>.  ReserveOne, which has no  *)
(* order, is an owner with a single line.  Time is abstracted to the set   *)
(* of reservations whose expires_at has passed.  ReleaseExpired is the one *)
(* operation that is not one transaction: it lists, then settles each row  *)
(* in a transaction of its own, so its list can be stale.  InventoryTx     *)
(* opens the transactions themselves.                                      *)
(***************************************************************************)
EXTENDS Integers, FiniteSets

CONSTANTS
  Orders,        \* owners of reservations
  Variants,      \* the sellable variants
  MaxQty,        \* the per-line quantity cap
  InitialStock,  \* the stock each variant starts with
  Sweepers,      \* callers of ReleaseExpired
  SweepLimit     \* the LIMIT of the sweeper's list query

ASSUME ConstantsAssumption ==
  /\ IsFiniteSet(Orders)
  /\ IsFiniteSet(Variants)
  /\ MaxQty \in Nat \ {0}
  /\ InitialStock \in [Variants -> Nat]
  /\ SweepLimit \in Nat \ {0}

VARIABLES
  available,    \* inventory.available
  reserved,     \* inventory.reserved
  reservation,  \* the reservations table, status "none" for no row
  ledger,       \* what ReconcileLedger sums over stock_ledger
  overdue,      \* reservations with expires_at < now()
  expiring      \* per sweeper, the listed rows it has not dealt with yet

stockVars == <<available, reserved, reservation, ledger>>
sweepVars == <<overdue, expiring>>
inventoryVars == <<available, reserved, reservation, ledger, overdue, expiring>>

Lines == Orders \X Variants
Basket == [Variants -> 0..MaxQty]
Outcome == {"committed", "released", "expired"}
Status == {"none", "held"} \cup Outcome
Reservation == [qty : 0..MaxQty, status : Status]
Posting == [available : Int, reserved : Int, entries : Nat]

Nothing == [v \in Variants |-> 0]
NoReservation == [qty |-> 0, status |-> "none"]
Held(l) == reservation[l].status = "held"

----------------------------------------------------------------------------
(* The queries the engine is made of *)

(* Mutant: the predicate of the UPDATE is dropped. *)
TryReserveStockUnchecked(basket) ==
  /\ available' = [v \in Variants |-> available[v] - basket[v]]
  /\ reserved' = [v \in Variants |-> reserved[v] + basket[v]]

(* UPDATE inventory ... WHERE available >= qty, for every line of a basket. *)
TryReserveStock(basket) ==
  /\ \A v \in Variants : available[v] >= basket[v]
  /\ available' = [v \in Variants |-> available[v] - basket[v]]
  /\ reserved' = [v \in Variants |-> reserved[v] + basket[v]]

(* UPDATE inventory ... WHERE reserved >= qty; no row is ErrStockConservation
   and rolls the transaction back. *)
CommitReservedStock(out) ==
  /\ \A v \in Variants : reserved[v] >= out[v]
  /\ reserved' = [v \in Variants |-> reserved[v] - out[v]]
  /\ UNCHANGED available

ReleaseReservedStock(back) ==
  /\ \A v \in Variants : reserved[v] >= back[v]
  /\ available' = [v \in Variants |-> available[v] + back[v]]
  /\ reserved' = [v \in Variants |-> reserved[v] - back[v]]

CreateReservations(o, basket) ==
  reservation' = [l \in Lines |->
    IF l[1] = o /\ basket[l[2]] > 0
      THEN [qty |-> basket[l[2]], status |-> "held"]
      ELSE reservation[l]]

(* UPDATE reservations ... WHERE status = 'held'. *)
MarkReservations(o, vs, outcome) ==
  /\ \A v \in vs : Held(<<o, v>>)
  /\ reservation' = [l \in Lines |->
       IF l[1] = o /\ l[2] \in vs
         THEN [qty |-> reservation[l].qty, status |-> outcome]
         ELSE reservation[l]]

(* One journal row for each of the variants vs. *)
InsertLedger(vs, deltaAvailable, deltaReserved) ==
  ledger' = [v \in Variants |->
    IF v \in vs
      THEN [available |-> ledger[v].available + deltaAvailable[v],
            reserved  |-> ledger[v].reserved + deltaReserved[v],
            entries   |-> ledger[v].entries + 1]
      ELSE ledger[v]]

Negated(delta) == [v \in Variants |-> -delta[v]]

(* What the reservations of order o on the variants vs hold. *)
QtyHeld(o, vs) ==
  [v \in Variants |-> IF v \in vs THEN reservation[<<o, v>>].qty ELSE 0]

----------------------------------------------------------------------------
(* The engine: reserve, commit and release, for lines of one order that one
   transaction treats together *)

Reserve(o, basket) ==
  /\ basket # Nothing
  /\ \A v \in Variants : reservation[<<o, v>>] = NoReservation
  /\ TryReserveStock(basket)
  /\ CreateReservations(o, basket)
  /\ InsertLedger({v \in Variants : basket[v] > 0}, Negated(basket), basket)

Commit(o, vs) ==
  LET out == QtyHeld(o, vs) IN
  /\ vs # {}
  /\ MarkReservations(o, vs, "committed")
  /\ CommitReservedStock(out)
  /\ InsertLedger(vs, Nothing, Negated(out))

Release(o, vs, outcome) ==
  LET back == QtyHeld(o, vs) IN
  /\ vs # {}
  /\ MarkReservations(o, vs, outcome)
  /\ ReleaseReservedStock(back)
  /\ InsertLedger(vs, back, Negated(back))

----------------------------------------------------------------------------
(* The service's transactions *)

ReserveInTx(o, basket) == Reserve(o, basket) /\ UNCHANGED sweepVars
CommitInTx(o, vs) == Commit(o, vs) /\ UNCHANGED sweepVars
ReleaseInTx(o, vs) == Release(o, vs, "released") /\ UNCHANGED sweepVars

(* The clock passes a reservation's expires_at. *)
DeadlinePasses(l) ==
  /\ reservation[l].status # "none"
  /\ l \notin overdue
  /\ overdue' = overdue \cup {l}
  /\ UNCHANGED <<stockVars, expiring>>

(* Mutant: the list query forgets expires_at. *)
ListExpiredEarly(s) ==
  /\ expiring[s] = {}
  /\ \E l \in Lines : Held(l) /\ expiring' = [expiring EXCEPT ![s] = {l}]
  /\ UNCHANGED <<stockVars, overdue>>

(* ReleaseExpired starts: it lists overdue held rows, at most the limit. *)
ListExpired(s) ==
  LET due == {l \in overdue : Held(l)} IN
  /\ expiring[s] = {}
  /\ \E batch \in SUBSET due :
       /\ batch # {}
       /\ \/ Cardinality(batch) = SweepLimit
          \/ batch = due /\ Cardinality(due) < SweepLimit
       /\ expiring' = [expiring EXCEPT ![s] = batch]
  /\ UNCHANGED <<stockVars, overdue>>

(* The next listed row is still held: release it, in its own transaction. *)
ExpireListed(s, l) ==
  /\ l \in expiring[s]
  /\ Release(l[1], {l[2]}, "expired")
  /\ expiring' = [expiring EXCEPT ![s] = @ \ {l}]
  /\ UNCHANGED overdue

(* The next listed row was settled since: MarkReservation finds no row. *)
SkipListed(s, l) ==
  /\ l \in expiring[s]
  /\ ~Held(l)
  /\ expiring' = [expiring EXCEPT ![s] = @ \ {l}]
  /\ UNCHANGED <<stockVars, overdue>>

(* Any other error ends ReleaseExpired and drops the rest of its list. *)
SweepFails(s) ==
  /\ expiring[s] # {}
  /\ expiring' = [expiring EXCEPT ![s] = {}]
  /\ UNCHANGED <<stockVars, overdue>>

SweepStep(s) ==
  \/ ListExpired(s)
  \/ \E l \in Lines : ExpireListed(s, l) \/ SkipListed(s, l)
  \/ SweepFails(s)

----------------------------------------------------------------------------
Init ==
  /\ available = InitialStock
  /\ reserved = Nothing
  /\ reservation = [l \in Lines |-> NoReservation]
  /\ ledger = [v \in Variants |-> [available |-> 0, reserved |-> 0, entries |-> 0]]
  /\ overdue = {}
  /\ expiring = [s \in Sweepers |-> {}]

Next ==
  \/ \E o \in Orders, basket \in Basket : ReserveInTx(o, basket)
  \/ \E o \in Orders, vs \in SUBSET Variants : CommitInTx(o, vs) \/ ReleaseInTx(o, vs)
  \/ \E l \in Lines : DeadlinePasses(l)
  \/ \E s \in Sweepers : SweepStep(s)

Spec == Init /\ [][Next]_inventoryVars

----------------------------------------------------------------------------
(* Properties *)

TypeOK ==
  /\ available \in [Variants -> Nat]
  /\ reserved \in [Variants -> Nat]
  /\ reservation \in [Lines -> Reservation]
  /\ ledger \in [Variants -> Posting]
  /\ overdue \in SUBSET Lines
  /\ expiring \in [Sweepers -> SUBSET Lines]

(* The orders whose reservation of variant v has a status in S, and the units
   of the variant that those reservations account for. *)
Holders(v, S) == {o \in Orders : reservation[<<o, v>>].status \in S}
Units(v, S) ==
  {u \in Orders \X (1..MaxQty) :
     /\ reservation[<<u[1], v>>].status \in S
     /\ u[2] <= reservation[<<u[1], v>>].qty}

(* The reserved count of a variant is the sum of its held reservations,
   whoever commits, releases or expires them and in whatever order
   (engine.go: reserve, commit, release). *)
ReservedIsHeld ==
  \A v \in Variants : reserved[v] = Cardinality(Units(v, {"held"}))

(* No unit is created, lost or sold twice: what is on sale, what is reserved
   and what was sold add up to the initial stock. *)
StockConserved ==
  \A v \in Variants :
    available[v] + reserved[v] + Cardinality(Units(v, {"committed"})) = InitialStock[v]

(* The journal reconciles with the counters (ReconcileLedger), and holds one
   entry for each reservation made and one for each reservation settled. *)
LedgerReconciles ==
  \A v \in Variants :
    /\ ledger[v].available = available[v] - InitialStock[v]
    /\ ledger[v].reserved = reserved[v]
    /\ ledger[v].entries = Cardinality(Holders(v, {"held"} \cup Outcome))
                         + Cardinality(Holders(v, Outcome))

(* A reservation expires only after its deadline, however old the list the
   sweeper works from. *)
ExpiredOnlyOverdue ==
  \A l \in Lines : reservation[l].status = "expired" => l \in overdue

(* The first writer wins: the outcome of a reservation is final and a held
   row keeps its quantity (MarkReservation only touches held rows). *)
FirstWriterWins ==
  [][\A l \in Lines :
       /\ reservation[l].status \in Outcome => reservation'[l] = reservation[l]
       /\ Held(l) => reservation'[l].qty = reservation[l].qty
                     /\ reservation'[l].status # "none"]_inventoryVars
=============================================================================
