-------------------------- MODULE InventoryProofs --------------------------
(***************************************************************************)
(* What the reservation engine keeps for any number of orders, variants    *)
(* and sweepers and any initial stock.  The counters are tied to the       *)
(* reservation rows by counting units, so the proof rests on one fact      *)
(* about cardinalities: changing one order's row of a variant changes the  *)
(* number of units by what that row held before and holds after.           *)
(***************************************************************************)
EXTENDS Inventory, FiniteSetTheorems, TLAPS

(* Units and Holders as functions of the reservations table. *)
UnitsIn(f, v, S) ==
  {u \in Orders \X (1..MaxQty) : /\ f[<<u[1], v>>].status \in S
                                 /\ u[2] <= f[<<u[1], v>>].qty}

HoldersIn(f, v, S) == {o \in Orders : f[<<o, v>>].status \in S}

(* The units of the orders other than o. *)
OthersIn(f, v, S, o) == {u \in UnitsIn(f, v, S) : u[1] # o}

(* The units of one row, counted only when its status is in S. *)
QtyIn(r, S) == IF r.status \in S THEN r.qty ELSE 0
OneIn(r, S) == IF r.status \in S THEN 1 ELSE 0

(* The set of units is finite, so its cardinality is a natural number. *)
LEMMA UnitsFinite ==
  ASSUME NEW f, NEW v, NEW S
  PROVE  /\ IsFiniteSet(UnitsIn(f, v, S))
         /\ Cardinality(UnitsIn(f, v, S)) \in Nat
<1>1. IsFiniteSet(1..MaxQty)
  BY ConstantsAssumption, FS_Interval
<1>2. IsFiniteSet(Orders \X (1..MaxQty))
  BY <1>1, ConstantsAssumption, FS_Product
<1>3. UnitsIn(f, v, S) \in SUBSET (Orders \X (1..MaxQty))
  BY DEF UnitsIn
<1>4. IsFiniteSet(UnitsIn(f, v, S))
  BY <1>2, <1>3, FS_Subset
<1>. QED  BY <1>4, FS_CardinalityType

(* One row of q units stands for q pairs. *)
LEMMA RowUnits ==
  ASSUME NEW o, NEW q \in 0..MaxQty
  PROVE  /\ IsFiniteSet({o} \X (1..q))
         /\ Cardinality({o} \X (1..q)) = q
<1>. q \in Nat  BY ConstantsAssumption
<1>1. IsFiniteSet({o}) /\ Cardinality({o}) = 1
  BY FS_Singleton
<1>2. IsFiniteSet(1..q) /\ Cardinality(1..q) = q
  BY FS_Interval
<1>3. IsFiniteSet({o} \X (1..q)) /\ Cardinality({o} \X (1..q)) = 1 * q
  BY <1>1, <1>2, FS_Product
<1>. QED  BY <1>3

(* The units of a variant are those of one order's row and those of the
   other orders. *)
LEMMA UnitsSplit ==
  ASSUME NEW f \in [Lines -> Reservation], NEW v \in Variants, NEW S,
         NEW o \in Orders
  PROVE  /\ Cardinality(OthersIn(f, v, S, o)) \in Nat
         /\ QtyIn(f[<<o, v>>], S) \in Nat
         /\ Cardinality(UnitsIn(f, v, S))
              = Cardinality(OthersIn(f, v, S, o)) + QtyIn(f[<<o, v>>], S)
<1>. DEFINE others == OthersIn(f, v, S, o)
            q == f[<<o, v>>].qty
            own == IF f[<<o, v>>].status \in S THEN {o} \X (1..q) ELSE {}
<1>1. f[<<o, v>>] \in Reservation
  BY DEF Lines
<1>2. q \in 0..MaxQty
  BY <1>1 DEF Reservation
<1>3. IsFiniteSet(others) /\ Cardinality(others) \in Nat
  BY UnitsFinite, FS_Subset, FS_CardinalityType, others \in SUBSET UnitsIn(f, v, S)
     DEF OthersIn
<1>4. IsFiniteSet(own) /\ Cardinality(own) = QtyIn(f[<<o, v>>], S)
  BY <1>2, RowUnits, FS_EmptySet DEF QtyIn
<1>5. UnitsIn(f, v, S) = others \cup own
  BY <1>2, ConstantsAssumption DEF UnitsIn, OthersIn
<1>6. others \cap own = {}
  BY DEF OthersIn
<1>7. Cardinality(UnitsIn(f, v, S))
        = Cardinality(others) + Cardinality(own) - Cardinality({})
  BY <1>3, <1>4, <1>5, <1>6, FS_Union
<1>8. Cardinality(own) \in Nat
  BY <1>4, FS_CardinalityType
<1>. QED  BY <1>3, <1>4, <1>7, <1>8, FS_EmptySet

(* Changing one order's row of a variant changes the units of the variant by
   what the row held before and holds after. *)
LEMMA UnitsChange ==
  ASSUME NEW f \in [Lines -> Reservation], NEW g \in [Lines -> Reservation],
         NEW v \in Variants, NEW S, NEW o \in Orders,
         \A p \in Orders : p # o => g[<<p, v>>] = f[<<p, v>>]
  PROVE  Cardinality(UnitsIn(g, v, S)) + QtyIn(f[<<o, v>>], S)
           = Cardinality(UnitsIn(f, v, S)) + QtyIn(g[<<o, v>>], S)
<1>1. OthersIn(f, v, S, o) = OthersIn(g, v, S, o)
  BY DEF OthersIn, UnitsIn
<1>. QED  BY <1>1, UnitsSplit

(* The same for the number of orders that have a row with a status in S. *)
LEMMA HoldersChange ==
  ASSUME NEW f, NEW g, NEW v, NEW S, NEW o \in Orders,
         \A p \in Orders : p # o => g[<<p, v>>] = f[<<p, v>>]
  PROVE  /\ Cardinality(HoldersIn(f, v, S)) \in Nat
         /\ Cardinality(HoldersIn(g, v, S)) \in Nat
         /\ Cardinality(HoldersIn(g, v, S)) + OneIn(f[<<o, v>>], S)
              = Cardinality(HoldersIn(f, v, S)) + OneIn(g[<<o, v>>], S)
<1>. DEFINE others == HoldersIn(f, v, S) \ {o}
<1>1. IsFiniteSet(HoldersIn(f, v, S)) /\ IsFiniteSet(HoldersIn(g, v, S))
  BY ConstantsAssumption, FS_Subset, HoldersIn(f, v, S) \in SUBSET Orders,
     HoldersIn(g, v, S) \in SUBSET Orders DEF HoldersIn
<1>2. /\ Cardinality(HoldersIn(f, v, S)) \in Nat
      /\ Cardinality(HoldersIn(g, v, S)) \in Nat
  BY <1>1, FS_CardinalityType
<1>3. others = HoldersIn(g, v, S) \ {o}
  BY DEF HoldersIn
<1>4. /\ o \in HoldersIn(f, v, S) <=> f[<<o, v>>].status \in S
      /\ o \in HoldersIn(g, v, S) <=> g[<<o, v>>].status \in S
  BY DEF HoldersIn
<1>5. Cardinality(others) = IF o \in HoldersIn(f, v, S)
        THEN Cardinality(HoldersIn(f, v, S)) - 1 ELSE Cardinality(HoldersIn(f, v, S))
  BY <1>1, FS_RemoveElement, Zenon
<1>6. Cardinality(others) = IF o \in HoldersIn(g, v, S)
        THEN Cardinality(HoldersIn(g, v, S)) - 1 ELSE Cardinality(HoldersIn(g, v, S))
  BY <1>1, <1>3, FS_RemoveElement, Zenon
<1>. HIDE DEF others
<1>. QED  BY <1>2, <1>4, <1>5, <1>6 DEF OneIn

----------------------------------------------------------------------------
(* Type correctness *)

(* The effect of the transactions on the types of the stock variables. *)
LEMMA ReserveType ==
  ASSUME TypeOK, NEW o \in Orders, NEW basket \in Basket, Reserve(o, basket)
  PROVE  /\ available' \in [Variants -> Nat]
         /\ reserved' \in [Variants -> Nat]
         /\ reservation' \in [Lines -> Reservation]
         /\ ledger' \in [Variants -> Posting]
<1>1. \A v \in Variants : basket[v] \in Nat /\ basket[v] \in 0..MaxQty
  BY ConstantsAssumption DEF Basket
<1>2. /\ available' \in [Variants -> Nat]
      /\ reserved' \in [Variants -> Nat]
  BY <1>1 DEF TypeOK, Reserve, TryReserveStock
<1>3. \A l \in Lines : l[2] \in Variants
  BY DEF Lines
<1>4. reservation' \in [Lines -> Reservation]
  BY <1>1, <1>3 DEF TypeOK, Reserve, CreateReservations, Reservation, Status
<1>5. ledger' \in [Variants -> Posting]
  BY <1>1 DEF TypeOK, Reserve, InsertLedger, Negated, Posting
<1>. QED  BY <1>2, <1>4, <1>5

LEMMA QtyHeldType ==
  ASSUME TypeOK, NEW o \in Orders, NEW vs \in SUBSET Variants
  PROVE  QtyHeld(o, vs) \in [Variants -> Nat]
<1>1. \A v \in Variants : reservation[<<o, v>>] \in Reservation
  BY DEF TypeOK, Lines
<1>2. \A v \in Variants : reservation[<<o, v>>].qty \in Nat
  BY <1>1, ConstantsAssumption DEF Reservation
<1>. QED  BY <1>2 DEF QtyHeld

LEMMA MarkType ==
  ASSUME TypeOK, NEW o, NEW vs, NEW outcome \in Outcome,
         MarkReservations(o, vs, outcome)
  PROVE  reservation' \in [Lines -> Reservation]
BY DEF TypeOK, MarkReservations, Reservation, Status

LEMMA CommitType ==
  ASSUME TypeOK, NEW o \in Orders, NEW vs \in SUBSET Variants, Commit(o, vs)
  PROVE  /\ available' \in [Variants -> Nat]
         /\ reserved' \in [Variants -> Nat]
         /\ reservation' \in [Lines -> Reservation]
         /\ ledger' \in [Variants -> Posting]
<1>. DEFINE out == QtyHeld(o, vs)
<1>1. out \in [Variants -> Nat]
  BY QtyHeldType
<1>2. /\ MarkReservations(o, vs, "committed")
      /\ CommitReservedStock(out)
      /\ InsertLedger(vs, Nothing, Negated(out))
  BY DEF Commit
<1>3. reservation' \in [Lines -> Reservation]
  BY <1>2, MarkType DEF Outcome
<1>. HIDE DEF out
<1>4. /\ available' \in [Variants -> Nat]
      /\ reserved' \in [Variants -> Nat]
  BY <1>1, <1>2 DEF TypeOK, CommitReservedStock
<1>5. ledger' \in [Variants -> Posting]
  BY <1>1, <1>2 DEF TypeOK, InsertLedger, Nothing, Negated, Posting
<1>. QED  BY <1>3, <1>4, <1>5

LEMMA ReleaseType ==
  ASSUME TypeOK, NEW o \in Orders, NEW vs \in SUBSET Variants,
         NEW outcome \in Outcome, Release(o, vs, outcome)
  PROVE  /\ available' \in [Variants -> Nat]
         /\ reserved' \in [Variants -> Nat]
         /\ reservation' \in [Lines -> Reservation]
         /\ ledger' \in [Variants -> Posting]
<1>. DEFINE back == QtyHeld(o, vs)
<1>1. back \in [Variants -> Nat]
  BY QtyHeldType
<1>2. /\ MarkReservations(o, vs, outcome)
      /\ ReleaseReservedStock(back)
      /\ InsertLedger(vs, back, Negated(back))
  BY DEF Release
<1>3. reservation' \in [Lines -> Reservation]
  BY <1>2, MarkType
<1>. HIDE DEF back
<1>4. /\ available' \in [Variants -> Nat]
      /\ reserved' \in [Variants -> Nat]
  BY <1>1, <1>2 DEF TypeOK, ReleaseReservedStock
<1>5. ledger' \in [Variants -> Posting]
  BY <1>1, <1>2 DEF TypeOK, InsertLedger, Negated, Posting
<1>. QED  BY <1>3, <1>4, <1>5

LEMMA TypeInit == Init => TypeOK
<1>. SUFFICES ASSUME Init PROVE TypeOK
  OBVIOUS
<1>1. available \in [Variants -> Nat] /\ reserved \in [Variants -> Nat]
  BY ConstantsAssumption DEF Init, Nothing
<1>2. reservation \in [Lines -> Reservation]
  BY ConstantsAssumption DEF Init, NoReservation, Reservation, Status
<1>3. ledger \in [Variants -> Posting]
  BY DEF Init, Posting
<1>. QED  BY <1>1, <1>2, <1>3 DEF Init, TypeOK

LEMMA TypeStep == TypeOK /\ [Next]_inventoryVars => TypeOK'
<1>. SUFFICES ASSUME TypeOK, [Next]_inventoryVars PROVE TypeOK'
  OBVIOUS
<1>1. ASSUME NEW o \in Orders, NEW basket \in Basket, ReserveInTx(o, basket)
      PROVE  TypeOK'
  BY <1>1, ReserveType DEF ReserveInTx, sweepVars, TypeOK
<1>2. ASSUME NEW o \in Orders, NEW vs \in SUBSET Variants, CommitInTx(o, vs)
      PROVE  TypeOK'
  BY <1>2, CommitType DEF CommitInTx, sweepVars, TypeOK
<1>3. ASSUME NEW o \in Orders, NEW vs \in SUBSET Variants, ReleaseInTx(o, vs)
      PROVE  TypeOK'
  BY <1>3, ReleaseType DEF ReleaseInTx, sweepVars, TypeOK, Outcome
<1>4. ASSUME NEW l \in Lines, DeadlinePasses(l)
      PROVE  TypeOK'
  BY <1>4 DEF DeadlinePasses, stockVars, TypeOK
<1>5. ASSUME NEW s \in Sweepers, ListExpired(s)
      PROVE  TypeOK'
  BY <1>5 DEF ListExpired, stockVars, TypeOK
<1>6. ASSUME NEW s \in Sweepers, NEW l \in Lines, ExpireListed(s, l)
      PROVE  TypeOK'
  <2>1. l[1] \in Orders /\ {l[2]} \in SUBSET Variants
    BY DEF Lines
  <2>. QED  BY <1>6, <2>1, ReleaseType DEF ExpireListed, TypeOK, Outcome
<1>7. ASSUME NEW s \in Sweepers, NEW l \in Lines, SkipListed(s, l)
      PROVE  TypeOK'
  BY <1>7 DEF SkipListed, stockVars, TypeOK
<1>8. ASSUME NEW s \in Sweepers, SweepFails(s)
      PROVE  TypeOK'
  BY <1>8 DEF SweepFails, stockVars, TypeOK
<1>9. CASE UNCHANGED inventoryVars
  BY <1>9 DEF inventoryVars, TypeOK
<1>. QED  BY <1>1, <1>2, <1>3, <1>4, <1>5, <1>6, <1>7, <1>8, <1>9 DEF Next, SweepStep

(* The counters stay natural numbers: no interleaving of reservations,
   settlements and sweeps oversells a variant or drives a count below zero. *)
THEOREM TypeCorrect == Spec => []TypeOK
BY TypeInit, TypeStep, PTL DEF Spec

----------------------------------------------------------------------------
(* Conservation *)

(* What the counters and the journal of one variant have to agree on. *)
Booked(v) ==
  /\ reserved[v] = Cardinality(UnitsIn(reservation, v, {"held"}))
  /\ available[v] + reserved[v] + Cardinality(UnitsIn(reservation, v, {"committed"}))
       = InitialStock[v]
  /\ ledger[v].available = available[v] - InitialStock[v]
  /\ ledger[v].reserved = reserved[v]
  /\ ledger[v].entries = Cardinality(HoldersIn(reservation, v, {"held"} \cup Outcome))
                       + Cardinality(HoldersIn(reservation, v, Outcome))

Conservation == ReservedIsHeld /\ StockConserved /\ LedgerReconciles

LEMMA ConservationIsBooked == Conservation <=> \A v \in Variants : Booked(v)
BY DEF Conservation, ReservedIsHeld, StockConserved, LedgerReconciles, Booked,
       Units, UnitsIn, Holders, HoldersIn

LEMMA ConservationIsBookedNext == Conservation' <=> (\A v \in Variants : Booked(v))'
BY DEF Conservation, ReservedIsHeld, StockConserved, LedgerReconciles, Booked,
       Units, UnitsIn, Holders, HoldersIn

(* A step changes, of the rows of v, only that of order o, and moves the
   counters and the journal by what the row gives up and takes on. *)
RowMoves(v, o) ==
  LET r == reservation[<<o, v>>]
      n == reservation'[<<o, v>>] IN
  /\ \A p \in Orders : p # o => reservation'[<<p, v>>] = reservation[<<p, v>>]
  /\ reserved'[v] + QtyIn(r, {"held"}) = reserved[v] + QtyIn(n, {"held"})
  /\ available'[v] + reserved'[v] + QtyIn(n, {"committed"})
       = available[v] + reserved[v] + QtyIn(r, {"committed"})
  /\ ledger'[v].available + available[v] = ledger[v].available + available'[v]
  /\ ledger'[v].reserved + reserved[v] = ledger[v].reserved + reserved'[v]
  /\ ledger'[v].entries + OneIn(r, {"held"} \cup Outcome) + OneIn(r, Outcome)
       = ledger[v].entries + OneIn(n, {"held"} \cup Outcome) + OneIn(n, Outcome)

(* Such a step keeps v booked. *)
LEMMA RowStep ==
  ASSUME NEW v \in Variants, NEW o \in Orders, TypeOK, TypeOK', Booked(v),
         RowMoves(v, o)
  PROVE  Booked(v)'
<1>. DEFINE Q(f, S) == Cardinality(UnitsIn(f, v, S))
            H(f, S) == Cardinality(HoldersIn(f, v, S))
            r == reservation[<<o, v>>]
            n == reservation'[<<o, v>>]
<1>1. reservation \in [Lines -> Reservation] /\ reservation' \in [Lines -> Reservation]
  BY DEF TypeOK
<1>2. \A S : Q(reservation, S) \in Nat /\ Q(reservation', S) \in Nat
  BY UnitsFinite
<1>3. \A S : Q(reservation', S) + QtyIn(r, S) = Q(reservation, S) + QtyIn(n, S)
  BY <1>1, UnitsChange DEF RowMoves
<1>4. \A S : /\ H(reservation, S) \in Nat
             /\ H(reservation', S) \in Nat
             /\ H(reservation', S) + OneIn(r, S) = H(reservation, S) + OneIn(n, S)
  BY HoldersChange DEF RowMoves
<1>5. \A S : /\ QtyIn(n, S) \in Nat /\ QtyIn(r, S) \in Nat
             /\ OneIn(n, S) \in Nat /\ OneIn(r, S) \in Nat
  BY <1>1, UnitsSplit DEF OneIn
<1>6. /\ available[v] \in Nat /\ available'[v] \in Nat
      /\ reserved[v] \in Nat /\ reserved'[v] \in Nat
      /\ InitialStock[v] \in Nat
  BY ConstantsAssumption DEF TypeOK
<1>7. /\ ledger[v] \in Posting /\ ledger'[v] \in Posting
  BY DEF TypeOK
<1>8. /\ ledger[v].available \in Int /\ ledger'[v].available \in Int
      /\ ledger[v].reserved \in Int /\ ledger'[v].reserved \in Int
      /\ ledger[v].entries \in Nat /\ ledger'[v].entries \in Nat
  BY <1>7 DEF Posting
<1>9. /\ reserved[v] = Q(reservation, {"held"})
      /\ available[v] + reserved[v] + Q(reservation, {"committed"}) = InitialStock[v]
      /\ ledger[v].available = available[v] - InitialStock[v]
      /\ ledger[v].reserved = reserved[v]
      /\ ledger[v].entries = H(reservation, {"held"} \cup Outcome) + H(reservation, Outcome)
  BY DEF Booked
<1>10. /\ reserved'[v] + QtyIn(r, {"held"}) = reserved[v] + QtyIn(n, {"held"})
       /\ available'[v] + reserved'[v] + QtyIn(n, {"committed"})
            = available[v] + reserved[v] + QtyIn(r, {"committed"})
       /\ ledger'[v].available + available[v] = ledger[v].available + available'[v]
       /\ ledger'[v].reserved + reserved[v] = ledger[v].reserved + reserved'[v]
       /\ ledger'[v].entries + OneIn(r, {"held"} \cup Outcome) + OneIn(r, Outcome)
            = ledger[v].entries + OneIn(n, {"held"} \cup Outcome) + OneIn(n, Outcome)
  BY DEF RowMoves
<1>. HIDE DEF Q, H, r, n
<1>11. reserved'[v] = Q(reservation', {"held"})
  <2>. DEFINE before == Q(reservation, {"held"})
              after == Q(reservation', {"held"})
              gone == QtyIn(r, {"held"})
              come == QtyIn(n, {"held"})
              new == reserved'[v]
  <2>1. /\ before \in Nat /\ after \in Nat /\ gone \in Nat /\ come \in Nat
        /\ after + gone = before + come
    BY <1>2, <1>3, <1>5
  <2>2. new + gone = before + come /\ new \in Nat
    BY <1>6, <1>9, <1>10
  <2>. HIDE DEF before, after, gone, come, new
  <2>3. new = after
    BY <2>1, <2>2
  <2>. QED  BY <2>3 DEF new, after
<1>12. available'[v] + reserved'[v] + Q(reservation', {"committed"}) = InitialStock[v]
  <2>. DEFINE before == Q(reservation, {"committed"})
              after == Q(reservation', {"committed"})
              gone == QtyIn(r, {"committed"})
              come == QtyIn(n, {"committed"})
              old == available[v] + reserved[v]
              new == available'[v] + reserved'[v]
              all == InitialStock[v]
  <2>1. /\ before \in Nat /\ after \in Nat /\ gone \in Nat /\ come \in Nat
        /\ after + gone = before + come
    BY <1>2, <1>3, <1>5
  <2>2. old + before = all /\ new + come = old + gone
    BY <1>9, <1>10
  <2>3. old \in Nat /\ new \in Nat /\ all \in Nat
    BY <1>6
  <2>. HIDE DEF before, after, gone, come, old, new, all
  <2>4. new + after = all
    BY <2>1, <2>2, <2>3
  <2>. QED  BY <2>4 DEF after, new, all
<1>13. /\ ledger'[v].available = available'[v] - InitialStock[v]
       /\ ledger'[v].reserved = reserved'[v]
  BY <1>6, <1>8, <1>9, <1>10
<1>14. ledger'[v].entries = H(reservation', {"held"} \cup Outcome) + H(reservation', Outcome)
  <2>. DEFINE a0 == H(reservation, {"held"} \cup Outcome)
              a1 == H(reservation', {"held"} \cup Outcome)
              b0 == H(reservation, Outcome)
              b1 == H(reservation', Outcome)
              ra == OneIn(r, {"held"} \cup Outcome)
              na == OneIn(n, {"held"} \cup Outcome)
              rb == OneIn(r, Outcome)
              nb == OneIn(n, Outcome)
              old == ledger[v].entries
              new == ledger'[v].entries
  <2>1. /\ a0 \in Nat /\ a1 \in Nat /\ b0 \in Nat /\ b1 \in Nat
        /\ ra \in Nat /\ na \in Nat /\ rb \in Nat /\ nb \in Nat
        /\ a1 + ra = a0 + na
        /\ b1 + rb = b0 + nb
    BY <1>4, <1>5
  <2>2. old = a0 + b0 /\ new + ra + rb = old + na + nb /\ old \in Nat /\ new \in Nat
    BY <1>8, <1>9, <1>10
  <2>. HIDE DEF a0, a1, b0, b1, ra, na, rb, nb, old, new
  <2>3. new = a1 + b1
    BY <2>1, <2>2
  <2>. QED  BY <2>3 DEF a1, b1, new
<1>. QED  BY <1>11, <1>12, <1>13, <1>14 DEF Booked, Q, H

(* Reserving makes held rows of the basket's lines. *)
LEMMA ReserveMoves ==
  ASSUME TypeOK, NEW o \in Orders, NEW basket \in Basket, Reserve(o, basket),
         NEW v \in Variants
  PROVE  RowMoves(v, o)
<1>1. /\ reservation[<<o, v>>] = NoReservation
      /\ reservation'[<<o, v>>] = IF basket[v] > 0
           THEN [qty |-> basket[v], status |-> "held"] ELSE NoReservation
      /\ \A p \in Orders : p # o => reservation'[<<p, v>>] = reservation[<<p, v>>]
  BY DEF Reserve, CreateReservations, Lines
<1>2. /\ available'[v] = available[v] - basket[v]
      /\ reserved'[v] = reserved[v] + basket[v]
  BY DEF Reserve, TryReserveStock
<1>3. ledger'[v] = IF basket[v] > 0
        THEN [available |-> ledger[v].available + (-basket[v]),
              reserved  |-> ledger[v].reserved + basket[v],
              entries   |-> ledger[v].entries + 1]
        ELSE ledger[v]
  BY DEF Reserve, InsertLedger, Negated
<1>4. /\ basket[v] \in Nat /\ available[v] \in Nat /\ reserved[v] \in Nat
      /\ ledger[v] \in Posting
  BY ConstantsAssumption DEF TypeOK, Basket
<1>5. /\ ledger[v].available \in Int /\ ledger[v].reserved \in Int
      /\ ledger[v].entries \in Nat
  BY <1>4 DEF Posting
<1>6. CASE basket[v] > 0
  BY <1>1, <1>2, <1>3, <1>4, <1>5, <1>6
     DEF RowMoves, NoReservation, QtyIn, OneIn, Outcome
<1>7. CASE basket[v] = 0
  BY <1>1, <1>2, <1>3, <1>4, <1>5, <1>7
     DEF RowMoves, NoReservation, QtyIn, OneIn, Outcome
<1>. QED  BY <1>4, <1>6, <1>7

(* Settling takes the quantity of the marked rows from the reserved count. *)
LEMMA CommitMoves ==
  ASSUME TypeOK, NEW o \in Orders, NEW vs \in SUBSET Variants, Commit(o, vs),
         NEW v \in Variants
  PROVE  RowMoves(v, o)
<1>. DEFINE q == reservation[<<o, v>>].qty
<1>1. reservation[<<o, v>>] \in Reservation
  BY DEF TypeOK, Lines
<1>2. /\ available[v] \in Nat /\ reserved[v] \in Nat
      /\ ledger[v].available \in Int /\ ledger[v].reserved \in Int
      /\ ledger[v].entries \in Nat /\ q \in Nat
  BY <1>1, ConstantsAssumption DEF TypeOK, Posting, Reservation
<1>3. \A p \in Orders : p # o => reservation'[<<p, v>>] = reservation[<<p, v>>]
  BY DEF Commit, MarkReservations, Lines
<1>4. CASE v \in vs
  <2>1. /\ reservation[<<o, v>>].status = "held"
        /\ reservation'[<<o, v>>] = [qty |-> q, status |-> "committed"]
    BY <1>4 DEF Commit, MarkReservations, Lines, Held
  <2>2. available'[v] = available[v] /\ reserved'[v] = reserved[v] - q
    BY <1>4 DEF Commit, CommitReservedStock, QtyHeld
  <2>3. ledger'[v] = [available |-> ledger[v].available + 0,
                      reserved  |-> ledger[v].reserved + (-q),
                      entries   |-> ledger[v].entries + 1]
    BY <1>4 DEF Commit, InsertLedger, QtyHeld, Negated, Nothing
  <2>. QED
    BY <1>2, <1>3, <2>1, <2>2, <2>3 DEF RowMoves, QtyIn, OneIn, Outcome
<1>5. CASE v \notin vs
  <2>1. reservation'[<<o, v>>] = reservation[<<o, v>>]
    BY <1>5 DEF Commit, MarkReservations, Lines
  <2>2. available'[v] = available[v] /\ reserved'[v] = reserved[v] /\ ledger'[v] = ledger[v]
    BY <1>2, <1>5 DEF Commit, CommitReservedStock, InsertLedger, QtyHeld
  <2>. QED
    BY <1>2, <1>3, <2>1, <2>2 DEF RowMoves
<1>. QED  BY <1>4, <1>5

LEMMA ReleaseMoves ==
  ASSUME TypeOK, NEW o \in Orders, NEW vs \in SUBSET Variants,
         NEW outcome \in {"released", "expired"}, Release(o, vs, outcome),
         NEW v \in Variants
  PROVE  RowMoves(v, o)
<1>. DEFINE q == reservation[<<o, v>>].qty
<1>1. reservation[<<o, v>>] \in Reservation
  BY DEF TypeOK, Lines
<1>2. /\ available[v] \in Nat /\ reserved[v] \in Nat
      /\ ledger[v].available \in Int /\ ledger[v].reserved \in Int
      /\ ledger[v].entries \in Nat /\ q \in Nat
  BY <1>1, ConstantsAssumption DEF TypeOK, Posting, Reservation
<1>3. \A p \in Orders : p # o => reservation'[<<p, v>>] = reservation[<<p, v>>]
  BY DEF Release, MarkReservations, Lines
<1>4. CASE v \in vs
  <2>1. /\ reservation[<<o, v>>].status = "held"
        /\ reservation'[<<o, v>>] = [qty |-> q, status |-> outcome]
    BY <1>4 DEF Release, MarkReservations, Lines, Held
  <2>2. available'[v] = available[v] + q /\ reserved'[v] = reserved[v] - q
    BY <1>4 DEF Release, ReleaseReservedStock, QtyHeld
  <2>3. ledger'[v] = [available |-> ledger[v].available + q,
                      reserved  |-> ledger[v].reserved + (-q),
                      entries   |-> ledger[v].entries + 1]
    BY <1>4 DEF Release, InsertLedger, QtyHeld, Negated
  <2>. QED
    BY <1>2, <1>3, <2>1, <2>2, <2>3 DEF RowMoves, QtyIn, OneIn, Outcome
<1>5. CASE v \notin vs
  <2>1. reservation'[<<o, v>>] = reservation[<<o, v>>]
    BY <1>5 DEF Release, MarkReservations, Lines
  <2>2. available'[v] = available[v] /\ reserved'[v] = reserved[v] /\ ledger'[v] = ledger[v]
    BY <1>2, <1>5 DEF Release, ReleaseReservedStock, InsertLedger, QtyHeld
  <2>. QED
    BY <1>2, <1>3, <2>1, <2>2 DEF RowMoves
<1>. QED  BY <1>4, <1>5

LEMMA ConservationInit == Init => Conservation
<1>. SUFFICES ASSUME Init, NEW v \in Variants PROVE Booked(v)
  BY ConservationIsBooked
<1>1. \A o \in Orders : reservation[<<o, v>>] = NoReservation
  BY DEF Init, Lines
<1>2. /\ UnitsIn(reservation, v, {"held"}) = {}
      /\ UnitsIn(reservation, v, {"committed"}) = {}
      /\ HoldersIn(reservation, v, {"held"} \cup Outcome) = {}
      /\ HoldersIn(reservation, v, Outcome) = {}
  BY <1>1 DEF UnitsIn, HoldersIn, NoReservation, Outcome
<1>3. /\ available[v] = InitialStock[v] /\ reserved[v] = 0
      /\ ledger[v] = [available |-> 0, reserved |-> 0, entries |-> 0]
      /\ InitialStock[v] \in Nat
  BY ConstantsAssumption DEF Init, Nothing
<1>. HIDE DEF UnitsIn, HoldersIn
<1>4. Cardinality({}) = 0
  BY FS_EmptySet
<1>5. reserved[v] = Cardinality(UnitsIn(reservation, v, {"held"}))
  BY <1>2, <1>3, <1>4
<1>6. available[v] + reserved[v] + Cardinality(UnitsIn(reservation, v, {"committed"}))
        = InitialStock[v]
  <2>1. Cardinality(UnitsIn(reservation, v, {"committed"})) = 0
    BY <1>2, <1>4
  <2>. QED  BY <1>3, <2>1
<1>7. ledger[v].available = available[v] - InitialStock[v] /\ ledger[v].reserved = reserved[v]
  BY <1>3
<1>8. ledger[v].entries = Cardinality(HoldersIn(reservation, v, {"held"} \cup Outcome))
                        + Cardinality(HoldersIn(reservation, v, Outcome))
  <2>1. ledger[v].entries = 0
    BY <1>3
  <2>2. Cardinality(HoldersIn(reservation, v, {"held"} \cup Outcome)) = 0
    BY <1>2, <1>4
  <2>3. Cardinality(HoldersIn(reservation, v, Outcome)) = 0
    BY <1>2, <1>4
  <2>. QED  BY <2>1, <2>2, <2>3
<1>. QED  BY <1>5, <1>6, <1>7, <1>8 DEF Booked

(* Every transaction moves one order's rows, and each of them by what the
   counters and the journal record. *)
LEMMA ConservationStep == TypeOK /\ Conservation /\ [Next]_inventoryVars => Conservation'
<1>. SUFFICES ASSUME TypeOK, Conservation, [Next]_inventoryVars PROVE Conservation'
  OBVIOUS
<1>1. TypeOK'
  BY TypeStep
<1>2. \A v \in Variants : Booked(v)
  BY ConservationIsBooked
<1>3. ASSUME NEW o \in Orders, \A v \in Variants : RowMoves(v, o)
      PROVE  Conservation'
  BY <1>1, <1>2, <1>3, RowStep, ConservationIsBookedNext
<1>4. ASSUME UNCHANGED stockVars
      PROVE  Conservation'
  BY <1>2, <1>4, ConservationIsBookedNext DEF Booked, stockVars
<1>5. ASSUME NEW o \in Orders, NEW basket \in Basket, ReserveInTx(o, basket)
      PROVE  Conservation'
  BY <1>3, <1>5, ReserveMoves DEF ReserveInTx
<1>6. ASSUME NEW o \in Orders, NEW vs \in SUBSET Variants, CommitInTx(o, vs)
      PROVE  Conservation'
  BY <1>3, <1>6, CommitMoves DEF CommitInTx
<1>7. ASSUME NEW o \in Orders, NEW vs \in SUBSET Variants, ReleaseInTx(o, vs)
      PROVE  Conservation'
  BY <1>3, <1>7, ReleaseMoves DEF ReleaseInTx
<1>8. ASSUME NEW s \in Sweepers, NEW l \in Lines, ExpireListed(s, l)
      PROVE  Conservation'
  <2>1. l[1] \in Orders /\ {l[2]} \in SUBSET Variants
    BY DEF Lines
  <2>2. Release(l[1], {l[2]}, "expired")
    BY <1>8 DEF ExpireListed
  <2>3. \A v \in Variants : RowMoves(v, l[1])
    BY <2>1, <2>2, ReleaseMoves
  <2>. QED  BY <1>3, <2>1, <2>3
<1>9. ASSUME NEW l \in Lines, DeadlinePasses(l)
      PROVE  Conservation'
  BY <1>4, <1>9 DEF DeadlinePasses
<1>10. ASSUME NEW s \in Sweepers, NEW l \in Lines,
              ListExpired(s) \/ SkipListed(s, l) \/ SweepFails(s)
       PROVE  Conservation'
  BY <1>4, <1>10 DEF ListExpired, SkipListed, SweepFails
<1>11. ASSUME NEW s \in Sweepers, ListExpired(s) \/ SweepFails(s)
       PROVE  Conservation'
  BY <1>4, <1>11 DEF ListExpired, SweepFails
<1>12. CASE UNCHANGED inventoryVars
  BY <1>4, <1>12 DEF inventoryVars, stockVars
<1>. QED
  BY <1>5, <1>6, <1>7, <1>8, <1>9, <1>10, <1>11, <1>12 DEF Next, SweepStep

LEMMA ConservationAlways == Spec => []Conservation
<1>1. Spec => [](TypeOK /\ Conservation)
  BY TypeInit, TypeStep, ConservationInit, ConservationStep, PTL DEF Spec
<1>. QED  BY <1>1, PTL

(* No interleaving of checkouts, webhooks and sweepers loses a unit or sells
   it twice: the initial stock is on sale, reserved or sold (engine.go:
   reserve, commit, release). *)
THEOREM StockIsConserved == Spec => []StockConserved
BY ConservationAlways, PTL DEF Conservation

(* The reserved count is what the held rows hold: nobody who settles a row
   forgets the count, or takes from it twice (engine.go: commit, release). *)
THEOREM ReservedCountsHeldRows == Spec => []ReservedIsHeld
BY ConservationAlways, PTL DEF Conservation

(* ReconcileLedger finds no difference between the journal and the counters,
   after any sequence of transactions. *)
THEOREM JournalReconciles == Spec => []LedgerReconciles
BY ConservationAlways, PTL DEF Conservation

(* The reserved count covers every held row, so a commit or a release of a
   held reservation never meets ErrStockConservation (engine.go: commit,
   release). *)
HeldIsCovered == \A l \in Lines : Held(l) => reserved[l[2]] >= reservation[l].qty

(* engine.go's two checks for ErrStockConservation never fire. *)
THEOREM NoConservationError == Spec => []HeldIsCovered
<1>1. ASSUME TypeOK, Conservation, NEW o \in Orders, NEW v \in Variants, Held(<<o, v>>)
      PROVE  reserved[v] >= reservation[<<o, v>>].qty
  <2>. DEFINE units == Cardinality(UnitsIn(reservation, v, {"held"}))
              others == Cardinality(OthersIn(reservation, v, {"held"}, o))
              q == QtyIn(reservation[<<o, v>>], {"held"})
  <2>1. units = others + q /\ others \in Nat /\ q \in Nat
    BY <1>1, UnitsSplit DEF TypeOK
  <2>2. reserved[v] = units
    BY <1>1, ConservationIsBooked DEF Booked
  <2>3. q = reservation[<<o, v>>].qty
    BY <1>1 DEF Held, QtyIn
  <2>. HIDE DEF units, others, q
  <2>. QED  BY <2>1, <2>2, <2>3
<1>2. TypeOK /\ Conservation => HeldIsCovered
  BY <1>1 DEF HeldIsCovered, Lines
<1>. QED
  BY <1>2, TypeInit, TypeStep, ConservationInit, ConservationStep, PTL DEF Spec

----------------------------------------------------------------------------
(* The sweeper and the first writer *)

(* A sweeper's list holds only overdue rows, however stale it is. *)
ListedOverdue == \A s \in Sweepers : expiring[s] \subseteq overdue

LEMMA OverdueStep ==
  TypeOK /\ ListedOverdue /\ ExpiredOnlyOverdue /\ [Next]_inventoryVars
    => ListedOverdue' /\ ExpiredOnlyOverdue'
<1>. SUFFICES ASSUME TypeOK, ListedOverdue, ExpiredOnlyOverdue, [Next]_inventoryVars
              PROVE  ListedOverdue' /\ ExpiredOnlyOverdue'
  OBVIOUS
<1>. USE DEF ListedOverdue, ExpiredOnlyOverdue
<1>1. ASSUME NEW o \in Orders, NEW basket \in Basket, ReserveInTx(o, basket)
      PROVE  ListedOverdue' /\ ExpiredOnlyOverdue'
  BY <1>1 DEF ReserveInTx, Reserve, CreateReservations, sweepVars
<1>2. ASSUME NEW o \in Orders, NEW vs \in SUBSET Variants, CommitInTx(o, vs)
      PROVE  ListedOverdue' /\ ExpiredOnlyOverdue'
  BY <1>2 DEF CommitInTx, Commit, MarkReservations, sweepVars
<1>3. ASSUME NEW o \in Orders, NEW vs \in SUBSET Variants, ReleaseInTx(o, vs)
      PROVE  ListedOverdue' /\ ExpiredOnlyOverdue'
  BY <1>3 DEF ReleaseInTx, Release, MarkReservations, sweepVars
<1>4. ASSUME NEW l \in Lines, DeadlinePasses(l)
      PROVE  ListedOverdue' /\ ExpiredOnlyOverdue'
  BY <1>4 DEF DeadlinePasses, stockVars
<1>5. ASSUME NEW s \in Sweepers, ListExpired(s)
      PROVE  ListedOverdue' /\ ExpiredOnlyOverdue'
  BY <1>5 DEF ListExpired, stockVars, TypeOK
<1>6. ASSUME NEW s \in Sweepers, NEW l \in Lines, ExpireListed(s, l)
      PROVE  ListedOverdue' /\ ExpiredOnlyOverdue'
  BY <1>6 DEF ExpireListed, Release, MarkReservations, TypeOK, Lines
<1>7. ASSUME NEW s \in Sweepers, NEW l \in Lines, SkipListed(s, l)
      PROVE  ListedOverdue' /\ ExpiredOnlyOverdue'
  BY <1>7 DEF SkipListed, stockVars, TypeOK
<1>8. ASSUME NEW s \in Sweepers, SweepFails(s)
      PROVE  ListedOverdue' /\ ExpiredOnlyOverdue'
  BY <1>8 DEF SweepFails, stockVars, TypeOK
<1>9. CASE UNCHANGED inventoryVars
  BY <1>9 DEF inventoryVars
<1>. QED  BY <1>1, <1>2, <1>3, <1>4, <1>5, <1>6, <1>7, <1>8, <1>9 DEF Next, SweepStep

(* The sweeper expires a reservation only after its deadline, although it
   works from a list read outside the transaction that expires the row. *)
THEOREM ExpiryIsLate == Spec => []ExpiredOnlyOverdue
<1>1. Init => ListedOverdue /\ ExpiredOnlyOverdue
  BY DEF Init, ListedOverdue, ExpiredOnlyOverdue, NoReservation
<1>. QED  BY <1>1, TypeInit, TypeStep, OverdueStep, PTL DEF Spec

(* The outcome of a reservation is written once: whichever of webhook,
   cancellation and sweeper comes first decides it, and the others find no
   held row (MarkReservation). *)
THEOREM OutcomeIsFinal == Spec => FirstWriterWins
<1>. DEFINE Kept ==
       \A l \in Lines :
         /\ reservation[l].status \in Outcome => reservation'[l] = reservation[l]
         /\ Held(l) => reservation'[l].qty = reservation[l].qty
                       /\ reservation'[l].status # "none"
<1>1. ASSUME UNCHANGED reservation PROVE Kept
  BY <1>1 DEF Held
<1>2. ASSUME NEW o, NEW vs, NEW outcome \in Outcome, MarkReservations(o, vs, outcome)
      PROVE  Kept
  BY <1>2 DEF MarkReservations, Held, Outcome, Lines
<1>3. ASSUME NEW o \in Orders, NEW basket \in Basket, Reserve(o, basket)
      PROVE  Kept
  BY <1>3 DEF Reserve, CreateReservations, Held, Outcome, NoReservation, Lines
<1>4. ASSUME Next PROVE Kept
  <2>1. ASSUME NEW o \in Orders, NEW basket \in Basket, ReserveInTx(o, basket)
        PROVE  Kept
    BY <1>3, <2>1 DEF ReserveInTx
  <2>2. ASSUME NEW o \in Orders, NEW vs \in SUBSET Variants,
               CommitInTx(o, vs) \/ ReleaseInTx(o, vs)
        PROVE  Kept
    BY <1>2, <2>2 DEF CommitInTx, Commit, ReleaseInTx, Release, Outcome
  <2>3. ASSUME NEW l \in Lines, DeadlinePasses(l)
        PROVE  Kept
    BY <1>1, <2>3 DEF DeadlinePasses, stockVars
  <2>4. ASSUME NEW s \in Sweepers, ListExpired(s) \/ SweepFails(s)
        PROVE  Kept
    BY <1>1, <2>4 DEF ListExpired, SweepFails, stockVars
  <2>5. ASSUME NEW s \in Sweepers, NEW l \in Lines, ExpireListed(s, l)
        PROVE  Kept
    BY <1>2, <2>5 DEF ExpireListed, Release, Outcome
  <2>6. ASSUME NEW s \in Sweepers, NEW l \in Lines, SkipListed(s, l)
        PROVE  Kept
    BY <1>1, <2>6 DEF SkipListed, stockVars
  <2>. HIDE DEF Kept
  <2>. QED  BY <1>4, <2>1, <2>2, <2>3, <2>4, <2>5, <2>6 DEF Next, SweepStep
<1>5. [Next]_inventoryVars => [Kept]_inventoryVars
  BY <1>4
<1>. QED  BY <1>5, PTL DEF Spec, FirstWriterWins
=============================================================================
