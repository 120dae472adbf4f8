--------------------------- MODULE ReadingProofs ---------------------------
(***************************************************************************)
(* What holds of reading in pages.  First the page arithmetic, for every   *)
(* page and limit a client can send and for any width of int: where it is  *)
(* exact, that pages then tile the rows, and that HasNext ends on the last *)
(* page.  Then the order history, read while orders are placed and         *)
(* settled, from the invariant HistoryInv, and the catalogue, read while   *)
(* it is edited, from CatalogueInv.                                        *)
(***************************************************************************)
EXTENDS Catalogue, OrderHistory, FiniteSetTheorems, FunctionTheorems, TLAPS

----------------------------------------------------------------------------
(* The page arithmetic *)

LEMMA WrapId ==
  ASSUME NEW max \in Nat, NEW n \in 0..max
  PROVE  Wrap(n, max) = n
BY DEF Wrap

LEMMA LimitType ==
  ASSUME NEW limit \in Int
  PROVE  /\ ClampLimit(limit) \in 1..MaxLimit
         /\ limit \in 1..MaxLimit => ClampLimit(limit) = limit
<1>1. MaxLimit \in Nat /\ DefaultLimit \in 1..MaxLimit
  BY PagingAssumption
<1>. QED  BY <1>1 DEF ClampLimit

(* The skip that a page stands for. *)
Skip(page, limit) == (ClampPage(page) - 1) * ClampLimit(limit)

LEMMA SkipType ==
  ASSUME NEW page \in Int, NEW limit \in Int
  PROVE  Skip(page, limit) \in Nat
<1>1. ClampPage(page) - 1 \in Nat
  BY DEF ClampPage
<1>2. ClampLimit(limit) \in Nat
  BY LimitType, PagingAssumption
<1>. DEFINE p == ClampPage(page) - 1
            l == ClampLimit(limit)
<1>. HIDE DEF p, l
<1>3. p \in Nat /\ l \in Nat => p * l \in Nat
  OBVIOUS
<1>. QED  BY <1>1, <1>2, <1>3 DEF Skip, p, l

(* The offset is exact up to the bound and a legal OFFSET: it is neither
   negative nor above MaxOffset, for every page whose product int can hold
   (service.go of catalog and order: maxOffset). *)
THEOREM OffsetIsExact ==
  ASSUME NEW page \in Int, NEW limit \in Int, Skip(page, limit) <= IntMax
  PROVE  /\ Offset(page, limit)
              = IF Skip(page, limit) > MaxOffset THEN MaxOffset ELSE Skip(page, limit)
         /\ Offset(page, limit) \in 0..MaxOffset
<1>. DEFINE skip == Skip(page, limit)
            bounded == IF skip > MaxOffset THEN MaxOffset ELSE skip
<1>1. /\ IntMax \in Nat /\ Int32Max \in Nat /\ MaxOffset \in Nat /\ MaxOffset <= Int32Max
      /\ skip \in Nat /\ skip <= IntMax
  BY SkipType, PagingAssumption
<1>2. Wrap(skip, IntMax) = skip
  <2>1. skip \in 0..IntMax
    BY <1>1
  <2>. HIDE DEF skip
  <2>. QED  BY <1>1, <2>1, WrapId
<1>3. bounded \in 0..MaxOffset /\ bounded \in 0..Int32Max
  <2>. HIDE DEF skip
  <2>. QED  BY <1>1
<1>4. Wrap(bounded, Int32Max) = bounded
  <2>. HIDE DEF bounded
  <2>. QED  BY <1>1, <1>3, WrapId
<1>5. Offset(page, limit) = Wrap(IF Wrap(skip, IntMax) > MaxOffset THEN MaxOffset
                                 ELSE Wrap(skip, IntMax), Int32Max)
  BY DEF Offset, Skip
<1>6. Offset(page, limit) = bounded
  <2>. HIDE DEF skip
  <2>. QED  BY <1>2, <1>4, <1>5
<1>. QED  BY <1>3, <1>6

(* Below the bound the next page begins where this one ends, so two pages
   neither overlap nor leave rows out between them. *)
THEOREM PagesTile ==
  ASSUME NEW page \in Nat \ {0}, NEW limit \in Int,
         Skip(page + 1, limit) <= MaxOffset, Skip(page + 1, limit) <= IntMax
  PROVE  Offset(page + 1, limit) = Offset(page, limit) + ClampLimit(limit)
<1>. DEFINE l == ClampLimit(limit)
<1>1. l \in Nat /\ MaxOffset \in Nat /\ IntMax \in Nat
  BY LimitType, PagingAssumption
<1>2. Skip(page, limit) = (page - 1) * l /\ Skip(page + 1, limit) = page * l
  <2>1. ClampPage(page) = page /\ ClampPage(page + 1) = page + 1
    BY DEF ClampPage
  <2>2. (page + 1) - 1 = page
    OBVIOUS
  <2>. HIDE DEF l
  <2>. QED  BY <2>1, <2>2 DEF Skip, l
<1>. HIDE DEF l
<1>3. page * l = (page - 1) * l + l
  BY <1>1
<1>4. page \in Int /\ page + 1 \in Int /\ Skip(page, limit) \in Nat
  <2>1. page \in Int /\ page + 1 \in Int
    OBVIOUS
  <2>. QED  BY <2>1, SkipType
<1>5. /\ Skip(page, limit) <= MaxOffset /\ Skip(page, limit) <= IntMax
      /\ Skip(page + 1, limit) = Skip(page, limit) + l
  BY <1>1, <1>2, <1>3, <1>4
<1>6. Offset(page, limit) = Skip(page, limit)
  BY <1>1, <1>4, <1>5, OffsetIsExact
<1>7. Offset(page + 1, limit) = Skip(page + 1, limit)
  BY <1>1, <1>4, <1>5, OffsetIsExact
<1>. QED  BY <1>5, <1>6, <1>7 DEF l

(* A client that turns pages while HasNext holds, and whose limit the service
   leaves as it is, leaves no row behind: the rows of the page on which it
   stops reach the last one (Pagination.tsx; the order history repeats the
   limit it was asked for). *)
THEOREM LastPageIsLast ==
  ASSUME NEW page \in Nat \ {0}, NEW limit \in 1..MaxLimit, NEW total \in Nat,
         page * limit <= MaxOffset, page * limit <= IntMax, ~HasNext(page, limit, total)
  PROVE  total <= Offset(page, limit) + ClampLimit(limit)
<1>1. limit \in Nat /\ MaxOffset \in Nat /\ IntMax \in Nat /\ ClampLimit(limit) = limit
  BY LimitType, PagingAssumption
<1>2. Skip(page, limit) = (page - 1) * limit
  BY <1>1 DEF Skip, ClampPage
<1>3. page * limit = (page - 1) * limit + limit
  BY <1>1
<1>4. Skip(page, limit) \in Nat
  BY <1>1, SkipType
<1>5. Offset(page, limit) = Skip(page, limit)
  BY <1>1, <1>2, <1>3, <1>4, OffsetIsExact
<1>6. total <= page * limit
  BY <1>1 DEF HasNext
<1>. QED  BY <1>1, <1>2, <1>3, <1>5, <1>6

----------------------------------------------------------------------------
(* The order history: its inductive invariant *)

Begun == {o \in Placed : orders[o].created > 0}

Order == [status : {"none", "open", "undone", "pending", "settled"}, created : Nat]

Viewing == [at : {"start", "list", "count", "shown", "failed", "done"},
            page : Nat \ {0}, limit : Nat, rows : SUBSET Placed, total : Nat,
            seen : SUBSET Placed, owed : SUBSET Placed]

Detail == [at : {"idle", "items", "ok", "notFound", "failed"},
           order : Placed \cup {NoOrder}, items : SUBSET UNION {Items[o] : o \in Placed}]

(* created_at numbers the orders in the sequence of their transactions. *)
Numbered ==
  /\ orders \in [Placed -> Order]
  /\ \A o \in Placed : orders[o].status = "none" <=> orders[o].created = 0
  /\ \A o \in Placed : orders[o].created <= Cardinality(Begun)
  /\ \A o, p \in Placed : orders[o].created = orders[p].created /\ orders[o].created > 0 => o = p

(* The rows that were listed are within what the count will be. *)
PageCovered(v, u) ==
  v.at = "count" /\ v.rows # {} =>
    Offset(v.page, v.limit) + Cardinality(v.rows) <= CountOrdersByUser(u)

PageShown(v) ==
  v.at = "shown" /\ v.rows # {} => Offset(v.page, v.limit) + Cardinality(v.rows) <= v.total

(* What is owed and not yet seen stands behind the pages already read, and
   the count tells the client of it. *)
Behind(u, n, missing) == \A o \in missing : Position(o, u) > n

(* The pages that a reader may come to can all be skipped to. *)
InReach(v) == v.limit <= MaxLimit /\ Cardinality(Placed) <= MaxOffset

Walk(v, u) ==
  /\ v.at = "start" => v.page = 1 /\ v.total = 0
  /\ v.at \in {"list", "count", "shown", "done"} =>
       /\ v.limit > 0 /\ v.owed \subseteq OrdersOf(u)
       /\ v.total <= Cardinality(Placed)
       /\ InReach(v) =>
            /\ v.at \in {"list", "count"} => (v.page - 1) * v.limit <= Cardinality(Placed)
            /\ v.at = "list" => Behind(u, (v.page - 1) * v.limit, v.owed \ v.seen)
            /\ v.at = "count" => Behind(u, v.page * v.limit, v.owed \ (v.seen \cup v.rows))
            /\ v.at = "shown" => /\ Behind(u, v.page * v.limit, v.owed \ v.seen)
                                 /\ v.owed \subseteq v.seen \/ HasNext(v.page, v.limit, v.total)
            /\ v.at = "done" => v.owed \subseteq v.seen

(* An order whose items are fetched was found to be the caller's. *)
Found(d, u) ==
  /\ d.at = "items" => d.order \in OrdersOf(u)
  /\ d.at = "ok" => Buyer[d.order] = u /\ d.items = Items[d.order]

HistoryInv ==
  /\ Numbered
  /\ viewing \in [Viewers -> Viewing] /\ detail \in [Viewers -> Detail]
  /\ \A c \in Viewers :
       /\ PageCovered(viewing[c], Viewer[c]) /\ PageShown(viewing[c])
       /\ Walk(viewing[c], Viewer[c])
       /\ Found(detail[c], Viewer[c])

LEMMA OffsetInt ==
  ASSUME NEW page \in Int, NEW limit \in Int
  PROVE  Offset(page, limit) \in Int
<1>1. ASSUME NEW max \in Nat, NEW n \in Int
      PROVE  Wrap(n, max) \in Int
  <2>1. 2 * (max + 1) \in Nat \ {0} /\ n + max + 1 \in Int
    BY <1>1
  <2>2. (n + max + 1) % (2 * (max + 1)) \in Int
    BY <2>1
  <2>. QED  BY <1>1, <2>2 DEF Wrap
<1>2. Skip(page, limit) \in Int /\ IntMax \in Nat /\ Int32Max \in Nat /\ MaxOffset \in Int
  BY SkipType, PagingAssumption
<1>. DEFINE product == Wrap(Skip(page, limit), IntMax)
            bounded == IF product > MaxOffset THEN MaxOffset ELSE product
<1>3. product \in Int
  BY <1>1, <1>2
<1>4. bounded \in Int
  <2>. HIDE DEF product
  <2>. QED  BY <1>2, <1>3
<1>5. Offset(page, limit) = Wrap(bounded, Int32Max)
  BY DEF Offset, Skip
<1>. HIDE DEF bounded
<1>. QED  BY <1>1, <1>2, <1>4, <1>5

LEMMA OrdersFinite ==
  ASSUME NEW u, NEW S \in SUBSET OrdersOf(u)
  PROVE  /\ IsFiniteSet(S) /\ Cardinality(S) \in Nat
         /\ Cardinality(S) <= CountOrdersByUser(u)
         /\ CountOrdersByUser(u) \in Nat /\ CountOrdersByUser(u) <= Cardinality(Placed)
<1>1. IsFiniteSet(Placed) /\ OrdersOf(u) \in SUBSET Placed
  BY HistoryAssumption DEF OrdersOf, Visible
<1>2. IsFiniteSet(OrdersOf(u)) /\ Cardinality(OrdersOf(u)) <= Cardinality(Placed)
  BY <1>1, FS_Subset
<1>3. IsFiniteSet(S) /\ Cardinality(S) <= Cardinality(OrdersOf(u))
  BY <1>2, FS_Subset
<1>. QED  BY <1>2, <1>3, FS_CardinalityType DEF CountOrdersByUser

Newer(o, u) == {p \in OrdersOf(u) : orders[p].created > orders[o].created}

(* Positions number a user's orders from one to their count. *)
LEMMA PositionsNumber ==
  ASSUME Numbered, NEW u
  PROVE  /\ \A o \in OrdersOf(u) : Position(o, u) \in 1..CountOrdersByUser(u)
         /\ \A o, p \in OrdersOf(u) : Position(o, u) = Position(p, u) => o = p
<1>1. ASSUME NEW o \in OrdersOf(u)
      PROVE  /\ Newer(o, u) \in SUBSET OrdersOf(u) /\ o \notin Newer(o, u)
             /\ orders[o].created \in Nat /\ orders[o].created > 0 /\ o \in Placed
             /\ Position(o, u) = 1 + Cardinality(Newer(o, u))
             /\ Cardinality(Newer(o, u)) \in Nat
             /\ Cardinality(Newer(o, u)) < CountOrdersByUser(u)
  <2>1. o \in Placed /\ orders[o].status # "none"
    BY DEF OrdersOf, Visible
  <2>2. orders[o].created \in Nat /\ orders[o].created # 0
    BY <2>1 DEF Numbered, Order
  <2>3. Newer(o, u) \in SUBSET OrdersOf(u) /\ o \notin Newer(o, u)
    BY <2>2 DEF Newer
  <2>4. /\ IsFiniteSet(OrdersOf(u)) /\ Cardinality(Newer(o, u)) \in Nat
        /\ CountOrdersByUser(u) \in Nat /\ Cardinality(Newer(o, u)) <= CountOrdersByUser(u)
    BY <2>3, OrdersFinite
  <2>5. Cardinality(Newer(o, u)) # CountOrdersByUser(u)
    BY <2>3, <2>4, FS_Subset DEF CountOrdersByUser
  <2>. QED  BY <2>1, <2>2, <2>3, <2>4, <2>5 DEF Position, Newer
<1>2. ASSUME NEW o \in OrdersOf(u), NEW p \in OrdersOf(u),
             orders[o].created > orders[p].created
      PROVE  Position(o, u) < Position(p, u)
  <2>1. Newer(o, u) \in SUBSET Newer(p, u) /\ o \in Newer(p, u) /\ o \notin Newer(o, u)
    <3>1. \A q \in OrdersOf(u) : orders[q].created \in Nat
      BY <1>1
    <3>. QED  BY <1>2, <3>1 DEF Newer
  <2>2. IsFiniteSet(Newer(p, u))
    BY <1>1, OrdersFinite
  <2>3. /\ Cardinality(Newer(o, u)) <= Cardinality(Newer(p, u))
        /\ Cardinality(Newer(o, u)) # Cardinality(Newer(p, u))
    BY <2>1, <2>2, FS_Subset
  <2>4. Cardinality(Newer(o, u)) \in Nat /\ Cardinality(Newer(p, u)) \in Nat
    BY <1>1
  <2>. QED  BY <1>1, <2>3, <2>4
<1>3. ASSUME NEW o \in OrdersOf(u)
      PROVE  Position(o, u) \in 1..CountOrdersByUser(u)
  <2>1. CountOrdersByUser(u) \in Nat
    BY OrdersFinite
  <2>. QED  BY <1>1, <2>1
<1>4. ASSUME NEW o \in OrdersOf(u), NEW p \in OrdersOf(u), Position(o, u) = Position(p, u)
      PROVE  o = p
  <2>1. orders[o].created = orders[p].created
    BY <1>1, <1>2, <1>3, <1>4
  <2>. QED  BY <1>1, <2>1 DEF Numbered
<1>. QED  BY <1>3, <1>4

(* A page holds no more rows than there are from its offset on. *)
LEMMA PageFits ==
  ASSUME Numbered, NEW u, NEW limit \in Nat, NEW offset \in Int,
         ListOrdersByUser(u, limit, offset) # {}
  PROVE  offset + Cardinality(ListOrdersByUser(u, limit, offset)) <= CountOrdersByUser(u)
<1>. DEFINE rows == ListOrdersByUser(u, limit, offset)
            n == CountOrdersByUser(u)
            from == IF offset < 0 THEN 1 ELSE offset + 1
<1>1. rows \in SUBSET OrdersOf(u)
  BY DEF ListOrdersByUser
<1>2. n \in Nat /\ Cardinality(rows) \in Nat /\ Cardinality(rows) <= n
  BY <1>1, OrdersFinite
<1>3. \A o \in rows : Position(o, u) \in 1..n /\ offset < Position(o, u)
  BY PositionsNumber DEF ListOrdersByUser, Window
<1>4. \A o, p \in rows : Position(o, u) = Position(p, u) => o = p
  BY <1>1, PositionsNumber
<1>. HIDE DEF rows, n
<1>5. CASE offset < 0
  BY <1>2, <1>5 DEF rows, n
<1>6. CASE offset >= 0
  <2>. DEFINE T == (offset + 1)..n
              f == [o \in rows |-> Position(o, u)]
  <2>1. \A o \in rows : Position(o, u) \in T
    BY <1>2, <1>3, <1>6
  <2>2. f \in Injection(rows, T)
    BY <1>4, <2>1 DEF Injection, IsInjective
  <2>3. IsFiniteSet(T) /\ Cardinality(T) = IF offset + 1 > n THEN 0 ELSE n - (offset + 1) + 1
    <3>1. offset + 1 \in Int /\ n \in Int
      BY <1>2
    <3>. QED  BY <3>1, FS_Interval
  <2>4. Cardinality(rows) <= Cardinality(T)
    <3>. HIDE DEF T, f
    <3>. QED  BY <2>2, <2>3, FS_Injection
  <2>5. PICK o \in rows : offset < Position(o, u) /\ Position(o, u) \in 1..n
    BY <1>3 DEF rows
  <2>6. offset + 1 <= n
    BY <1>2, <2>5
  <2>7. Cardinality(T) = n - offset
    <3>. HIDE DEF T
    <3>. QED  BY <1>2, <2>3, <2>6
  <2>. HIDE DEF T, f
  <2>. QED  BY <1>2, <2>4, <2>7 DEF rows, n
<1>. QED  BY <1>5, <1>6

----------------------------------------------------------------------------
(* Its writers *)

(* What a writer leaves: the orders that can be listed stay, as they stand. *)
Kept ==
  \A o \in Placed :
    /\ orders[o].status \in {"pending", "settled"} => orders'[o].status \in {"pending", "settled"}
    /\ orders[o].created > 0 => orders'[o].created = orders[o].created

LEMMA BegunFinite ==
  /\ IsFiniteSet(Begun) /\ Cardinality(Begun) \in Nat
  /\ Cardinality(Begun) <= Cardinality(Placed)
<1>1. IsFiniteSet(Placed) /\ Begun \in SUBSET Placed
  BY HistoryAssumption DEF Begun
<1>2. IsFiniteSet(Begun) /\ Cardinality(Begun) <= Cardinality(Placed)
  BY <1>1, FS_Subset
<1>. QED  BY <1>2, FS_CardinalityType

LEMMA BeginStep ==
  ASSUME Numbered, NEW o \in Placed, BeginOrder(o)
  PROVE  Numbered' /\ Kept
<1>. DEFINE n == Cardinality(Begun)
<1>0. n \in Nat /\ IsFiniteSet(Begun)
  BY BegunFinite
<1>1. /\ orders[o].status = "none" /\ orders[o].created = 0
      /\ orders' = [orders EXCEPT ![o] = [status |-> "open", created |-> 1 + n]]
  BY DEF BeginOrder, Begun, Numbered
<1>2. /\ orders'[o].status = "open" /\ orders'[o].created = 1 + n
      /\ \A p \in Placed : p # o => orders'[p] = orders[p]
      /\ \A p \in Placed : orders[p].created \in Nat /\ orders[p].created <= n
      /\ orders' \in [Placed -> Order]
  <2>1. [status |-> "open", created |-> 1 + n] \in Order
    BY <1>0 DEF Order
  <2>2. \A p \in Placed : orders[p].created \in Nat /\ orders[p].created <= n
    BY DEF Numbered, Order
  <2>. HIDE DEF n
  <2>. QED  BY <1>1, <2>1, <2>2 DEF Numbered
<1>. HIDE DEF n
<1>3. Begun' = Begun \cup {o} /\ o \notin Begun
  BY <1>0, <1>1, <1>2 DEF Begun
<1>4. Cardinality(Begun') = 1 + n
  BY <1>0, <1>3, FS_AddElement DEF n
<1>5. (\A p \in Placed : orders[p].status = "none" <=> orders[p].created = 0)'
  BY <1>0, <1>2 DEF Numbered
<1>6. (\A p \in Placed : orders[p].created <= Cardinality(Begun))'
  BY <1>0, <1>2, <1>4
<1>7. (\A p, q \in Placed : orders[p].created = orders[q].created /\ orders[p].created > 0 => p = q)'
  BY <1>0, <1>2 DEF Numbered
<1>8. Kept
  BY <1>1, <1>2 DEF Kept
<1>. QED  BY <1>2, <1>5, <1>6, <1>7, <1>8 DEF Numbered

(* An order that ends or is settled changes its status only. *)
LEMMA StatusStep ==
  ASSUME Numbered, NEW o \in Placed, NEW status \in {"undone", "pending", "settled"},
         orders[o].status # "none",
         orders[o].status = "pending" => status = "settled",
         orders[o].status # "settled",
         orders' = [orders EXCEPT ![o].status = status]
  PROVE  Numbered' /\ Kept
<1>1. /\ orders'[o].status = status
      /\ \A p \in Placed : orders'[p].created = orders[p].created
      /\ \A p \in Placed : p # o => orders'[p].status = orders[p].status
      /\ orders' \in [Placed -> Order]
  BY DEF Numbered, Order
<1>2. Begun' = Begun
  BY <1>1 DEF Begun
<1>3. (\A p \in Placed : orders[p].status = "none" <=> orders[p].created = 0)'
  BY <1>1 DEF Numbered
<1>4. (\A p \in Placed : orders[p].created <= Cardinality(Begun))'
  BY <1>1, <1>2 DEF Numbered
<1>5. (\A p, q \in Placed : orders[p].created = orders[q].created /\ orders[p].created > 0 => p = q)'
  BY <1>1 DEF Numbered
<1>6. Kept
  BY <1>1 DEF Kept
<1>. QED  BY <1>1, <1>3, <1>4, <1>5, <1>6 DEF Numbered

LEMMA WriterStep ==
  ASSUME Numbered, WriterNext
  PROVE  Numbered' /\ Kept /\ UNCHANGED <<viewing, detail>>
<1>1. PICK o \in Placed : BeginOrder(o) \/ EndOrder(o) \/ SettleOrder(o)
  BY DEF WriterNext
<1>2. CASE BeginOrder(o)
  BY <1>2, BeginStep DEF BeginOrder
<1>3. CASE EndOrder(o)
  BY <1>3, StatusStep DEF EndOrder
<1>4. CASE SettleOrder(o)
  BY <1>4, StatusStep DEF SettleOrder
<1>. QED  BY <1>1, <1>2, <1>3, <1>4

(* So an order never comes nearer to the front of the list. *)
LEMMA PositionsGrow ==
  ASSUME Numbered, Kept, NEW u
  PROVE  /\ OrdersOf(u) \subseteq OrdersOf(u)'
         /\ CountOrdersByUser(u) <= CountOrdersByUser(u)'
         /\ CountOrdersByUser(u) \in Nat /\ CountOrdersByUser(u)' \in Nat
         /\ \A o \in OrdersOf(u) : /\ Position(o, u) <= Position(o, u)'
                                   /\ Position(o, u) \in Nat /\ Position(o, u)' \in Nat
<1>1. OrdersOf(u) \subseteq OrdersOf(u)'
  BY DEF Kept, OrdersOf, Visible
<1>2. IsFiniteSet(Placed) /\ OrdersOf(u)' \in SUBSET Placed
  BY HistoryAssumption DEF OrdersOf, Visible
<1>3. IsFiniteSet(OrdersOf(u)')
  BY <1>2, FS_Subset
<1>4. /\ Cardinality(OrdersOf(u)) <= Cardinality(OrdersOf(u)')
      /\ Cardinality(OrdersOf(u)) \in Nat /\ Cardinality(OrdersOf(u)') \in Nat
  BY <1>1, <1>3, FS_Subset, FS_CardinalityType
<1>5. ASSUME NEW o \in OrdersOf(u)
      PROVE  /\ Position(o, u) <= Position(o, u)'
             /\ Position(o, u) \in Nat /\ Position(o, u)' \in Nat
  <2>1. \A p \in OrdersOf(u) : p \in Placed /\ orders[p].created > 0
                               /\ orders'[p].created = orders[p].created
    BY DEF OrdersOf, Visible, Numbered, Order, Kept
  <2>2. Newer(o, u) \in SUBSET (Newer(o, u)') /\ Newer(o, u)' \in SUBSET (OrdersOf(u)')
    BY <1>1, <2>1 DEF Newer
  <2>3. IsFiniteSet(Newer(o, u)')
    BY <1>3, <2>2, FS_Subset
  <2>4. /\ Cardinality(Newer(o, u)) <= Cardinality(Newer(o, u)')
        /\ Cardinality(Newer(o, u)) \in Nat /\ Cardinality(Newer(o, u)') \in Nat
    BY <2>2, <2>3, FS_Subset, FS_CardinalityType
  <2>. QED  BY <2>4 DEF Position, Newer
<1>. QED  BY <1>1, <1>4, <1>5 DEF CountOrdersByUser

LEMMA WriterKeepsInv ==
  ASSUME HistoryInv, WriterNext
  PROVE  HistoryInv'
<1>1. Numbered' /\ Kept /\ viewing' = viewing /\ detail' = detail
  BY WriterStep DEF HistoryInv
<1>2. ASSUME NEW c \in Viewers
      PROVE  (/\ PageCovered(viewing[c], Viewer[c]) /\ PageShown(viewing[c])
              /\ Walk(viewing[c], Viewer[c]) /\ Found(detail[c], Viewer[c]))'
  <2>. PICK v \in Viewing : v = viewing[c]
    BY DEF HistoryInv
  <2>. PICK d \in Detail : d = detail[c]
    BY DEF HistoryInv
  <2>. PICK u : u = Viewer[c]
    OBVIOUS
  <2>1. PageCovered(v, u) /\ PageShown(v) /\ Walk(v, u) /\ Found(d, u)
    BY DEF HistoryInv
  <2>2. /\ OrdersOf(u) \subseteq OrdersOf(u)'
        /\ CountOrdersByUser(u) <= CountOrdersByUser(u)'
        /\ CountOrdersByUser(u) \in Nat /\ CountOrdersByUser(u)' \in Nat
        /\ \A o \in OrdersOf(u) : /\ Position(o, u) <= Position(o, u)'
                                  /\ Position(o, u) \in Nat /\ Position(o, u)' \in Nat
    BY <1>1, PositionsGrow DEF HistoryInv
  <2>3. v.page \in Nat /\ v.limit \in Nat /\ v.rows \in SUBSET Placed
    BY DEF Viewing
  <2>4. PageCovered(v, u)'
    <3>. SUFFICES ASSUME v.at = "count", v.rows # {}
                  PROVE  Offset(v.page, v.limit) + Cardinality(v.rows) <= CountOrdersByUser(u)'
      BY DEF PageCovered
    <3>1. Offset(v.page, v.limit) \in Int
      <4>1. v.page \in Int /\ v.limit \in Int
        BY <2>3
      <4>. QED  BY <4>1, OffsetInt
    <3>2. Cardinality(v.rows) \in Nat
      BY <2>3, HistoryAssumption, FS_Subset, FS_CardinalityType
    <3>. QED  BY <2>1, <2>2, <3>1, <3>2 DEF PageCovered
  <2>5. Walk(v, u)'
    <3>. SUFFICES ASSUME v.at \in {"list", "count", "shown", "done"}
                  PROVE  Walk(v, u)'
      BY <2>1 DEF Walk
    <3>1. v.owed \subseteq OrdersOf(u) /\ v.owed \subseteq OrdersOf(u)'
      BY <2>1, <2>2 DEF Walk
    <3>2. ASSUME NEW n \in Int, NEW missing \in SUBSET v.owed, Behind(u, n, missing)
          PROVE  Behind(u, n, missing)'
      BY <2>2, <3>1, <3>2 DEF Behind
    <3>3. (v.page - 1) * v.limit \in Int /\ v.page * v.limit \in Int
      BY <2>3
    <3>. DEFINE begin == (v.page - 1) * v.limit
                end == v.page * v.limit
    <3>4. v.at = "list" /\ InReach(v) => Behind(u, begin, v.owed \ v.seen)'
      <4>1. v.at = "list" /\ InReach(v) => Behind(u, begin, v.owed \ v.seen)
        BY <2>1 DEF Walk
      <4>. HIDE DEF begin
      <4>. QED  BY <3>2, <3>3, <4>1 DEF begin
    <3>5. v.at = "count" /\ InReach(v) => Behind(u, end, v.owed \ (v.seen \cup v.rows))'
      <4>1. v.at = "count" /\ InReach(v) => Behind(u, end, v.owed \ (v.seen \cup v.rows))
        BY <2>1 DEF Walk
      <4>. HIDE DEF end
      <4>. QED  BY <3>2, <3>3, <4>1 DEF end
    <3>6. v.at = "shown" /\ InReach(v) => Behind(u, end, v.owed \ v.seen)'
      <4>1. v.at = "shown" /\ InReach(v) => Behind(u, end, v.owed \ v.seen)
        BY <2>1 DEF Walk, Behind
      <4>. HIDE DEF end
      <4>. QED  BY <3>2, <3>3, <4>1 DEF end
    <3>. HIDE DEF begin, end
    <3>7. /\ v.limit > 0 /\ v.total <= Cardinality(Placed)
          /\ InReach(v) =>
               /\ v.at \in {"list", "count"} => begin <= Cardinality(Placed)
               /\ v.at = "shown" =>
                    v.owed \subseteq v.seen \/ HasNext(v.page, v.limit, v.total)
               /\ v.at = "done" => v.owed \subseteq v.seen
      BY <2>1 DEF Walk, begin
    <3>. QED  BY <3>1, <3>4, <3>5, <3>6, <3>7 DEF Walk, begin, end
  <2>6. Found(d, u)'
    BY <2>1, <2>2 DEF Found
  <2>. QED  BY <1>1, <2>1, <2>4, <2>5, <2>6 DEF PageShown
<1>. QED  BY <1>1, <1>2 DEF HistoryInv

----------------------------------------------------------------------------
(* Its readers *)

(* A reader moves: the invariant is asked of its own state only. *)
LEMMA ViewerMoves ==
  ASSUME HistoryInv, NEW c \in Viewers, NEW v \in Viewing,
         viewing' = [viewing EXCEPT ![c] = v], UNCHANGED <<orders, detail>>,
         PageCovered(v, Viewer[c]), PageShown(v), Walk(v, Viewer[c])
  PROVE  HistoryInv'
<1>1. viewing' \in [Viewers -> Viewing] /\ detail' \in [Viewers -> Detail] /\ Numbered'
  BY DEF HistoryInv, Numbered, Begun
<1>2. ASSUME NEW e \in Viewers
      PROVE  /\ PageCovered(viewing'[e], Viewer[e]) /\ PageShown(viewing'[e])
             /\ Walk(viewing'[e], Viewer[e]) /\ Found(detail[e], Viewer[e])
  BY DEF HistoryInv
<1>3. ASSUME NEW e \in Viewers
      PROVE  (/\ PageCovered(viewing[e], Viewer[e]) /\ PageShown(viewing[e])
              /\ Walk(viewing[e], Viewer[e]) /\ Found(detail[e], Viewer[e]))'
  <2>. PICK w : w = viewing'[e]
    OBVIOUS
  <2>. PICK d : d = detail'[e]
    OBVIOUS
  <2>. PICK u : u = Viewer[e]
    OBVIOUS
  <2>1. PageCovered(w, u) /\ PageShown(w) /\ Walk(w, u) /\ Found(d, u)
    BY <1>2
  <2>2. (PageCovered(w, u) /\ PageShown(w) /\ Walk(w, u) /\ Found(d, u))'
    <3>1. OrdersOf(u)' = OrdersOf(u) /\ CountOrdersByUser(u)' = CountOrdersByUser(u)
      BY DEF OrdersOf, Visible, CountOrdersByUser
    <3>2. \A o : Position(o, u)' = Position(o, u)
      BY <3>1 DEF Position
    <3>3. \A n, missing : Behind(u, n, missing)' <=> Behind(u, n, missing)
      BY <3>2 DEF Behind
    <3>4. Walk(w, u)'
      BY <2>1, <3>1, <3>2, <3>3 DEF Walk
    <3>. QED  BY <2>1, <3>1, <3>4 DEF PageCovered, PageShown, Found
  <2>. QED  BY <2>2
<1>. QED  BY <1>1, <1>3 DEF HistoryInv

LEMMA DetailMoves ==
  ASSUME HistoryInv, NEW c \in Viewers, NEW d \in Detail,
         detail' = [detail EXCEPT ![c] = d], UNCHANGED <<orders, viewing>>,
         Found(d, Viewer[c])
  PROVE  HistoryInv'
<1>1. viewing' \in [Viewers -> Viewing] /\ detail' \in [Viewers -> Detail] /\ Numbered'
  BY DEF HistoryInv, Numbered, Begun
<1>2. ASSUME NEW e \in Viewers
      PROVE  /\ PageCovered(viewing[e], Viewer[e]) /\ PageShown(viewing[e])
             /\ Walk(viewing[e], Viewer[e]) /\ Found(detail'[e], Viewer[e])
  BY DEF HistoryInv
<1>3. ASSUME NEW e \in Viewers
      PROVE  (/\ PageCovered(viewing[e], Viewer[e]) /\ PageShown(viewing[e])
              /\ Walk(viewing[e], Viewer[e]) /\ Found(detail[e], Viewer[e]))'
  <2>. PICK w : w = viewing'[e]
    OBVIOUS
  <2>. PICK f : f = detail'[e]
    OBVIOUS
  <2>. PICK u : u = Viewer[e]
    OBVIOUS
  <2>1. PageCovered(w, u) /\ PageShown(w) /\ Walk(w, u) /\ Found(f, u)
    BY <1>2
  <2>2. (PageCovered(w, u) /\ PageShown(w) /\ Walk(w, u) /\ Found(f, u))'
    <3>1. OrdersOf(u)' = OrdersOf(u) /\ CountOrdersByUser(u)' = CountOrdersByUser(u)
      BY DEF OrdersOf, Visible, CountOrdersByUser
    <3>2. \A o : Position(o, u)' = Position(o, u)
      BY <3>1 DEF Position
    <3>3. \A n, missing : Behind(u, n, missing)' <=> Behind(u, n, missing)
      BY <3>2 DEF Behind
    <3>4. Walk(w, u)'
      BY <2>1, <3>1, <3>2, <3>3 DEF Walk
    <3>. QED  BY <2>1, <3>1, <3>4 DEF PageCovered, PageShown, Found
  <2>. QED  BY <2>2
<1>. QED  BY <1>1, <1>3 DEF HistoryInv

(* While the orders are fewer than the service will skip, the offset of a page
   on which a reader stands is exact. *)
LEMMA OffsetInReach ==
  ASSUME Cardinality(Placed) <= MaxOffset,
         NEW page \in Nat \ {0}, NEW limit \in 1..MaxLimit,
         (page - 1) * limit <= Cardinality(Placed)
  PROVE  Offset(page, limit) = (page - 1) * limit /\ ClampLimit(limit) = limit
<1>1. /\ ClampLimit(limit) = limit /\ limit \in Int /\ page \in Int
      /\ MaxOffset \in Nat /\ IntMax \in Nat /\ MaxOffset <= IntMax
  BY LimitType, PagingAssumption
<1>2. Skip(page, limit) = (page - 1) * limit
  BY <1>1 DEF Skip, ClampPage
<1>3. Cardinality(Placed) \in Nat
  BY HistoryAssumption, FS_CardinalityType
<1>4. Skip(page, limit) \in Nat
  BY <1>1, SkipType
<1>5. Skip(page, limit) <= MaxOffset /\ Skip(page, limit) <= IntMax
  BY <1>1, <1>2, <1>3, <1>4
<1>. QED  BY <1>1, <1>2, <1>5, OffsetIsExact

LEMMA OpenStep ==
  ASSUME HistoryInv, NEW c \in Viewers, NEW limit \in Limits, OpenHistory(c, limit)
  PROVE  HistoryInv'
<1>. DEFINE u == Viewer[c]
            l == IF limit < 1 THEN DefaultLimit ELSE limit
<1>1. PICK w \in Viewing : w = viewing[c]
  BY DEF HistoryInv
<1>2. PICK v : v = [w EXCEPT !.at = "list", !.limit = l, !.owed = OrdersOf(u)]
  OBVIOUS
<1>3. w.page = 1 /\ w.total = 0 /\ Numbered
  BY <1>1 DEF OpenHistory, HistoryInv, Walk
<1>4. l \in Nat \ {0} /\ Cardinality(Placed) \in Nat /\ OrdersOf(u) \in SUBSET Placed
  BY HistoryAssumption, PagingAssumption, FS_CardinalityType DEF OrdersOf, Visible
<1>5. /\ v.at = "list" /\ v.page = 1 /\ v.total = 0 /\ v.limit = l /\ v.owed = OrdersOf(u)
      /\ v \in Viewing
  <2>. HIDE DEF l, u
  <2>. QED  BY <1>1, <1>2, <1>3, <1>4 DEF Viewing
<1>6. viewing' = [viewing EXCEPT ![c] = v] /\ UNCHANGED <<orders, detail>>
  BY <1>1, <1>2 DEF OpenHistory
<1>. HIDE DEF l, u
<1>7. Walk(v, u)
  <2>1. (v.page - 1) * v.limit = 0
    BY <1>4, <1>5
  <2>2. \A o \in OrdersOf(u) : Position(o, u) > 0
    BY <1>3, PositionsNumber
  <2>3. Behind(u, 0, v.owed \ v.seen)
    BY <1>5, <2>2 DEF Behind
  <2>. QED  BY <1>4, <1>5, <2>1, <2>3 DEF Walk
<1>8. PageCovered(v, u) /\ PageShown(v)
  BY <1>5 DEF PageCovered, PageShown
<1>. QED  BY <1>5, <1>6, <1>7, <1>8, ViewerMoves DEF u

LEMMA ListStep ==
  ASSUME HistoryInv, NEW c \in Viewers, ListOrders(c)
  PROVE  HistoryInv'
<1>. DEFINE u == Viewer[c]
<1>1. PICK w \in Viewing : w = viewing[c]
  BY DEF HistoryInv
<1>. DEFINE offset == Offset(w.page, w.limit)
            page == ListOrdersByUser(u, ClampLimit(w.limit), offset)
<1>2. PICK v : v = [w EXCEPT !.at = "count", !.rows = page]
  OBVIOUS
<1>3. w.at = "list" /\ Walk(w, u) /\ Numbered
  BY <1>1 DEF ListOrders, HistoryInv
<1>4. /\ w.page \in Nat \ {0} /\ w.limit \in Nat /\ offset \in Int
      /\ w.page \in Int /\ w.limit \in Int /\ ClampLimit(w.limit) \in Nat
  <2>1. w.page \in Int /\ w.limit \in Int /\ w.page \in Nat \ {0} /\ w.limit \in Nat
    BY <1>1 DEF Viewing
  <2>2. offset \in Int
    BY <2>1, OffsetInt
  <2>3. ClampLimit(w.limit) \in 1..MaxLimit /\ MaxLimit \in Nat
    BY <2>1, LimitType, PagingAssumption
  <2>. HIDE DEF offset
  <2>. QED  BY <2>1, <2>2, <2>3
<1>5. page \in SUBSET Placed /\ page \in SUBSET OrdersOf(u)
  BY DEF ListOrdersByUser, OrdersOf, Visible
<1>6. viewing' = [viewing EXCEPT ![c] = v] /\ UNCHANGED <<orders, detail>>
  BY <1>1, <1>2 DEF ListOrders
<1>7. page # {} => offset + Cardinality(page) <= CountOrdersByUser(u)
  <2>. HIDE DEF offset
  <2>. QED  BY <1>3, <1>4, PageFits
<1>8. InReach(w) =>
        \A o \in OrdersOf(u) \ page : Position(o, u) > (w.page - 1) * w.limit
                                        => Position(o, u) > w.page * w.limit
  <2>. SUFFICES ASSUME InReach(w), NEW o \in OrdersOf(u), o \notin page,
                       Position(o, u) > (w.page - 1) * w.limit
                PROVE  Position(o, u) > w.page * w.limit
    OBVIOUS
  <2>1. w.limit \in 1..MaxLimit /\ (w.page - 1) * w.limit <= Cardinality(Placed)
    BY <1>3, <1>4, PagingAssumption DEF Walk, InReach
  <2>2. offset = (w.page - 1) * w.limit /\ ClampLimit(w.limit) = w.limit
    BY <1>4, <2>1, OffsetInReach DEF InReach
  <2>3. Position(o, u) \in 1..CountOrdersByUser(u)
    BY <1>3, PositionsNumber
  <2>4. ~(Position(o, u) <= offset + w.limit)
    <3>. HIDE DEF offset
    <3>. QED  BY <2>2, <2>3 DEF ListOrdersByUser, Window
  <2>5. w.page * w.limit = (w.page - 1) * w.limit + w.limit
    BY <1>4
  <2>6. CountOrdersByUser(u) \in Nat
    BY OrdersFinite
  <2>. QED  BY <1>4, <2>2, <2>3, <2>4, <2>5, <2>6
<1>. HIDE DEF u, offset, page
<1>9. /\ v.at = "count" /\ v.page = w.page /\ v.limit = w.limit /\ v.rows = page
      /\ v.total = w.total /\ v.seen = w.seen /\ v.owed = w.owed /\ v \in Viewing
  BY <1>1, <1>2, <1>5 DEF Viewing
<1>10. PageCovered(v, u) /\ PageShown(v)
  BY <1>7, <1>9 DEF PageCovered, PageShown, offset
<1>11. Walk(v, u)
  <2>1. /\ w.limit > 0 /\ w.owed \subseteq OrdersOf(u) /\ w.total <= Cardinality(Placed)
        /\ InReach(w) => (w.page - 1) * w.limit <= Cardinality(Placed)
        /\ InReach(w) => Behind(u, (w.page - 1) * w.limit, w.owed \ w.seen)
    BY <1>3 DEF Walk
  <2>2. InReach(w) => Behind(u, w.page * w.limit, w.owed \ (w.seen \cup page))
    BY <1>8, <2>1 DEF Behind
  <2>. QED  BY <1>9, <2>1, <2>2 DEF Walk, InReach
<1>. QED  BY <1>6, <1>9, <1>10, <1>11, ViewerMoves DEF u

LEMMA CountStep ==
  ASSUME HistoryInv, NEW c \in Viewers, CountOrders(c)
  PROVE  HistoryInv'
<1>. DEFINE u == Viewer[c]
            n == CountOrdersByUser(u)
<1>1. PICK w \in Viewing : w = viewing[c]
  BY DEF HistoryInv
<1>2. PICK v : v = [w EXCEPT !.at = "shown", !.total = n, !.seen = w.seen \cup w.rows]
  OBVIOUS
<1>3. w.at = "count" /\ Walk(w, u) /\ PageCovered(w, u) /\ Numbered
  BY <1>1 DEF CountOrders, HistoryInv
<1>4. viewing' = [viewing EXCEPT ![c] = v] /\ UNCHANGED <<orders, detail>>
  BY <1>1, <1>2 DEF CountOrders
<1>5. n \in Nat /\ n <= Cardinality(Placed)
  BY OrdersFinite
<1>6. \A o \in OrdersOf(u) : Position(o, u) \in 1..n
  BY <1>3, PositionsNumber
<1>7. w.rows # {} => Offset(w.page, w.limit) + Cardinality(w.rows) <= n
  BY <1>3 DEF PageCovered
<1>. HIDE DEF u, n
<1>8. /\ v.at = "shown" /\ v.page = w.page /\ v.limit = w.limit /\ v.rows = w.rows
      /\ v.total = n /\ v.seen = w.seen \cup w.rows /\ v.owed = w.owed /\ v \in Viewing
  BY <1>1, <1>2, <1>5 DEF Viewing
<1>9. PageCovered(v, u) /\ PageShown(v)
  BY <1>3, <1>7, <1>8 DEF PageCovered, PageShown
<1>10. Walk(v, u)
  <2>1. /\ w.limit > 0 /\ w.owed \subseteq OrdersOf(u)
        /\ InReach(w) => Behind(u, w.page * w.limit, w.owed \ (w.seen \cup w.rows))
    BY <1>3 DEF Walk
  <2>2. InReach(w) => v.owed \subseteq v.seen \/ HasNext(v.page, v.limit, v.total)
    <3>. SUFFICES ASSUME InReach(w), NEW o \in v.owed, o \notin v.seen
                  PROVE  HasNext(v.page, v.limit, v.total)
      OBVIOUS
    <3>1. Position(o, u) > w.page * w.limit /\ Position(o, u) \in 1..n
      BY <1>6, <1>8, <2>1 DEF Behind
    <3>2. w.page * w.limit \in Int
      BY <1>1 DEF Viewing
    <3>. QED  BY <1>5, <1>8, <3>1, <3>2 DEF HasNext
  <2>. QED  BY <1>5, <1>8, <2>1, <2>2 DEF Walk, InReach
<1>. QED  BY <1>4, <1>8, <1>9, <1>10, ViewerMoves DEF u

LEMMA TurnStep ==
  ASSUME HistoryInv, NEW c \in Viewers, TurnHistoryPage(c)
  PROVE  HistoryInv'
<1>. DEFINE u == Viewer[c]
<1>1. PICK w \in Viewing : w = viewing[c]
  BY DEF HistoryInv
<1>2. PICK v : v = IF HasNext(w.page, w.limit, w.total)
                     THEN [w EXCEPT !.at = "list", !.page = w.page + 1]
                     ELSE [w EXCEPT !.at = "done"]
  OBVIOUS
<1>3. w.at = "shown" /\ Walk(w, u)
  BY <1>1 DEF TurnHistoryPage, HistoryInv
<1>4. viewing' = [viewing EXCEPT ![c] = v] /\ UNCHANGED <<orders, detail>>
  BY <1>1, <1>2 DEF TurnHistoryPage
<1>5. /\ w.page \in Nat \ {0} /\ w.limit \in Nat /\ w.total \in Nat
      /\ w.page * w.limit \in Int
  BY <1>1 DEF Viewing
<1>. HIDE DEF u
<1>6. /\ w.limit > 0 /\ w.owed \subseteq OrdersOf(u) /\ w.total <= Cardinality(Placed)
      /\ InReach(w) => /\ Behind(u, w.page * w.limit, w.owed \ w.seen)
                       /\ w.owed \subseteq w.seen \/ HasNext(w.page, w.limit, w.total)
  BY <1>3 DEF Walk
<1>7. CASE HasNext(w.page, w.limit, w.total)
  <2>1. /\ v.at = "list" /\ v.page = w.page + 1 /\ v.limit = w.limit /\ v.total = w.total
        /\ v.seen = w.seen /\ v.owed = w.owed /\ v \in Viewing
    <3>1. v = [w EXCEPT !.at = "list", !.page = w.page + 1] /\ w.page + 1 \in Nat \ {0}
      BY <1>2, <1>5, <1>7
    <3>. QED  BY <1>1, <3>1 DEF Viewing
  <2>2. v.page - 1 = w.page /\ Cardinality(Placed) \in Nat
    BY <1>5, <2>1, HistoryAssumption, FS_CardinalityType
  <2>3. w.page * w.limit <= Cardinality(Placed)
    BY <1>5, <1>6, <1>7, <2>2 DEF HasNext
  <2>4. Walk(v, u)
    BY <1>6, <2>1, <2>2, <2>3 DEF Walk, InReach
  <2>5. PageCovered(v, u) /\ PageShown(v)
    BY <2>1 DEF PageCovered, PageShown
  <2>. QED  BY <1>4, <2>1, <2>4, <2>5, ViewerMoves DEF u
<1>8. CASE ~HasNext(w.page, w.limit, w.total)
  <2>1. /\ v.at = "done" /\ v.limit = w.limit /\ v.total = w.total
        /\ v.seen = w.seen /\ v.owed = w.owed /\ v \in Viewing
    BY <1>1, <1>2, <1>8 DEF Viewing
  <2>2. Walk(v, u)
    BY <1>6, <1>8, <2>1 DEF Walk, InReach
  <2>3. PageCovered(v, u) /\ PageShown(v)
    BY <2>1 DEF PageCovered, PageShown
  <2>. QED  BY <1>4, <2>1, <2>2, <2>3, ViewerMoves DEF u
<1>. QED  BY <1>7, <1>8

LEMMA ListFailsStep ==
  ASSUME HistoryInv, NEW c \in Viewers, ListFails(c)
  PROVE  HistoryInv'
<1>1. PICK w \in Viewing : w = viewing[c]
  BY DEF HistoryInv
<1>2. PICK v : v = [w EXCEPT !.at = "failed"]
  OBVIOUS
<1>3. viewing' = [viewing EXCEPT ![c] = v] /\ UNCHANGED <<orders, detail>>
  BY <1>1, <1>2 DEF ListFails, HistoryInv
<1>4. v.at = "failed" /\ v \in Viewing
  BY <1>1, <1>2 DEF Viewing
<1>5. Walk(v, Viewer[c]) /\ PageCovered(v, Viewer[c]) /\ PageShown(v)
  BY <1>4 DEF Walk, PageCovered, PageShown
<1>. QED  BY <1>3, <1>4, <1>5, ViewerMoves

LEMMA GetStep ==
  ASSUME HistoryInv, NEW c \in Viewers, NEW o \in Placed, Get(c, o)
  PROVE  HistoryInv'
<1>. DEFINE u == Viewer[c]
<1>1. PICK w \in Detail : w = detail[c]
  BY DEF HistoryInv
<1>2. CASE w.at = "idle"
  <2>1. PICK d : d = [at |-> IF GetOrderForUser(o, u) THEN "items" ELSE "notFound",
                      order |-> o, items |-> {}]
    OBVIOUS
  <2>2. detail' = [detail EXCEPT ![c] = d] /\ UNCHANGED <<orders, viewing>>
    BY <1>1, <1>2, <2>1 DEF Get
  <2>3. d \in Detail
    BY <2>1 DEF Detail
  <2>4. Found(d, u)
    BY <2>1 DEF Found, GetOrderForUser
  <2>. QED  BY <2>2, <2>3, <2>4, DetailMoves
<1>3. CASE w.at # "idle"
  <2>1. PICK d : d = [w EXCEPT !.at = "ok", !.items = ListOrderItems(o)]
    OBVIOUS
  <2>2. /\ detail' = [detail EXCEPT ![c] = d] /\ UNCHANGED <<orders, viewing>>
        /\ w.at = "items" /\ w.order = o
    BY <1>1, <1>3, <2>1 DEF Get
  <2>3. d.at = "ok" /\ d.order = o /\ d.items = ListOrderItems(o)
    BY <1>1, <2>1, <2>2 DEF Detail
  <2>4. o \in OrdersOf(u)
    BY <1>1, <2>2 DEF HistoryInv, Found
  <2>5. o \in Visible /\ Buyer[o] = u
    BY <2>4 DEF OrdersOf
  <2>6. ListOrderItems(o) = Items[o]
    BY <2>5 DEF ListOrderItems
  <2>7. d \in Detail
    BY <1>1, <2>1, <2>6 DEF Detail
  <2>8. Found(d, u)
    BY <2>3, <2>5, <2>6 DEF Found
  <2>. QED  BY <2>2, <2>7, <2>8, DetailMoves
<1>. QED  BY <1>2, <1>3

LEMMA DetailEndStep ==
  ASSUME HistoryInv, NEW c \in Viewers, GetFails(c) \/ CloseDetail(c)
  PROVE  HistoryInv'
<1>1. PICK w \in Detail : w = detail[c]
  BY DEF HistoryInv
<1>2. PICK d : d = IF GetFails(c) THEN [w EXCEPT !.at = "failed"]
                   ELSE [at |-> "idle", order |-> NoOrder, items |-> {}]
  OBVIOUS
<1>3. detail' = [detail EXCEPT ![c] = d] /\ UNCHANGED <<orders, viewing>>
  BY <1>1, <1>2 DEF GetFails, CloseDetail, HistoryInv
<1>4. d.at \in {"failed", "idle"} /\ d \in Detail
  BY <1>1, <1>2 DEF Detail
<1>5. Found(d, Viewer[c])
  BY <1>4 DEF Found
<1>. QED  BY <1>3, <1>4, <1>5, DetailMoves

----------------------------------------------------------------------------
(* The theorems of the order history *)

LEMMA HistoryInitInv ==
  ASSUME HistoryInit
  PROVE  HistoryInv
<1>1. \A o \in Placed : orders[o] = [status |-> "none", created |-> 0]
  BY DEF HistoryInit
<1>2. Cardinality(Placed) \in Nat /\ Cardinality(Begun) \in Nat
  BY HistoryAssumption, FS_CardinalityType, BegunFinite
<1>3. Numbered
  <2>1. orders \in [Placed -> Order]
    BY DEF HistoryInit, Order
  <2>. QED  BY <1>1, <1>2, <2>1 DEF Numbered
<1>4. viewing \in [Viewers -> Viewing] /\ detail \in [Viewers -> Detail]
  BY DEF HistoryInit, Viewing, Detail
<1>5. ASSUME NEW c \in Viewers
      PROVE  /\ PageCovered(viewing[c], Viewer[c]) /\ PageShown(viewing[c])
             /\ Walk(viewing[c], Viewer[c]) /\ Found(detail[c], Viewer[c])
  <2>1. /\ viewing[c].at = "start" /\ viewing[c].page = 1 /\ viewing[c].total = 0
        /\ detail[c].at = "idle"
    BY DEF HistoryInit
  <2>. QED  BY <2>1 DEF PageCovered, PageShown, Walk, Found
<1>. QED  BY <1>3, <1>4, <1>5 DEF HistoryInv

LEMMA HistoryStep == HistoryInv /\ [HistoryNext]_historyVars => HistoryInv'
<1>. SUFFICES ASSUME HistoryInv, [HistoryNext]_historyVars
              PROVE  HistoryInv'
  OBVIOUS
<1>1. CASE UNCHANGED historyVars
  <2>1. UNCHANGED <<orders, viewing, detail>>
    BY <1>1 DEF historyVars
  <2>2. CASE Viewers = {}
    BY <2>1, <2>2 DEF HistoryInv, Numbered, Begun
  <2>3. CASE Viewers # {}
    <3>1. PICK c \in Viewers : TRUE
      BY <2>3
    <3>2. PICK d \in Detail : d = detail[c]
      BY DEF HistoryInv
    <3>3. detail' = [detail EXCEPT ![c] = d] /\ Found(d, Viewer[c])
      BY <2>1, <3>2 DEF HistoryInv
    <3>. QED  BY <2>1, <3>3, DetailMoves
  <2>. QED  BY <2>2, <2>3
<1>2. CASE ListNext
  BY <1>2, OpenStep, ListStep, CountStep, TurnStep, ListFailsStep DEF ListNext, ListPageOfOrders
<1>3. CASE DetailNext
  BY <1>3, GetStep, DetailEndStep DEF DetailNext
<1>4. CASE WriterNext
  BY <1>4, WriterKeepsInv
<1>. QED  BY <1>1, <1>2, <1>3, <1>4 DEF HistoryNext

LEMMA HistoryInvAlways == HistorySpec => []HistoryInv
<1>1. HistoryInit => HistoryInv
  BY HistoryInitInv
<1>. QED  BY <1>1, HistoryStep, PTL DEF HistorySpec

(* Every state of the order history is well formed; in particular no more
   created_at values are given out than there are orders. *)
THEOREM HistoryTypeCorrect == HistorySpec => []HistoryTypeOK
<1>1. ASSUME HistoryInv
      PROVE  HistoryTypeOK
  <2>1. Numbered /\ viewing \in [Viewers -> Viewing] /\ detail \in [Viewers -> Detail]
    BY <1>1 DEF HistoryInv
  <2>2. Cardinality(Begun) \in Nat /\ Cardinality(Begun) <= Cardinality(Placed)
        /\ Cardinality(Placed) \in Nat
    BY BegunFinite, HistoryAssumption, FS_CardinalityType
  <2>3. orders \in [Placed -> [status : {"none", "open", "undone", "pending", "settled"},
                               created : 0..Cardinality(Placed)]]
    <3>1. ASSUME NEW o \in Placed
          PROVE  /\ orders[o] \in Order
                 /\ orders[o].created \in 0..Cardinality(Placed)
      BY <2>1, <2>2 DEF Numbered, Order
    <3>. QED  BY <2>1, <3>1 DEF Numbered, Order
  <2>. QED  BY <2>1, <2>3 DEF HistoryTypeOK, Viewing, Detail
<1>2. HistoryInv => HistoryTypeOK
  BY <1>1
<1>. QED  BY <1>2, HistoryInvAlways, PTL

(* The total that a page comes with reaches over its rows, although it is read
   in a second query and orders are placed between the two: listing before
   counting is what makes it so (service.go of order, List). *)
THEOREM TotalAlwaysCovers == HistorySpec => []TotalCoversPage
<1>1. HistoryInv => TotalCoversPage
  BY DEF HistoryInv, PageShown, TotalCoversPage
<1>. QED  BY <1>1, HistoryInvAlways, PTL

(* A reader who turns pages until HasNext fails has seen every order that was
   there when it began, however many are placed and settled meanwhile, if the
   service can skip as many rows as there are orders (maxOffset). *)
THEOREM WalkIsComplete ==
  ASSUME Cardinality(Placed) <= MaxOffset
  PROVE  HistorySpec => []WalkMissesNothing
<1>1. HistoryInv => WalkMissesNothing
  BY DEF HistoryInv, Walk, InReach, WalkMissesNothing
<1>. QED  BY <1>1, HistoryInvAlways, PTL

(* The detail of an order goes to its buyer only, with all its items, although
   order and items are two queries (service.go of order, Get). *)
THEOREM DetailAlwaysWhole == HistorySpec => []DetailIsWhole
<1>1. HistoryInv => DetailIsWhole
  BY DEF HistoryInv, Found, DetailIsWhole
<1>. QED  BY <1>1, HistoryInvAlways, PTL

----------------------------------------------------------------------------
(* The catalogue: its inductive invariant *)

Wants == Wanted \cup {[w EXCEPT !.limit = l] : w \in Wanted, l \in 1..MaxLimit}

Browser == [at : {"start", "rejected", "list", "count", "shown", "done",
                  "variants", "detail", "notFound", "failed"},
            page : Nat \ {0}, want : Wants, rows : Seq(Products), total : Nat,
            snapshot : SUBSET Products, seen : Seq(Products), since : Nat,
            offers : SUBSET Variants]

(* The page that a client has come to is one that the catalogue may fill. *)
Bounded(x) ==
  /\ x.at = "start" => x.page = 1 /\ x.seen = <<>>
  /\ x.at \in {"list", "count", "shown", "done"} => x.want.limit \in 1..MaxLimit
  /\ x.at \in {"list", "count"} => (x.page - 1) * x.want.limit <= Cardinality(Products)
  /\ x.total <= Cardinality(Products)

(* The page is as full as the snapshot, and then the total, says. *)
PageOf(x, n) == Cardinality(Window(n, x.want.limit, Offset(x.page, x.want.limit)))

Fits(x) ==
  /\ x.at = "count" => Len(x.rows) = PageOf(x, Cardinality(x.snapshot))
  /\ x.at = "shown" => Len(x.rows) = PageOf(x, x.total)

(* The place of a product in the order that was asked for. *)
Before(p, want) == {q \in Matching(want.kind) : Precedes(q, p, want.sort)}

Rank(p, want) == 1 + Cardinality(Before(p, want))

(* The sequence s holds the products of the ranks from n + 1 on. *)
Ranked(s, n, want) ==
  \A i \in DOMAIN s : s[i] \in Matching(want.kind) /\ Rank(s[i], want) = n + i

(* The order is total, and the service skips as far as there are products. *)
Settled(want) ==
  /\ \A p, q \in Matching(want.kind) : CreatedAt[p] = CreatedAt[q] => p = q
  /\ Cardinality(Products) <= MaxOffset

Matched(want) == Cardinality(Matching(want.kind))

(* As long as nobody edits, what a client has seen is a prefix of the list. *)
Prefix(x) ==
  /\ x.since <= catalogueEdits
  /\ x.since = catalogueEdits /\ Settled(x.want) =>
       /\ x.at \in {"list", "count", "shown", "done"} => Ranked(x.seen, 0, x.want)
       /\ x.at \in {"list", "count"} => /\ Len(x.seen) = (x.page - 1) * x.want.limit
                                        /\ Len(x.seen) <= Matched(x.want)
       /\ x.at = "count" => /\ x.snapshot = Matching(x.want.kind)
                            /\ Ranked(x.rows, Len(x.seen), x.want)
       /\ x.at = "shown" => /\ x.total = Matched(x.want)
                            /\ \/ Len(x.seen) = x.page * x.want.limit
                               \/ /\ Len(x.seen) = Matched(x.want)
                                  /\ Matched(x.want) <= x.page * x.want.limit
                            /\ Len(x.seen) <= Matched(x.want)
       /\ x.at = "done" => Len(x.seen) = Matched(x.want)

CatalogueInv ==
  /\ products \in [Products -> ProductStatus]
  /\ variants \in [Variants -> 0..MaxPrice]
  /\ catalogueEdits \in 0..MaxCatalogueEdits
  /\ browsing \in [Browsing -> Browser]
  /\ \A b \in Browsing : Bounded(browsing[b]) /\ Fits(browsing[b]) /\ Prefix(browsing[b])

----------------------------------------------------------------------------
(* The queries of the catalogue *)

LEMMA MinExists ==
  ASSUME NEW S \in SUBSET Int, IsFiniteSet(S), S # {}
  PROVE  Min(S) \in S /\ \A y \in S : Min(S) <= y
<1>. DEFINE upto(k) == {y \in S : y <= k}
            T == {upto(k) : k \in S}
            R == StrictSubsetOrdering(S)
<1>1. T \subseteq FiniteSubsetsOf(S) /\ T # {}
  <2>1. \A k \in S : upto(k) \in SUBSET S /\ IsFiniteSet(upto(k))
    BY FS_Subset
  <2>. HIDE DEF upto
  <2>. QED  BY <2>1 DEF FiniteSubsetsOf
<1>2. IsWellFoundedOn(R, FiniteSubsetsOf(S))
  BY FS_StrictSubsetOrderingWellFounded
<1>3. PICK U \in T : \A V \in T : ~(<<V, U>> \in R)
  <2>. HIDE DEF T, R
  <2>. QED  BY <1>1, <1>2, WFMin
<1>4. PICK k \in S : U = upto(k)
  OBVIOUS
<1>5. ASSUME NEW y \in S, y < k
      PROVE  FALSE
  <2>1. upto(y) \in SUBSET S /\ upto(k) \in SUBSET S
        /\ upto(y) \subseteq upto(k) /\ upto(y) # upto(k)
    <3>1. y \in Int /\ k \in Int /\ \A z \in S : z \in Int
      OBVIOUS
    <3>2. \A z \in upto(y) : z \in upto(k)
      BY <1>5, <3>1
    <3>3. k \in upto(k) /\ k \notin upto(y)
      BY <1>5, <3>1
    <3>4. upto(y) \in SUBSET S /\ upto(k) \in SUBSET S
      OBVIOUS
    <3>. HIDE DEF upto
    <3>. QED  BY <3>2, <3>3, <3>4
  <2>2. upto(y) \in T
    OBVIOUS
  <2>. HIDE DEF upto, T
  <2>3. <<upto(y), upto(k)>> \in R
    BY <2>1 DEF StrictSubsetOrdering
  <2>. QED  BY <1>3, <1>4, <2>2, <2>3
<1>6. \A y \in S : k <= y
  BY <1>5
<1>. HIDE DEF T, R, upto
<1>. QED  BY <1>6 DEF Min

LEMMA KeyType ==
  ASSUME variants \in [Variants -> 0..MaxPrice], NEW p \in Products, NEW sort
  PROVE  SortKey(p, sort) \in Int
<1>1. MaxPrice \in Nat /\ Name[p] \in Nat
  BY CatalogueAssumption
<1>2. PriceFrom(p) \in Int
  <2>. DEFINE S == {variants[v] : v \in Offers(p)}
  <2>1. CASE Offers(p) = {}
    BY <1>1, <2>1 DEF PriceFrom
  <2>2. CASE Offers(p) # {}
    <3>1. S \in SUBSET (0..MaxPrice) /\ S # {}
      BY <2>2 DEF Offers
    <3>2. IsFiniteSet(0..MaxPrice) /\ 0..MaxPrice \subseteq Int
      BY <1>1, FS_Interval
    <3>3. S \in SUBSET Int /\ IsFiniteSet(S)
      BY <3>1, <3>2, FS_Subset
    <3>. HIDE DEF S
    <3>4. Min(S) \in Int
      BY <3>1, <3>3, MinExists
    <3>. QED  BY <2>2, <3>4 DEF PriceFrom, S
  <2>. QED  BY <2>1, <2>2
<1>. HIDE DEF PriceFrom
<1>3. -PriceFrom(p) \in Int
  BY <1>2
<1>. QED  BY <1>1, <1>2, <1>3 DEF SortKey

LEMMA MatchingFinite ==
  ASSUME NEW want
  PROVE  /\ Matching(want.kind) \in SUBSET Products /\ IsFiniteSet(Matching(want.kind))
         /\ Matched(want) \in Nat /\ Matched(want) <= Cardinality(Products)
         /\ Cardinality(Products) \in Nat /\ IsFiniteSet(Products)
<1>1. Matching(want.kind) \in SUBSET Products /\ IsFiniteSet(Products)
  BY CatalogueAssumption DEF Matching
<1>2. IsFiniteSet(Matching(want.kind)) /\ Cardinality(Matching(want.kind)) <= Cardinality(Products)
  BY <1>1, FS_Subset
<1>. QED  BY <1>1, <1>2, FS_CardinalityType DEF Matched

(* ORDER BY is a total order, if created_at decides what the key leaves open. *)
LEMMA OrderIsTotal ==
  ASSUME variants \in [Variants -> 0..MaxPrice], NEW want, Settled(want)
  PROVE  \A p, q, r \in Matching(want.kind) :
           /\ ~Precedes(p, p, want.sort)
           /\ p = q \/ Precedes(p, q, want.sort) \/ Precedes(q, p, want.sort)
           /\ Precedes(p, q, want.sort) /\ Precedes(q, r, want.sort) => Precedes(p, r, want.sort)
<1>1. Matching(want.kind) \in SUBSET Products
  BY MatchingFinite
<1>2. \A p \in Products : SortKey(p, want.sort) \in Int /\ CreatedAt[p] \in Int
  BY KeyType, CatalogueAssumption
<1>. QED  BY <1>1, <1>2 DEF Precedes, Settled

(* So ranks tell the products apart and number them. *)
LEMMA RanksNumber ==
  ASSUME variants \in [Variants -> 0..MaxPrice], NEW want, Settled(want)
  PROVE  \A p, q \in Matching(want.kind) :
           /\ Rank(p, want) \in 1..Matched(want)
           /\ Rank(p, want) = Rank(q, want) => p = q
<1>. DEFINE all == Matching(want.kind)
<1>1. IsFiniteSet(all) /\ Matched(want) = Cardinality(all) /\ Cardinality(all) \in Nat
  BY MatchingFinite DEF Matched
<1>2. ASSUME NEW p \in all
      PROVE  /\ Before(p, want) \in SUBSET all /\ p \notin Before(p, want)
             /\ IsFiniteSet(Before(p, want)) /\ Cardinality(Before(p, want)) \in Nat
             /\ Rank(p, want) \in 1..Matched(want)
  <2>1. Before(p, want) \in SUBSET all /\ p \notin Before(p, want)
    BY OrderIsTotal DEF Before
  <2>2. /\ IsFiniteSet(Before(p, want)) /\ Cardinality(Before(p, want)) <= Cardinality(all)
        /\ Cardinality(Before(p, want)) # Cardinality(all)
    <3>. HIDE DEF all
    <3>. QED  BY <1>1, <2>1, FS_Subset
  <2>3. Cardinality(Before(p, want)) \in Nat
    BY <2>2, FS_CardinalityType
  <2>. HIDE DEF all
  <2>. QED  BY <1>1, <2>1, <2>2, <2>3 DEF Rank
<1>3. ASSUME NEW p \in all, NEW q \in all, Precedes(p, q, want.sort)
      PROVE  Rank(p, want) # Rank(q, want)
  <2>1. /\ Before(p, want) \in SUBSET Before(q, want)
        /\ p \in Before(q, want) /\ p \notin Before(p, want)
    BY <1>3, OrderIsTotal DEF Before
  <2>2. Cardinality(Before(p, want)) # Cardinality(Before(q, want))
    BY <1>2, <2>1, FS_Subset
  <2>. QED  BY <1>2, <2>2 DEF Rank
<1>4. ASSUME NEW p \in all, NEW q \in all, Rank(p, want) = Rank(q, want)
      PROVE  p = q
  BY <1>3, <1>4, OrderIsTotal
<1>. QED  BY <1>2, <1>4

(* The rows that LIMIT and OFFSET select from n. *)
LEMMA WindowSize ==
  ASSUME NEW n \in Nat, NEW limit \in Nat, NEW offset \in Nat
  PROVE  /\ Cardinality(Window(n, limit, offset)) =
              IF n <= offset THEN 0 ELSE IF offset + limit <= n THEN limit ELSE n - offset
         /\ Cardinality(Window(n, limit, offset)) \in Nat
<1>. DEFINE to == IF offset + limit <= n THEN offset + limit ELSE n
<1>1. to \in Int /\ offset + 1 \in Int
  OBVIOUS
<1>2. Window(n, limit, offset) = (offset + 1)..to
  BY DEF Window
<1>3. Cardinality((offset + 1)..to) = IF offset + 1 > to THEN 0 ELSE to - (offset + 1) + 1
  <2>. HIDE DEF to
  <2>. QED  BY <1>1, FS_Interval
<1>4. Cardinality(Window(n, limit, offset)) =
        IF offset + 1 > to THEN 0 ELSE to - (offset + 1) + 1
  BY <1>2, <1>3
<1>. QED  BY <1>4

LEMMA ListedRows ==
  ASSUME NEW want, NEW page, NEW rows \in ListProducts(want, page)
  PROVE  LET n == Matched(want)
             offset == Offset(page, want.limit) IN
         \E s \in [1..n -> Matching(want.kind)] :
           /\ \A i, j \in 1..n : i # j => s[i] # s[j]
           /\ \A i, j \in 1..n : i < j => ~Precedes(s[j], s[i], want.sort)
           /\ rows = [i \in 1..Cardinality(Window(n, want.limit, offset)) |-> s[offset + i]]
<1>. DEFINE n == Matched(want)
            offset == Offset(page, want.limit)
<1>1. n \in Nat
  BY MatchingFinite
<1>2. PICK s \in SetToSeqs(Matching(want.kind)) :
        /\ \A i, j \in DOMAIN s : i < j => ~Precedes(s[j], s[i], want.sort)
        /\ rows = [i \in 1..Cardinality(Window(Len(s), want.limit, offset)) |-> s[offset + i]]
  BY DEF ListProducts
<1>3. s \in [1..n -> Matching(want.kind)] /\ \A i, j \in 1..n : i # j => s[i] # s[j]
  BY DEF SetToSeqs, Matched
<1>4. Len(s) = n
  BY <1>1, <1>3
<1>. QED  BY <1>2, <1>3, <1>4

(* In a sorted list the product at place i has rank i. *)
LEMMA PlaceIsRank ==
  ASSUME variants \in [Variants -> 0..MaxPrice], NEW want, Settled(want),
         NEW s \in [1..Matched(want) -> Matching(want.kind)],
         \A i, j \in 1..Matched(want) : i # j => s[i] # s[j],
         \A i, j \in 1..Matched(want) : i < j => ~Precedes(s[j], s[i], want.sort),
         NEW i \in 1..Matched(want)
  PROVE  Rank(s[i], want) = i
<1>. DEFINE n == Matched(want)
            all == Matching(want.kind)
            first == [j \in 1..(i - 1) |-> s[j]]
<1>1. n \in Nat /\ n = Cardinality(all) /\ IsFiniteSet(all) /\ i \in 1..n
  BY MatchingFinite DEF Matched
<1>. HIDE DEF n
<1>2. \A q \in all : \E j \in 1..n : s[j] = q
  <2>1. s \in Injection(1..n, all)
    BY DEF Injection, IsInjective, n
  <2>2. IsFiniteSet(1..n) /\ Cardinality(1..n) = n
    BY <1>1, FS_Interval
  <2>. HIDE DEF all
  <2>3. s \in Surjection(1..n, all)
    BY <1>1, <2>1, <2>2, FS_Injection
  <2>. QED  BY <2>3 DEF Surjection
<1>3. \A j \in 1..n : Precedes(s[j], s[i], want.sort) <=> j < i
  <2>. SUFFICES ASSUME NEW j \in 1..n
                PROVE  Precedes(s[j], s[i], want.sort) <=> j < i
    OBVIOUS
  <2>1. s[i] \in all /\ s[j] \in all /\ i \in Int /\ j \in Int
    BY <1>1 DEF n
  <2>2. CASE j = i
    <3>1. ~Precedes(s[i], s[i], want.sort)
      BY <2>1, OrderIsTotal
    <3>. QED  BY <2>1, <2>2, <3>1
  <2>3. CASE j < i
    <3>1. s[j] # s[i] /\ ~Precedes(s[i], s[j], want.sort)
      BY <1>1, <2>1, <2>3 DEF n
    <3>. QED  BY <2>1, <2>3, <3>1, OrderIsTotal
  <2>4. CASE j > i
    BY <1>1, <2>1, <2>4 DEF n
  <2>. QED  BY <2>1, <2>2, <2>3, <2>4
<1>4. Before(s[i], want) = {s[j] : j \in 1..(i - 1)}
  <2>1. 1..(i - 1) \in SUBSET (1..n) /\ \A j \in 1..n : j < i <=> j \in 1..(i - 1)
    BY <1>1
  <2>2. \A j \in 1..n : s[j] \in all
    BY DEF n
  <2>3. \A q : q \in Before(s[i], want) <=> q \in all /\ Precedes(q, s[i], want.sort)
    BY DEF Before
  <2>. HIDE DEF all
  <2>. QED  BY <1>2, <1>3, <2>1, <2>2, <2>3
<1>5. Cardinality(Before(s[i], want)) = i - 1
  <2>1. 1..(i - 1) \in SUBSET (1..n) /\ i - 1 \in Nat
    BY <1>1
  <2>2. first \in Bijection(1..(i - 1), Before(s[i], want))
    <3>1. \A j, k \in 1..(i - 1) : s[j] = s[k] => j = k
      BY <2>1 DEF n
    <3>. QED  BY <1>4, <3>1 DEF Bijection, Injection, Surjection, IsInjective
  <2>3. IsFiniteSet(1..(i - 1)) /\ Cardinality(1..(i - 1)) = i - 1
    BY <2>1, FS_Interval
  <2>. HIDE DEF first
  <2>. QED  BY <2>2, <2>3, FS_Bijection DEF ExistsBijection
<1>. QED  BY <1>1, <1>5 DEF Rank

LEMMA CataloguePageInReach ==
  ASSUME NEW page \in Nat \ {0}, NEW limit \in 1..MaxLimit,
         (page - 1) * limit <= Cardinality(Products)
  PROVE  /\ Offset(page, limit) \in Nat
         /\ Cardinality(Products) <= MaxOffset => Offset(page, limit) = (page - 1) * limit
<1>1. /\ ClampLimit(limit) = limit /\ limit \in Int /\ page \in Int
      /\ MaxOffset \in Nat /\ IntMax \in Nat
  BY LimitType, PagingAssumption
<1>2. Skip(page, limit) = (page - 1) * limit
  BY <1>1 DEF Skip, ClampPage
<1>3. Cardinality(Products) \in Nat /\ Cardinality(Products) <= IntMax
  BY CatalogueAssumption, FS_CardinalityType
<1>4. Skip(page, limit) \in Nat
  BY <1>1, SkipType
<1>5. Skip(page, limit) <= IntMax
  BY <1>1, <1>2, <1>3, <1>4
<1>6. /\ Offset(page, limit) = IF Skip(page, limit) > MaxOffset THEN MaxOffset ELSE Skip(page, limit)
      /\ Offset(page, limit) \in 0..MaxOffset
  BY <1>1, <1>5, OffsetIsExact
<1>. QED  BY <1>1, <1>2, <1>3, <1>4, <1>6

(* A page: its rows are products, as many as the window has places, and their
   ranks go on from the offset. *)
LEMMA PageListed ==
  ASSUME variants \in [Variants -> 0..MaxPrice],
         NEW want, NEW page \in Nat \ {0}, want.limit \in 1..MaxLimit,
         (page - 1) * want.limit <= Cardinality(Products),
         NEW rows \in ListProducts(want, page)
  PROVE  /\ rows \in Seq(Products)
         /\ Len(rows) = Cardinality(Window(Matched(want), want.limit, Offset(page, want.limit)))
         /\ Settled(want) => Ranked(rows, (page - 1) * want.limit, want)
<1>. DEFINE n == Matched(want)
            offset == Offset(page, want.limit)
            size == Cardinality(Window(n, want.limit, offset))
<1>1. /\ n \in Nat /\ offset \in Nat /\ want.limit \in Nat
      /\ Matching(want.kind) \in SUBSET Products
      /\ Cardinality(Products) <= MaxOffset => offset = (page - 1) * want.limit
  <2>1. want.limit \in Nat
    BY PagingAssumption
  <2>. QED  BY <2>1, MatchingFinite, CataloguePageInReach
<1>2. PICK s \in [1..n -> Matching(want.kind)] :
        /\ \A i, j \in 1..n : i # j => s[i] # s[j]
        /\ \A i, j \in 1..n : i < j => ~Precedes(s[j], s[i], want.sort)
        /\ rows = [i \in 1..size |-> s[offset + i]]
  BY ListedRows
<1>3. Settled(want) => \A i \in 1..n : Rank(s[i], want) = i
  BY <1>2, PlaceIsRank
<1>. HIDE DEF n, offset
<1>4. size \in Nat /\ \A i \in 1..size : offset + i \in 1..n
  <2>1. size = IF n <= offset THEN 0
               ELSE IF offset + want.limit <= n THEN want.limit ELSE n - offset
    BY <1>1, WindowSize
  <2>2. size \in Nat
    BY <1>1, WindowSize
  <2>. HIDE DEF size
  <2>. QED  BY <1>1, <2>1, <2>2
<1>. HIDE DEF size
<1>5. \A i \in 1..size : rows[i] = s[offset + i] /\ s[offset + i] \in Matching(want.kind)
  BY <1>2, <1>4
<1>6. rows \in Seq(Products) /\ Len(rows) = size /\ DOMAIN rows = 1..size
  <2>1. rows \in [1..size -> Products]
    BY <1>1, <1>2, <1>5
  <2>. QED  BY <1>4, <2>1
<1>7. ASSUME Settled(want)
      PROVE  Ranked(rows, (page - 1) * want.limit, want)
  <2>1. offset = (page - 1) * want.limit
    BY <1>1, <1>7 DEF Settled
  <2>2. \A i \in 1..size : rows[i] \in Matching(want.kind) /\ Rank(rows[i], want) = offset + i
    BY <1>3, <1>4, <1>5, <1>7
  <2>. QED  BY <1>6, <2>1, <2>2 DEF Ranked
<1>. QED  BY <1>6, <1>7 DEF size, n, offset

----------------------------------------------------------------------------
(* The steps of the catalogue *)

(* A client moves: the invariant is asked of its own state only. *)
LEMMA BrowserMoves ==
  ASSUME CatalogueInv, NEW b \in Browsing, NEW x \in Browser,
         browsing' = [browsing EXCEPT ![b] = x],
         UNCHANGED <<products, variants, catalogueEdits>>,
         Bounded(x), Fits(x), Prefix(x)
  PROVE  CatalogueInv'
<1>1. /\ browsing' \in [Browsing -> Browser]
      /\ products' \in [Products -> ProductStatus] /\ variants' \in [Variants -> 0..MaxPrice]
      /\ catalogueEdits' \in 0..MaxCatalogueEdits
  BY DEF CatalogueInv
<1>2. ASSUME NEW e \in Browsing
      PROVE  (Bounded(browsing[e]) /\ Fits(browsing[e]) /\ Prefix(browsing[e]))'
  <2>1. PICK y : y = browsing'[e]
    OBVIOUS
  <2>2. Bounded(y) /\ Fits(y) /\ Prefix(y)
    BY <2>1 DEF CatalogueInv
  <2>3. \A kind : Matching(kind)' = Matching(kind)
    BY DEF Matching
  <2>4. \A p, q, sort : Precedes(p, q, sort)' <=> Precedes(p, q, sort)
    <3>1. \A p : PriceFrom(p)' = PriceFrom(p)
      BY DEF PriceFrom, Offers
    <3>2. \A p, sort : SortKey(p, sort)' = SortKey(p, sort)
      BY <3>1 DEF SortKey
    <3>. QED  BY <3>2 DEF Precedes
  <2>5. \A p, want : Rank(p, want)' = Rank(p, want)
    <3>1. \A p, want : Before(p, want)' = Before(p, want)
      BY <2>3, <2>4 DEF Before
    <3>. QED  BY <3>1 DEF Rank
  <2>6. /\ \A want : Matched(want)' = Matched(want)
        /\ \A want : Settled(want)' <=> Settled(want)
        /\ \A s, n, want : Ranked(s, n, want)' <=> Ranked(s, n, want)
    BY <2>3, <2>5 DEF Matched, Settled, Ranked
  <2>7. Prefix(y)'
    BY <2>2, <2>3, <2>6 DEF Prefix
  <2>8. (Bounded(y) /\ Fits(y) /\ Prefix(y))'
    BY <2>2, <2>7 DEF Bounded, Fits, PageOf
  <2>. QED  BY <2>1, <2>8
<1>. QED  BY <1>1, <1>2 DEF CatalogueInv

(* After an edit nobody's reading counts as one of an unchanged catalogue. *)
LEMMA EditKeepsInv ==
  ASSUME CatalogueInv,
         \/ \E p \in Products, status \in ProductStatus : EditProduct(p, status)
         \/ \E v \in Variants, price \in 0..MaxPrice : EditVariant(v, price)
  PROVE  CatalogueInv'
<1>1. /\ browsing' = browsing /\ catalogueEdits' = catalogueEdits + 1
      /\ catalogueEdits \in 0..MaxCatalogueEdits /\ catalogueEdits < MaxCatalogueEdits
      /\ MaxCatalogueEdits \in Nat
  BY CatalogueAssumption DEF EditProduct, EditVariant, CatalogueInv
<1>2. products' \in [Products -> ProductStatus] /\ variants' \in [Variants -> 0..MaxPrice]
  BY DEF EditProduct, EditVariant, CatalogueInv
<1>3. ASSUME NEW b \in Browsing
      PROVE  (Bounded(browsing[b]) /\ Fits(browsing[b]) /\ Prefix(browsing[b]))'
  <2>1. PICK x \in Browser : x = browsing[b]
    BY DEF CatalogueInv
  <2>2. Bounded(x) /\ Fits(x) /\ x.since <= catalogueEdits /\ x.since \in Nat
    BY <2>1 DEF CatalogueInv, Prefix, Browser
  <2>3. x.since <= catalogueEdits' /\ x.since # catalogueEdits'
    BY <1>1, <2>2
  <2>4. Prefix(x)'
    BY <2>2, <2>3 DEF Prefix
  <2>5. (Bounded(x) /\ Fits(x) /\ Prefix(x))'
    BY <2>2, <2>4 DEF Bounded, Fits, PageOf
  <2>. QED  BY <1>1, <2>1, <2>5
<1>4. catalogueEdits' \in 0..MaxCatalogueEdits
  BY <1>1
<1>. QED  BY <1>1, <1>2, <1>3, <1>4 DEF CatalogueInv

LEMMA RequestStep ==
  ASSUME CatalogueInv, NEW b \in Browsing, NEW want \in Wanted, RequestPage(b, want)
  PROVE  CatalogueInv'
<1>1. PICK w \in Browser : w = browsing[b]
  BY DEF CatalogueInv
<1>2. /\ w.at = "start" /\ w.page = 1 /\ w.seen = <<>> /\ w.total <= Cardinality(Products)
      /\ w.since <= catalogueEdits /\ catalogueEdits \in Nat
      /\ UNCHANGED <<products, variants, catalogueEdits>>
  BY <1>1, CatalogueAssumption DEF RequestPage, CatalogueInv, Bounded, Prefix
<1>3. CASE Rejected(want.limit)
  <2>1. PICK x : x = [w EXCEPT !.at = "rejected"]
    OBVIOUS
  <2>2. browsing' = [browsing EXCEPT ![b] = x]
    BY <1>1, <1>3, <2>1 DEF RequestPage
  <2>3. x \in Browser /\ x.at = "rejected" /\ x.total = w.total /\ x.since = w.since
    BY <1>1, <2>1 DEF Browser
  <2>4. Bounded(x) /\ Fits(x) /\ Prefix(x)
    BY <1>2, <2>3 DEF Bounded, Fits, Prefix
  <2>. QED  BY <1>2, <2>2, <2>3, <2>4, BrowserMoves
<1>4. CASE ~Rejected(want.limit)
  <2>. DEFINE limit == ClampLimit(ParseOr(want.limit, DefaultLimit))
              asked == [want EXCEPT !.limit = limit]
  <2>1. PICK x : x = [w EXCEPT !.at = "list", !.since = catalogueEdits, !.want = asked]
    OBVIOUS
  <2>2. browsing' = [browsing EXCEPT ![b] = x]
    BY <1>1, <1>4, <2>1 DEF RequestPage
  <2>3. limit \in 1..MaxLimit
    <3>1. ParseOr(want.limit, DefaultLimit) \in Int
      <4>1. want.limit \in Int \cup {Absent, Malformed} /\ want.limit # Malformed
        BY <1>4, CatalogueAssumption DEF Rejected
      <4>. QED  BY <4>1, PagingAssumption DEF ParseOr
    <3>. QED  BY <3>1, LimitType
  <2>4. asked \in Wants /\ asked.limit = limit
    <3>1. want = [kind |-> want.kind, sort |-> want.sort, limit |-> want.limit]
      BY CatalogueAssumption
    <3>. HIDE DEF limit
    <3>. QED  BY <2>3, <3>1 DEF Wants
  <2>. HIDE DEF limit, asked
  <2>5. /\ x \in Browser /\ x.at = "list" /\ x.page = 1 /\ x.seen = <<>> /\ x.want.limit = limit
        /\ x.total = w.total /\ x.since = catalogueEdits
    BY <1>1, <1>2, <2>1, <2>4 DEF Browser
  <2>6. limit \in Int /\ (x.page - 1) * x.want.limit = 0 /\ Cardinality(Products) \in Nat
    BY <2>3, <2>5, MatchingFinite
  <2>7. Bounded(x) /\ Fits(x)
    BY <1>2, <2>3, <2>5, <2>6 DEF Bounded, Fits
  <2>8. Prefix(x)
    <3>1. Ranked(x.seen, 0, x.want) /\ Len(x.seen) = 0 /\ Matched(x.want) \in Nat
      BY <2>5, MatchingFinite DEF Ranked
    <3>. QED  BY <1>2, <2>5, <2>6, <3>1 DEF Prefix
  <2>. QED  BY <1>2, <2>2, <2>5, <2>7, <2>8, BrowserMoves
<1>. QED  BY <1>3, <1>4

LEMMA ListPageStep ==
  ASSUME CatalogueInv, NEW b \in Browsing, ListPage(b)
  PROVE  CatalogueInv'
<1>1. PICK w \in Browser : w = browsing[b]
  BY DEF CatalogueInv
<1>. DEFINE want == w.want
<1>2. /\ w.at = "list" /\ UNCHANGED <<products, variants, catalogueEdits>>
      /\ variants \in [Variants -> 0..MaxPrice] /\ Bounded(w) /\ Prefix(w)
  BY <1>1 DEF ListPage, CatalogueInv
<1>3. PICK rows \in ListProducts(want, w.page) :
        browsing' = [browsing EXCEPT ![b] =
          [w EXCEPT !.at = "count", !.rows = rows, !.snapshot = Matching(want.kind)]]
  BY <1>1 DEF ListPage
<1>4. PICK x : x = [w EXCEPT !.at = "count", !.rows = rows, !.snapshot = Matching(want.kind)]
  OBVIOUS
<1>5. /\ w.page \in Nat \ {0} /\ want.limit \in 1..MaxLimit
      /\ (w.page - 1) * want.limit <= Cardinality(Products)
      /\ w.total <= Cardinality(Products)
  BY <1>1, <1>2 DEF Bounded, Browser
<1>6. /\ rows \in Seq(Products)
      /\ Len(rows) = Cardinality(Window(Matched(want), want.limit, Offset(w.page, want.limit)))
      /\ Settled(want) => Ranked(rows, (w.page - 1) * want.limit, want)
  BY <1>2, <1>5, PageListed
<1>7. Matching(want.kind) \in SUBSET Products
  BY MatchingFinite
<1>8. /\ x.at = "count" /\ x.page = w.page /\ x.want = want /\ x.rows = rows
      /\ x.snapshot = Matching(want.kind) /\ x.seen = w.seen /\ x.since = w.since
      /\ x.total = w.total /\ x \in Browser
  BY <1>1, <1>4, <1>6, <1>7 DEF Browser
<1>. HIDE DEF want
<1>9. Bounded(x) /\ Fits(x)
  BY <1>5, <1>6, <1>8 DEF Bounded, Fits, PageOf, Matched
<1>10. Prefix(x)
  <2>1. /\ w.since <= catalogueEdits
        /\ w.since = catalogueEdits /\ Settled(want) =>
             /\ Ranked(w.seen, 0, want) /\ Len(w.seen) = (w.page - 1) * want.limit
             /\ Len(w.seen) <= Matched(want)
    BY <1>2 DEF Prefix, want
  <2>. QED  BY <1>6, <1>8, <2>1 DEF Prefix
<1>. QED  BY <1>2, <1>3, <1>4, <1>8, <1>9, <1>10, BrowserMoves DEF want

LEMMA RankedAppend ==
  ASSUME NEW s \in Seq(Products), NEW t \in Seq(Products), NEW want,
         Ranked(s, 0, want), Ranked(t, Len(s), want)
  PROVE  Ranked(s \o t, 0, want)
<1>1. /\ DOMAIN s = 1..Len(s) /\ DOMAIN t = 1..Len(t) /\ Len(s) \in Nat /\ Len(t) \in Nat
      /\ DOMAIN (s \o t) = 1..(Len(s) + Len(t))
      /\ \A i \in 1..(Len(s) + Len(t)) :
           (s \o t)[i] = IF i <= Len(s) THEN s[i] ELSE t[i - Len(s)]
  OBVIOUS
<1>2. ASSUME NEW i \in 1..(Len(s) + Len(t))
      PROVE  (s \o t)[i] \in Matching(want.kind) /\ Rank((s \o t)[i], want) = 0 + i
  <2>1. CASE i <= Len(s)
    <3>1. i \in DOMAIN s /\ (s \o t)[i] = s[i]
      BY <1>1, <2>1
    <3>. QED  BY <3>1 DEF Ranked
  <2>2. CASE i > Len(s)
    <3>1. i - Len(s) \in DOMAIN t /\ (s \o t)[i] = t[i - Len(s)]
      BY <1>1, <2>2
    <3>2. Rank(t[i - Len(s)], want) = Len(s) + (i - Len(s)) /\ Len(s) + (i - Len(s)) = 0 + i
      BY <1>1, <3>1 DEF Ranked
    <3>3. t[i - Len(s)] \in Matching(want.kind)
      BY <3>1 DEF Ranked
    <3>. QED  BY <3>1, <3>2, <3>3
  <2>. QED  BY <1>1, <2>1, <2>2
<1>. QED  BY <1>1, <1>2 DEF Ranked

(* A page of r rows after s others, of n in all. *)
LEMMA PageFilled ==
  ASSUME NEW s \in Nat, NEW r \in Nat, NEW limit \in Nat, NEW n \in Nat, limit > 0, s <= n,
         r = IF n <= s THEN 0 ELSE IF s + limit <= n THEN limit ELSE n - s
  PROVE  /\ s + r <= n
         /\ s + r = s + limit \/ (s + r = n /\ n <= s + limit)
OBVIOUS

LEMMA CountPageStep ==
  ASSUME CatalogueInv, NEW b \in Browsing, CountPage(b)
  PROVE  CatalogueInv'
<1>1. PICK w \in Browser : w = browsing[b]
  BY DEF CatalogueInv
<1>. DEFINE want == w.want
            n == Cardinality(w.snapshot)
            seen == w.seen \o w.rows
<1>2. /\ w.at = "count" /\ UNCHANGED <<products, variants, catalogueEdits>>
      /\ Bounded(w) /\ Fits(w) /\ Prefix(w)
  BY <1>1 DEF CountPage, CatalogueInv
<1>3. PICK x : x = [w EXCEPT !.at = "shown", !.total = n, !.snapshot = {}, !.seen = seen]
  OBVIOUS
<1>4. browsing' = [browsing EXCEPT ![b] = x]
  BY <1>1, <1>3 DEF CountPage, CountProducts
<1>5. n \in Nat /\ n <= Cardinality(Products)
  <2>1. w.snapshot \in SUBSET Products /\ IsFiniteSet(Products)
    BY <1>1, CatalogueAssumption DEF Browser
  <2>. QED  BY <2>1, FS_Subset, FS_CardinalityType
<1>6. w.seen \in Seq(Products) /\ w.rows \in Seq(Products) /\ seen \in Seq(Products)
      /\ Len(seen) = Len(w.seen) + Len(w.rows)
  BY <1>1 DEF Browser
<1>. HIDE DEF seen, n
<1>7. /\ x.at = "shown" /\ x.page = w.page /\ x.want = want /\ x.rows = w.rows
      /\ x.total = n /\ x.seen = seen /\ x.since = w.since /\ x \in Browser
  BY <1>1, <1>3, <1>5, <1>6 DEF Browser
<1>8. /\ w.page \in Nat \ {0} /\ want.limit \in 1..MaxLimit
      /\ (w.page - 1) * want.limit <= Cardinality(Products)
      /\ Len(w.rows) = Cardinality(Window(n, want.limit, Offset(w.page, want.limit)))
  BY <1>1, <1>2 DEF Bounded, Fits, PageOf, Browser, n
<1>. HIDE DEF want
<1>9. Bounded(x) /\ Fits(x)
  BY <1>5, <1>7, <1>8 DEF Bounded, Fits, PageOf
<1>10. Prefix(x)
  <2>1. w.since <= catalogueEdits
    BY <1>2 DEF Prefix
  <2>2. ASSUME w.since = catalogueEdits, Settled(want)
        PROVE  /\ Ranked(seen, 0, want) /\ n = Matched(want)
               /\ \/ Len(seen) = w.page * want.limit
                  \/ Len(seen) = n /\ n <= w.page * want.limit
               /\ Len(seen) <= n
    <3>1. /\ Ranked(w.seen, 0, want) /\ Ranked(w.rows, Len(w.seen), want)
          /\ Len(w.seen) = (w.page - 1) * want.limit /\ Len(w.seen) <= Matched(want)
          /\ n = Matched(want)
      BY <1>2, <2>2 DEF Prefix, Matched, n, want
    <3>2. Offset(w.page, want.limit) = Len(w.seen)
      BY <1>8, <2>2, <3>1, CataloguePageInReach DEF Settled
    <3>3. Len(w.seen) \in Nat /\ want.limit \in Nat /\ want.limit > 0 /\ w.page \in Nat
      BY <1>6, <1>8, PagingAssumption
    <3>4. Len(w.rows) = IF n <= Len(w.seen) THEN 0
                        ELSE IF Len(w.seen) + want.limit <= n THEN want.limit ELSE n - Len(w.seen)
      <4>1. Cardinality(Window(n, want.limit, Len(w.seen))) =
              IF n <= Len(w.seen) THEN 0
              ELSE IF Len(w.seen) + want.limit <= n THEN want.limit ELSE n - Len(w.seen)
        BY <1>5, <3>3, WindowSize
      <4>. QED  BY <1>8, <3>2, <4>1
    <3>5. w.page * want.limit = (w.page - 1) * want.limit + want.limit
      BY <3>3
    <3>6. \/ Len(seen) = w.page * want.limit
          \/ Len(seen) = n /\ n <= w.page * want.limit
      <4>1. w.page * want.limit = Len(w.seen) + want.limit
        BY <3>1, <3>5
      <4>2. Len(w.rows) \in Nat
        BY <1>6
      <4>. QED  BY <1>5, <1>6, <3>1, <3>3, <3>4, <4>1, <4>2, PageFilled
    <3>7. Len(seen) <= n
      BY <1>5, <1>6, <3>1, <3>3, <3>4
    <3>8. Ranked(seen, 0, want)
      BY <1>6, <3>1, RankedAppend DEF seen
    <3>. QED  BY <3>1, <3>6, <3>7, <3>8
  <2>. QED  BY <1>7, <2>1, <2>2 DEF Prefix
<1>. QED  BY <1>2, <1>4, <1>7, <1>9, <1>10, BrowserMoves

LEMMA TurnPageStep ==
  ASSUME CatalogueInv, NEW b \in Browsing, TurnPage(b)
  PROVE  CatalogueInv'
<1>1. PICK w \in Browser : w = browsing[b]
  BY DEF CatalogueInv
<1>. DEFINE want == w.want
            next == HasNext(w.page, want.limit, w.total)
<1>2. /\ w.at = "shown" /\ UNCHANGED <<products, variants, catalogueEdits>>
      /\ Bounded(w) /\ Prefix(w)
  BY <1>1 DEF TurnPage, CatalogueInv
<1>3. /\ w.page \in Nat \ {0} /\ want.limit \in 1..MaxLimit /\ want.limit \in Nat
      /\ w.total \in Nat /\ w.total <= Cardinality(Products) /\ w.seen \in Seq(Products)
  BY <1>1, <1>2, PagingAssumption DEF Bounded, Browser
<1>4. /\ w.since <= catalogueEdits
      /\ w.since = catalogueEdits /\ Settled(want) =>
           /\ Ranked(w.seen, 0, want) /\ w.total = Matched(want)
           /\ \/ Len(w.seen) = w.page * want.limit
              \/ Len(w.seen) = Matched(want) /\ Matched(want) <= w.page * want.limit
           /\ Len(w.seen) <= Matched(want)
  BY <1>2 DEF Prefix
<1>. HIDE DEF want
<1>5. Matched(want) \in Nat /\ Cardinality(Products) \in Nat /\ w.page * want.limit \in Nat
      /\ Len(w.seen) \in Nat
  <2>1. w.page * want.limit \in Nat /\ Len(w.seen) \in Nat
    BY <1>3
  <2>. QED  BY <2>1, MatchingFinite
<1>6. CASE next
  <2>1. PICK x : x = [w EXCEPT !.at = "list", !.page = w.page + 1]
    OBVIOUS
  <2>2. browsing' = [browsing EXCEPT ![b] = x]
    BY <1>1, <1>6, <2>1 DEF TurnPage, want
  <2>3. /\ x.at = "list" /\ x.page = w.page + 1 /\ x.want = want /\ x.rows = w.rows
        /\ x.total = w.total /\ x.seen = w.seen /\ x.since = w.since /\ x \in Browser
    <3>1. w.page + 1 \in Nat \ {0}
      BY <1>3
    <3>. QED  BY <1>1, <2>1, <3>1 DEF Browser, want
  <2>4. x.page - 1 = w.page /\ w.page * want.limit < w.total
    BY <1>3, <1>6, <2>3 DEF HasNext
  <2>5. w.page * want.limit <= Cardinality(Products)
    BY <1>3, <1>5, <2>4
  <2>6. Bounded(x) /\ Fits(x)
    BY <1>3, <2>3, <2>4, <2>5 DEF Bounded, Fits
  <2>7. ASSUME w.since = catalogueEdits, Settled(want)
        PROVE  Len(w.seen) = w.page * want.limit
    BY <1>4, <1>5, <2>4, <2>7
  <2>8. Prefix(x)
    BY <1>4, <2>3, <2>4, <2>7 DEF Prefix
  <2>. QED  BY <1>2, <2>2, <2>3, <2>6, <2>8, BrowserMoves
<1>7. CASE ~next
  <2>1. PICK x : x = [w EXCEPT !.at = "done"]
    OBVIOUS
  <2>2. browsing' = [browsing EXCEPT ![b] = x]
    BY <1>1, <1>7, <2>1 DEF TurnPage, want
  <2>3. /\ x.at = "done" /\ x.want = want /\ x.total = w.total /\ x.seen = w.seen
        /\ x.since = w.since /\ x \in Browser
    BY <1>1, <2>1 DEF Browser, want
  <2>4. w.total <= w.page * want.limit
    BY <1>3, <1>5, <1>7 DEF HasNext
  <2>5. Bounded(x) /\ Fits(x)
    BY <1>3, <2>3 DEF Bounded, Fits
  <2>6. ASSUME w.since = catalogueEdits, Settled(want)
        PROVE  Len(w.seen) = Matched(want)
    BY <1>4, <1>5, <2>4, <2>6
  <2>7. Prefix(x)
    BY <1>4, <2>3, <2>6 DEF Prefix
  <2>. QED  BY <1>2, <2>2, <2>3, <2>5, <2>7, BrowserMoves
<1>. QED  BY <1>6, <1>7

LEMMA OtherReadStep ==
  ASSUME CatalogueInv, NEW b \in Browsing,
         \/ ReadFails(b) \/ ListVariants(b)
         \/ \E p \in Products : GetProduct(b, p)
  PROVE  CatalogueInv'
<1>1. PICK w \in Browser : w = browsing[b]
  BY DEF CatalogueInv
<1>2. w.total <= Cardinality(Products) /\ w.since <= catalogueEdits
  BY <1>1 DEF CatalogueInv, Bounded, Prefix
<1>3. \E x \in Browser :
        /\ browsing' = [browsing EXCEPT ![b] = x] /\ x.total = w.total /\ x.since = w.since
        /\ x.at \in {"failed", "variants", "notFound", "detail"}
        /\ UNCHANGED <<products, variants, catalogueEdits>>
  <2>1. CASE ReadFails(b)
    <3>1. PICK x : x = [w EXCEPT !.at = "failed", !.snapshot = {}]
      OBVIOUS
    <3>2. x \in Browser /\ x.total = w.total /\ x.since = w.since /\ x.at = "failed"
      BY <1>1, <3>1 DEF Browser
    <3>. QED  BY <1>1, <2>1, <3>1, <3>2 DEF ReadFails
  <2>2. CASE ListVariants(b)
    <3>1. PICK x : x = [w EXCEPT !.at = "detail", !.offers = Offers(w.rows[1])]
      OBVIOUS
    <3>2. Offers(w.rows[1]) \in SUBSET Variants
      BY DEF Offers
    <3>3. x \in Browser /\ x.total = w.total /\ x.since = w.since /\ x.at = "detail"
      BY <1>1, <3>1, <3>2 DEF Browser
    <3>. QED  BY <1>1, <2>2, <3>1, <3>3 DEF ListVariants
  <2>3. CASE \E p \in Products : GetProduct(b, p)
    <3>1. PICK p \in Products : GetProduct(b, p)
      BY <2>3
    <3>2. CASE GetProductBySlug(p)
      <4>1. PICK x : x = [w EXCEPT !.at = "variants", !.rows = <<p>>]
        OBVIOUS
      <4>2. <<p>> \in Seq(Products)
        BY <3>1
      <4>3. x \in Browser /\ x.total = w.total /\ x.since = w.since /\ x.at = "variants"
        <5>. DEFINE row == <<p>>
        <5>. HIDE DEF row
        <5>. QED  BY <1>1, <4>1, <4>2 DEF Browser, row
      <4>. QED  BY <1>1, <3>1, <3>2, <4>1, <4>3 DEF GetProduct
    <3>3. CASE ~GetProductBySlug(p)
      <4>1. PICK x : x = [w EXCEPT !.at = "notFound"]
        OBVIOUS
      <4>2. x \in Browser /\ x.total = w.total /\ x.since = w.since /\ x.at = "notFound"
        BY <1>1, <4>1 DEF Browser
      <4>. QED  BY <1>1, <3>1, <3>3, <4>1, <4>2 DEF GetProduct
    <3>. QED  BY <3>2, <3>3
  <2>. QED  BY <2>1, <2>2, <2>3
<1>4. PICK x \in Browser :
        /\ browsing' = [browsing EXCEPT ![b] = x] /\ x.total = w.total /\ x.since = w.since
        /\ x.at \in {"failed", "variants", "notFound", "detail"}
        /\ UNCHANGED <<products, variants, catalogueEdits>>
  BY <1>3
<1>5. Bounded(x) /\ Fits(x) /\ Prefix(x)
  BY <1>2, <1>4 DEF Bounded, Fits, Prefix
<1>. QED  BY <1>4, <1>5, BrowserMoves

LEMMA CatalogueInitInv ==
  ASSUME CatalogueInit
  PROVE  CatalogueInv
<1>1. Cardinality(Products) \in Nat
  BY MatchingFinite
<1>2. MaxCatalogueEdits \in Nat /\ (CHOOSE w \in Wanted : TRUE) \in Wanted
  BY CatalogueAssumption
<1>3. products \in [Products -> ProductStatus] /\ variants \in [Variants -> 0..MaxPrice]
      /\ catalogueEdits \in 0..MaxCatalogueEdits /\ catalogueEdits = 0
  BY <1>2 DEF CatalogueInit, ProductStatus
<1>4. <<>> \in Seq(Products)
  OBVIOUS
<1>5. browsing \in [Browsing -> Browser]
  BY <1>2, <1>4 DEF CatalogueInit, Browser, Wants
<1>6. ASSUME NEW b \in Browsing
      PROVE  Bounded(browsing[b]) /\ Fits(browsing[b]) /\ Prefix(browsing[b])
  <2>1. /\ browsing[b].at = "start" /\ browsing[b].page = 1 /\ browsing[b].seen = <<>>
        /\ browsing[b].total = 0 /\ browsing[b].since = 0
    BY DEF CatalogueInit
  <2>. QED  BY <1>1, <1>3, <2>1 DEF Bounded, Fits, Prefix
<1>. QED  BY <1>3, <1>5, <1>6 DEF CatalogueInv

LEMMA CatalogueStutter ==
  ASSUME CatalogueInv, UNCHANGED catalogueVars
  PROVE  CatalogueInv'
<1>1. UNCHANGED <<products, variants, catalogueEdits>> /\ browsing' = browsing
  BY DEF catalogueVars
<1>2. CASE Browsing = {}
  BY <1>1, <1>2 DEF CatalogueInv
<1>3. CASE Browsing # {}
  <2>1. PICK b \in Browsing : TRUE
    BY <1>3
  <2>2. PICK x \in Browser : x = browsing[b]
    BY DEF CatalogueInv
  <2>3. browsing' = [browsing EXCEPT ![b] = x] /\ Bounded(x) /\ Fits(x) /\ Prefix(x)
    BY <1>1, <2>2 DEF CatalogueInv
  <2>. QED  BY <1>1, <2>3, BrowserMoves
<1>. QED  BY <1>2, <1>3

LEMMA CatalogueInvAlways == CatalogueSpec => []CatalogueInv
<1>1. CatalogueInit => CatalogueInv
  BY CatalogueInitInv
<1>2. CatalogueInv /\ [CatalogueNext]_catalogueVars => CatalogueInv'
  <2>. SUFFICES ASSUME CatalogueInv, [CatalogueNext]_catalogueVars
                PROVE  CatalogueInv'
    OBVIOUS
  <2>1. CASE UNCHANGED catalogueVars
    BY <2>1, CatalogueStutter
  <2>2. ASSUME NEW b \in Browsing, NEW want \in Wanted, RequestPage(b, want)
        PROVE  CatalogueInv'
    BY <2>2, RequestStep
  <2>3. ASSUME NEW b \in Browsing, ListPage(b) \/ CountPage(b) \/ TurnPage(b)
        PROVE  CatalogueInv'
    BY <2>3, ListPageStep, CountPageStep, TurnPageStep
  <2>4. ASSUME NEW b \in Browsing,
               ReadFails(b) \/ ListVariants(b) \/ \E p \in Products : GetProduct(b, p)
        PROVE  CatalogueInv'
    BY <2>4, OtherReadStep
  <2>5. CASE \/ \E p \in Products, status \in ProductStatus : EditProduct(p, status)
             \/ \E v \in Variants, price \in 0..MaxPrice : EditVariant(v, price)
    BY <2>5, EditKeepsInv
  <2>. QED  BY <2>1, <2>2, <2>3, <2>4, <2>5 DEF CatalogueNext
<1>. QED  BY <1>1, <1>2, PTL DEF CatalogueSpec

----------------------------------------------------------------------------
(* The theorems of the catalogue *)

(* Every state of the catalogue is well formed: pages, limits and totals stay
   numbers that the queries take, whatever clients ask for. *)
THEOREM CatalogueTypeCorrect == CatalogueSpec => []CatalogueTypeOK
<1>1. CatalogueInv => CatalogueTypeOK
  BY DEF CatalogueInv, CatalogueTypeOK, Bounded, Browser
<1>. QED  BY <1>1, CatalogueInvAlways, PTL

(* Items and total of a page agree even while the catalogue is edited: both
   queries read one snapshot (repository.go of catalog, ListProducts). *)
THEOREM PageAgreesWithTotal == CatalogueSpec => []ItemsAgreeWithTotal
<1>1. CatalogueInv => ItemsAgreeWithTotal
  BY DEF CatalogueInv, Fits, PageOf, ItemsAgreeWithTotal
<1>. QED  BY <1>1, CatalogueInvAlways, PTL

(* Reading every page of a catalogue that nobody edits shows every product
   exactly once, in any order that created_at makes total, if the service can
   skip as many rows as there are products (maxOffset). *)
THEOREM EachShownOnce ==
  ASSUME Cardinality(Products) <= MaxOffset
  PROVE  CatalogueSpec => []PagesShowEachOnce
<1>1. ASSUME CatalogueInv, NEW b \in Browsing, NEW want, want = browsing[b].want,
             browsing[b].at = "done", browsing[b].since = catalogueEdits,
             \A p, q \in Matching(want.kind) : CreatedAt[p] = CreatedAt[q] => p = q,
             NEW p \in Matching(want.kind)
      PROVE  Cardinality({i \in DOMAIN browsing[b].seen : browsing[b].seen[i] = p}) = 1
  <2>1. PICK s : s = browsing[b].seen
    OBVIOUS
  <2>2. Settled(want) /\ variants \in [Variants -> 0..MaxPrice] /\ s \in Seq(Products)
    BY <1>1, <2>1 DEF Settled, CatalogueInv, Browser
  <2>3. Ranked(s, 0, want) /\ Len(s) = Matched(want)
    BY <1>1, <2>1, <2>2 DEF CatalogueInv, Prefix
  <2>4. Rank(p, want) \in 1..Matched(want) /\ Matched(want) \in Nat
    BY <2>2, RanksNumber, MatchingFinite
  <2>5. DOMAIN s = 1..Matched(want)
    BY <2>2, <2>3
  <2>6. \A i \in DOMAIN s : s[i] \in Matching(want.kind) /\ Rank(s[i], want) = i
    BY <2>4, <2>5, <2>3 DEF Ranked
  <2>7. \A i \in DOMAIN s : s[i] = p <=> i = Rank(p, want)
    BY <2>2, <2>6, RanksNumber
  <2>8. {i \in DOMAIN s : s[i] = p} = {Rank(p, want)}
    BY <2>4, <2>5, <2>7
  <2>. QED  BY <2>1, <2>8, FS_Singleton
<1>2. CatalogueInv => PagesShowEachOnce
  BY <1>1 DEF PagesShowEachOnce
<1>. QED  BY <1>2, CatalogueInvAlways, PTL
=============================================================================
