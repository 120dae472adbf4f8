----------------------------- MODULE Catalogue -----------------------------
(***************************************************************************)
(* GET /products and GET /products/:slug (internal/catalog), the list read *)
(* page by page by clients while somebody edits the catalogue.  The page   *)
(* and its total are two queries in one REPEATABLE READ transaction; every *)
(* page is a transaction of its own, and the detail of a product is read   *)
(* by two queries outside any.  The editing is external: no code of the    *)
(* API writes products.                                                    *)
(***************************************************************************)
EXTENDS Paging, SequencesExt

CONSTANTS
  Products, Kind, Name, CreatedAt,  \* the products: type key, rank by name, created_at
  Variants, ProductOf,              \* the variants and the product of each
  MaxPrice,                         \* prices are 1..MaxPrice
  MaxCatalogueEdits,                \* bound on the edits in a behaviour
  Browsing,                         \* clients that read the list
  Wanted,                           \* what they may ask for: kind, sort and limit
  AnyKind, Absent, Malformed        \* no type filter; a parameter not given, or no number

(* A count of the products fits in an int. *)
ASSUME CatalogueAssumption ==
  /\ IsFiniteSet(Products) /\ Cardinality(Products) <= IntMax
  /\ CreatedAt \in [Products -> Nat] /\ Name \in [Products -> Nat]
  /\ ProductOf \in [Variants -> Products]
  /\ MaxPrice \in Nat \ {0}
  /\ MaxCatalogueEdits \in Nat
  /\ AnyKind \notin {Kind[p] : p \in Products}
  /\ Wanted # {}
  /\ \A w \in Wanted : /\ w = [kind |-> w.kind, sort |-> w.sort, limit |-> w.limit]
                       /\ w.limit \in Int \cup {Absent, Malformed}

VARIABLES
  products,      \* the status of each product
  variants,      \* the price of each active variant, 0 for an inactive one
  catalogueEdits,
  browsing       \* where each client stands

catalogueVars == <<products, variants, catalogueEdits, browsing>>

ProductStatus == {"draft", "active", "archived"}

----------------------------------------------------------------------------
(* The queries *)

Matching(kind) ==
  {p \in Products : products[p] = "active" /\ kind \in {AnyKind, Kind[p]}}

Offers(p) == {v \in Variants : ProductOf[v] = p /\ variants[v] > 0}

(* The lowest price of an active variant; NULL sorts above every price. *)
PriceFrom(p) ==
  IF Offers(p) = {} THEN MaxPrice + 1 ELSE Min({variants[v] : v \in Offers(p)})

(* normalizeSort: anything else is the default order, newest first. *)
SortKey(p, sort) ==
  CASE sort = "price_asc"  -> PriceFrom(p)
    [] sort = "price_desc" -> -PriceFrom(p)
    [] sort = "name"       -> Name[p]
    [] OTHER               -> 0

(* Mutant: ORDER BY ends with the key that the client chose. *)
PrecedesByKeyOnly(p, q, sort) == SortKey(p, sort) < SortKey(q, sort)

(* ORDER BY. *)
Precedes(p, q, sort) ==
  \/ SortKey(p, sort) < SortKey(q, sort)
  \/ SortKey(p, sort) = SortKey(q, sort) /\ CreatedAt[p] > CreatedAt[q]

(* ListProducts: what it may return; rows that tie come in any order. *)
ListProducts(want, page) ==
  LET sorted == {s \in SetToSeqs(Matching(want.kind)) :
                   \A i, j \in DOMAIN s : i < j => ~Precedes(s[j], s[i], want.sort)}
      window(s) == Window(Len(s), want.limit, Offset(page, want.limit)) IN
  {[i \in 1..Cardinality(window(s)) |-> s[Offset(page, want.limit) + i]] : s \in sorted}

(* Mutant: each statement reads the latest rows. *)
CountLatest(b) == Cardinality(Matching(browsing[b].want.kind))

(* CountProducts, in the snapshot of the first query. *)
CountProducts(b) == Cardinality(browsing[b].snapshot)

----------------------------------------------------------------------------
(* The handler *)

(* parsePositiveInt *)
ParseOr(raw, default) == IF raw = Absent THEN default ELSE raw
Rejected(raw) == raw = Malformed \/ (raw # Absent /\ raw < 1)

(* The client asks for a page; a parameter that is no positive number is
   refused. *)
RequestPage(b, want) ==
  /\ browsing[b].at = "start"
  /\ browsing' = [browsing EXCEPT ![b] =
       IF Rejected(want.limit) THEN [@ EXCEPT !.at = "rejected"]
       ELSE [@ EXCEPT !.at = "list", !.since = catalogueEdits,
                      !.want = [want EXCEPT !.limit = ClampLimit(ParseOr(want.limit, DefaultLimit))]]]
  /\ UNCHANGED <<products, variants, catalogueEdits>>

(* The first query of the transaction fixes its snapshot. *)
ListPage(b) ==
  LET want == browsing[b].want IN
  /\ browsing[b].at = "list"
  /\ \E rows \in ListProducts(want, browsing[b].page) :
       browsing' = [browsing EXCEPT ![b] =
         [@ EXCEPT !.at = "count", !.rows = rows, !.snapshot = Matching(want.kind)]]
  /\ UNCHANGED <<products, variants, catalogueEdits>>

CountPage(b) ==
  /\ browsing[b].at = "count"
  /\ browsing' = [browsing EXCEPT ![b] =
       [@ EXCEPT !.at = "shown", !.total = CountProducts(b), !.snapshot = {},
                 !.seen = browsing[b].seen \o browsing[b].rows]]
  /\ UNCHANGED <<products, variants, catalogueEdits>>

ReadFails(b) ==
  /\ browsing[b].at \in {"list", "count", "variants"}
  /\ browsing' = [browsing EXCEPT ![b] = [@ EXCEPT !.at = "failed", !.snapshot = {}]]
  /\ UNCHANGED <<products, variants, catalogueEdits>>

GetProductBySlug(p) == products[p] = "active"

(* GetProduct: the product by slug, if it is active ... *)
GetProduct(b, p) ==
  /\ browsing[b].at = "start"
  /\ browsing' = [browsing EXCEPT ![b] =
       IF GetProductBySlug(p) THEN [@ EXCEPT !.at = "variants", !.rows = <<p>>]
       ELSE [@ EXCEPT !.at = "notFound"]]
  /\ UNCHANGED <<products, variants, catalogueEdits>>

(* ... and then its active variants, whatever has become of it. *)
ListVariants(b) ==
  /\ browsing[b].at = "variants"
  /\ browsing' = [browsing EXCEPT ![b] =
       [@ EXCEPT !.at = "detail", !.offers = Offers(browsing[b].rows[1])]]
  /\ UNCHANGED <<products, variants, catalogueEdits>>

(* The client turns the page, or has seen the last one. *)
TurnPage(b) ==
  /\ browsing[b].at = "shown"
  /\ browsing' = [browsing EXCEPT ![b] =
       IF HasNext(browsing[b].page, browsing[b].want.limit, browsing[b].total)
         THEN [@ EXCEPT !.at = "list", !.page = browsing[b].page + 1] ELSE [@ EXCEPT !.at = "done"]]
  /\ UNCHANGED <<products, variants, catalogueEdits>>

(* External: a product is published or archived, a price changes. *)
EditProduct(p, status) ==
  /\ catalogueEdits < MaxCatalogueEdits /\ status # products[p]
  /\ products' = [products EXCEPT ![p] = status]
  /\ catalogueEdits' = catalogueEdits + 1
  /\ UNCHANGED <<variants, browsing>>

EditVariant(v, price) ==
  /\ catalogueEdits < MaxCatalogueEdits /\ price # variants[v]
  /\ variants' = [variants EXCEPT ![v] = price]
  /\ catalogueEdits' = catalogueEdits + 1
  /\ UNCHANGED <<products, browsing>>

----------------------------------------------------------------------------
CatalogueInit ==
  /\ products = [p \in Products |-> "active"]
  /\ variants \in [Variants -> 0..MaxPrice]
  /\ catalogueEdits = 0
  /\ browsing = [b \in Browsing |->
       [at |-> "start", page |-> 1, want |-> CHOOSE w \in Wanted : TRUE, rows |-> <<>>, total |-> 0,
        snapshot |-> {}, seen |-> <<>>, since |-> 0, offers |-> {}]]

CatalogueNext ==
  \/ \E b \in Browsing :
       \/ (\E want \in Wanted : RequestPage(b, want)) \/ ListPage(b) \/ CountPage(b) \/ TurnPage(b)
       \/ (\E p \in Products : GetProduct(b, p)) \/ ListVariants(b)
       \/ ReadFails(b)
  \/ \E p \in Products, status \in ProductStatus : EditProduct(p, status)
  \/ \E v \in Variants, price \in 0..MaxPrice : EditVariant(v, price)

CatalogueSpec == CatalogueInit /\ [][CatalogueNext]_catalogueVars

----------------------------------------------------------------------------
(* Properties *)

CatalogueTypeOK ==
  /\ products \in [Products -> ProductStatus]
  /\ variants \in [Variants -> 0..MaxPrice]
  /\ catalogueEdits \in 0..MaxCatalogueEdits
  /\ \A b \in Browsing :
       /\ browsing[b].at \in {"start", "rejected", "list", "count", "shown", "done",
                              "variants", "detail", "notFound", "failed"}
       /\ browsing[b].page \in Nat \ {0} /\ browsing[b].total \in Nat
       /\ browsing[b].at \in {"list", "count", "shown", "done"} => browsing[b].want.limit \in 1..MaxLimit
       /\ browsing[b].snapshot \subseteq Products /\ browsing[b].offers \subseteq Variants
       /\ browsing[b].rows \in Seq(Products) /\ browsing[b].seen \in Seq(Products)

(* "the returned items and total always agree even under concurrent writes"
   (repository.go:62-64): a page is as full as its total says. *)
ItemsAgreeWithTotal ==
  \A b \in Browsing : browsing[b].at = "shown" =>
    LET now == browsing[b] IN
    Len(now.rows) = Cardinality(Window(now.total, now.want.limit, Offset(now.page, now.want.limit)))

(* Reading every page of a catalogue that did not change shows every product
   once, whatever the order and however many products share a price.  It needs
   created_at to tell them apart (catalog.sql.go:126): the rows of one INSERT
   share it, and rows that tie may swap between two pages. *)
PagesShowEachOnce ==
  \A b \in Browsing :
    LET shown(p) == {i \in DOMAIN browsing[b].seen : browsing[b].seen[i] = p}
        all == Matching(browsing[b].want.kind) IN
    (/\ browsing[b].at = "done" /\ browsing[b].since = catalogueEdits
     /\ \A p, q \in all : CreatedAt[p] = CreatedAt[q] => p = q)
    => \A p \in all : Cardinality(shown(p)) = 1
=============================================================================
