------------------------------- MODULE Paging -------------------------------
(***************************************************************************)
(* The page arithmetic that the catalogue and the order history share:     *)
(* how a page and a limit become LIMIT and OFFSET.  Go computes in int     *)
(* (64 bits) and converts to int32; both wrap around.                      *)
(***************************************************************************)
EXTENDS Integers

CONSTANTS
  IntMax, Int32Max,  \* the largest int and int32
  DefaultLimit, MaxLimit, MaxOffset

ASSUME PagingAssumption ==
  /\ IntMax \in Nat /\ Int32Max \in Nat /\ Int32Max <= IntMax
  /\ MaxLimit \in Nat /\ MaxLimit <= Int32Max
  /\ DefaultLimit \in 1..MaxLimit
  /\ MaxOffset \in Nat /\ MaxOffset <= Int32Max

(* The signed integer with maximum max that n wraps around to. *)
Wrap(n, max) ==
  IF n \in -(max + 1)..max THEN n ELSE ((n + max + 1) % (2 * (max + 1))) - (max + 1)

ClampPage(page) == IF page < 1 THEN 1 ELSE page

(* Mutant: the service leaves the bound to its caller. *)
ClampLimitUncapped(limit) == IF limit <= 0 THEN DefaultLimit ELSE limit

ClampLimit(limit) ==
  IF limit <= 0 THEN DefaultLimit ELSE IF limit > MaxLimit THEN MaxLimit ELSE limit

(* Mutant: pages are counted from zero. *)
OffsetFromZero(page, limit) == ClampPage(page) * ClampLimit(limit)

(* The product is formed in int, bounded, and converted to int32. *)
Offset(page, limit) ==
  LET product == Wrap((ClampPage(page) - 1) * ClampLimit(limit), IntMax) IN
  Wrap(IF product > MaxOffset THEN MaxOffset ELSE product, Int32Max)

(* The positions, counted from 1, of the rows that LIMIT and OFFSET select
   from n rows; Postgres refuses a negative offset. *)
Window(n, limit, offset) == {i \in 1..n : offset < i /\ i <= offset + limit}

(* Pagination.tsx offers the page after this one. *)
HasNext(page, limit, total) == page * limit < total
=============================================================================
