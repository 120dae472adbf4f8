-------------------------------- MODULE MCApi --------------------------------
(* Instances of Api, Catalogue and OrderHistory, one per behaviour: they share *)
(* no state, so each behaviour exercises one of them and their states add up.  *)
(* The pool and the middleware, and the list of orders and the detail of one   *)
(* order, are two parts each.                                                  *)
EXTENDS Api, Catalogue, OrderHistory, TLC

CONSTANTS h1, h2, h3, h4, old, new, p1, p2, p3, q1, q2, k1, k2, b1,
          o1, o2, o3, o4, u1, u2, c1

VARIABLE part

(* A checkout, which goes to the database, to the provider and back, a cart
   request with an expired token, and a probe compete for one connection; the
   cart request and an admin's ping meet the rotation of the keys. *)
MCGuard == h1 :> "user" @@ h2 :> "session" @@ h3 :> "public" @@ h4 :> "admin"
MCWork == h1 :> <<"db", "provider", "db">> @@ h2 :> <<"db">> @@ h3 :> <<"db">> @@ h4 :> <<>>
MCBearer == h1 :> [key |-> old, claims |-> "good", admin |-> FALSE]
         @@ h2 :> [key |-> old, claims |-> "bad", admin |-> FALSE]
         @@ h3 :> NoToken
         @@ h4 :> [key |-> new, claims |-> "good", admin |-> TRUE]

(* Three products on pages of two; an edit makes two of them cost the same or
   swaps their prices, and takes the third off the list or brings it back. *)
MCKind == p1 :> k1 @@ p2 :> k1 @@ p3 :> k2
MCName == p1 :> 1 @@ p2 :> 3 @@ p3 :> 2
MCCreatedAt == p1 :> 1 @@ p2 :> 2 @@ p3 :> 3
MCProductOf == q1 :> p1 @@ q2 :> p2
Want(kind, sort, limit) == [kind |-> kind, sort |-> sort, limit |-> limit]
MCWanted == {Want(AnyKind, "price_asc", 3), Want(AnyKind, "price_desc", 1), Want(k1, "name", Absent),
             Want(AnyKind, "default", Malformed)}

(* Three orders of the reader, on pages of one or two, and one of another
   user, which is placed in the part that opens one order. *)
MCBuyer == o1 :> u1 @@ o2 :> u1 @@ o3 :> u1 @@ o4 :> u2
MCItems == o1 :> {1} @@ o2 :> {1, 2} @@ o3 :> {2} @@ o4 :> {1}
MCViewer == c1 :> u1

Parts == {"process", "auth", "catalogue", "orders", "order"}

MCInit ==
  /\ part \in Parts
  /\ ApiInit /\ CatalogueInit /\ HistoryInit
  /\ part # "auth" => published = {old}
  /\ \A v \in Variants : variants[v] \in IF part = "catalogue" THEN {1, 2} ELSE {1}

MCNext ==
  /\ UNCHANGED part
  /\ \/ /\ ApiNext /\ UNCHANGED <<catalogueVars, historyVars>>
        /\ \/ part = "process" /\ UNCHANGED <<published, handler[h4]>>
           \/ part = "auth" /\ UNCHANGED <<handler[h1], handler[h3]>>
     \/ part = "catalogue" /\ CatalogueNext /\ UNCHANGED <<apiVars, historyVars>>
     \/ /\ UNCHANGED <<apiVars, catalogueVars>>
        /\ \/ part = "orders" /\ (ListNext \/ WriterNext) /\ UNCHANGED orders[o4]
           \/ part = "order" /\ (DetailNext \/ WriterNext) /\ UNCHANGED orders[o3]

MCSpec == MCInit /\ [][MCNext]_<<part, apiVars, catalogueVars, historyVars>> /\ ApiFairness

(* Every component's state is well formed. *)
PartsTypeOK == ApiTypeOK /\ CatalogueTypeOK /\ HistoryTypeOK
=============================================================================
