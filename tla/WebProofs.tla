----------------------------- MODULE WebProofs ------------------------------
(***************************************************************************)
(* What the web client's cart cache, its result page and its checkout      *)
(* attempts keep, for any number of overlapping changes, attempts, retries,*)
(* lost and late answers; and that MCWeb puts these components together    *)
(* and adds nothing to them, so that each of them stays what it is there.  *)
(***************************************************************************)
EXTENDS MCWeb, FiniteSetTheorems, TLAPS

----------------------------------------------------------------------------
(* The cart cache.  A guess in the cache is always owed a refetch or an answer;
   and as long as nothing raced, whoever is under way is alone, so the answer
   that ends it has the server's cart. *)

LEMMA CacheTypeInit == CacheInit => CacheTypeOK
<1>. SUFFICES ASSUME CacheInit PROVE CacheTypeOK
  OBVIOUS
<1>1. fetch \in [at : {"none", "asked", "answered"}, cart : SUBSET Changes]
  BY DEF CacheInit, NoFetch
<1>2. change \in [Changes -> [at : {"idle", "begun", "sent", "done", "failed"},
                             previous : Cart \cup {Unknown}]]
  BY DEF CacheInit
<1>. QED  BY <1>1, <1>2 DEF CacheInit, CacheTypeOK

(* The answers under way carry carts of the server. *)
RepliesTypeOK ==
  replies \subseteq [change : Changes, ok : BOOLEAN, cart : SUBSET Changes]

LEMMA CacheTypeStep ==
  CacheTypeOK /\ RepliesTypeOK /\ [CacheNext]_cacheVars => CacheTypeOK' /\ RepliesTypeOK'
<1>. SUFFICES ASSUME CacheTypeOK, RepliesTypeOK, [CacheNext]_cacheVars
              PROVE  CacheTypeOK' /\ RepliesTypeOK'
  OBVIOUS
<1>. DEFINE Goal == CacheTypeOK' /\ RepliesTypeOK'
<1>. USE DEF CacheTypeOK, RepliesTypeOK, NoFetch, Asked, Known, Cart
<1>1. ASSUME Fetch \/ FetchServed \/ FetchAnswered \/ FetchFails PROVE Goal
  <2>1. CASE Fetch
    BY <2>1 DEF Fetch
  <2>2. CASE FetchServed
    BY <2>2 DEF FetchServed
  <2>3. CASE FetchAnswered
    BY <2>3 DEF FetchAnswered
  <2>4. CASE FetchFails
    BY <2>4 DEF FetchFails
  <2>. QED  BY <1>1, <2>1, <2>2, <2>3, <2>4
<1>2. ASSUME NEW m \in Changes, BeginOptimistic(m) PROVE Goal
  BY <1>2 DEF BeginOptimistic
<1>3. ASSUME NEW m \in Changes, SnapshotAndSend(m) PROVE Goal
  BY <1>3 DEF SnapshotAndSend, Optimistic
<1>4. ASSUME NEW m \in Changes, Served(m) PROVE Goal
  <2>1. server' \subseteq Changes /\ server' = server \cup (server' \ server)
    BY <1>4 DEF Served
  <2>2. \A ok \in BOOLEAN : [change |-> m, ok |-> ok, cart |-> server']
                             \in [change : Changes, ok : BOOLEAN, cart : SUBSET Changes]
    BY <2>1
  <2>3. \E ok \in BOOLEAN :
          replies' = replies \cup {[change |-> m, ok |-> ok, cart |-> server']}
    BY <1>4 DEF Served
  <2>4. /\ sent' \subseteq sent
        /\ UNCHANGED <<cache, change, fetch, fetchFailed, raced>>
    BY <1>4 DEF Served
  <2>. QED  BY <2>1, <2>2, <2>3, <2>4
<1>5. ASSUME NEW m \in Changes, Rollback(m)
      PROVE  /\ cache' \in Cart \cup {Unknown}
             /\ fetch' \in [at : {"none", "asked", "answered"}, cart : SUBSET Changes]
             /\ raced' \in BOOLEAN
  BY <1>5 DEF Rollback
<1>6. ASSUME NEW m \in Changes, NoAnswer(m) PROVE Goal
  BY <1>5, <1>6 DEF NoAnswer
<1>7. ASSUME NEW r \in replies, Answered(r) PROVE Goal
  BY <1>5, <1>7 DEF Answered
<1>8. ASSUME UNCHANGED cacheVars PROVE Goal
  BY <1>8 DEF cacheVars
<1>. HIDE DEF Goal, CacheTypeOK, RepliesTypeOK, NoFetch, Asked, Known, Cart
<1>9. Goal
  BY <1>1, <1>2, <1>3, <1>4, <1>6, <1>7, <1>8 DEF CacheNext
<1>. QED  BY <1>9 DEF Goal

(* The cache, the snapshots and the fetch hold carts, whatever overlaps. *)
THEOREM CacheTypeCorrect == CacheSpec => [](CacheTypeOK /\ RepliesTypeOK)
<1>1. CacheInit => RepliesTypeOK
  BY DEF CacheInit, RepliesTypeOK
<1>. QED  BY <1>1, CacheTypeInit, CacheTypeStep, PTL DEF CacheSpec

----------------------------------------------------------------------------
(* A guess in the cache is owed an answer or a refetch. *)
GuessIsOwed ==
  cache # Unknown /\ cache.guess # {} => Pending # {} \/ Fetching \/ fetchFailed

(* The server deals with a change once and answers it once. *)
AnsweredOnce ==
  /\ \A m \in sent : change[m].at \in {"sent", "failed"} /\ \A r \in replies : r.change # m
  /\ \A r \in replies : change[r.change].at \in {"sent", "failed"}
  /\ \A r, q \in replies : r.change = q.change => r = q

(* Without a race whoever is under way is alone, and what it brings back is
   the server's cart. *)
Alone ==
  /\ \A m, n \in Pending : m = n
  /\ sent \subseteq Pending
  /\ Fetching => Pending = {}
  /\ fetch.at = "answered" => fetch.cart = server
  /\ \A r \in replies : change[r.change].at = "sent" => r.cart = server /\ sent = {}
  /\ Pending = {} /\ ~Fetching /\ ~fetchFailed /\ cache # Unknown => cache.known = server

CacheInv == GuessIsOwed /\ AnsweredOnce /\ (~raced => Alone)

LEMMA CacheInvInit == CacheInit => CacheInv
BY DEF CacheInit, CacheInv, GuessIsOwed, AnsweredOnce, Alone, Pending, Fetching, NoFetch

LEMMA FetchInv ==
  ASSUME CacheTypeOK, RepliesTypeOK, CacheInv,
         Fetch \/ FetchServed \/ FetchAnswered \/ FetchFails
  PROVE  CacheInv'
<1>. USE DEF CacheTypeOK, CacheInv, GuessIsOwed, AnsweredOnce, Alone, Pending, Fetching,
             NoFetch, Asked, Known
<1>1. CASE Fetch
  BY <1>1 DEF Fetch
<1>2. CASE FetchServed
  BY <1>2 DEF FetchServed
<1>3. CASE FetchAnswered
  BY <1>3 DEF FetchAnswered
<1>4. CASE FetchFails
  BY <1>4 DEF FetchFails
<1>. QED  BY <1>1, <1>2, <1>3, <1>4

LEMMA BeginInv ==
  ASSUME CacheTypeOK, RepliesTypeOK, CacheInv, NEW m \in Changes, BeginOptimistic(m)
  PROVE  CacheInv'
<1>1. Pending' = Pending \cup {m}
  BY DEF BeginOptimistic, CacheTypeOK, Pending
<1>2. \A n \in Changes : /\ n # m => change'[n].at = change[n].at
                         /\ change[m].at = "idle" /\ change'[m].at = "begun"
  BY DEF BeginOptimistic, CacheTypeOK
<1>3. \A r \in replies : r.change \in Changes
  BY DEF RepliesTypeOK
<1>4. GuessIsOwed'
  BY <1>1 DEF GuessIsOwed
<1>5. AnsweredOnce'
  BY <1>2, <1>3 DEF BeginOptimistic, CacheInv, AnsweredOnce, CacheTypeOK
<1>6. ASSUME ~raced' PROVE Alone'
  <2>1. Pending = {} /\ sent = {} /\ sent' = {} /\ fetch' = NoFetch /\ ~Fetching'
    BY <1>6 DEF BeginOptimistic, Fetching
  <2>2. \A r \in replies : change[r.change].at # "sent"
    BY <1>3, <2>1 DEF Pending
  <2>. QED  BY <1>1, <1>2, <1>3, <2>1, <2>2 DEF Alone, NoFetch, BeginOptimistic
<1>. QED  BY <1>4, <1>5, <1>6 DEF CacheInv

LEMMA SendInv ==
  ASSUME CacheTypeOK, RepliesTypeOK, CacheInv, NEW m \in Changes, SnapshotAndSend(m)
  PROVE  CacheInv'
<1>1. Pending' = Pending /\ m \in Pending
  BY DEF SnapshotAndSend, CacheTypeOK, Pending
<1>2. \A n \in Changes : /\ n # m => change'[n].at = change[n].at
                         /\ change[m].at = "begun" /\ change'[m].at = "sent"
  BY DEF SnapshotAndSend, CacheTypeOK
<1>3. \A r \in replies : r.change \in Changes /\ r.change # m
  BY <1>2 DEF RepliesTypeOK, CacheInv, AnsweredOnce
<1>4. GuessIsOwed'
  BY <1>1 DEF GuessIsOwed
<1>5. AnsweredOnce'
  BY <1>2, <1>3 DEF SnapshotAndSend, CacheInv, AnsweredOnce, CacheTypeOK
<1>6. ASSUME ~raced' PROVE Alone'
  <2>1. Alone /\ ~Fetching /\ ~Fetching'
    BY <1>1, <1>6 DEF SnapshotAndSend, CacheInv, Alone, Fetching
  <2>2. \A r \in replies : change'[r.change].at # "sent"
    BY <1>1, <1>2, <1>3, <2>1 DEF Alone, Pending
  <2>. QED  BY <1>1, <2>1, <2>2 DEF SnapshotAndSend, Alone, Fetching
<1>. QED  BY <1>4, <1>5, <1>6 DEF CacheInv

LEMMA ServedInv ==
  ASSUME CacheTypeOK, RepliesTypeOK, CacheInv, NEW m \in Changes, Served(m)
  PROVE  CacheInv'
<1>1. /\ UNCHANGED <<cache, change, fetch, fetchFailed, raced>>
      /\ m \in sent /\ sent' = sent \ {m}
  BY DEF Served
<1>2. PICK new \in [change : {m}, ok : BOOLEAN, cart : {server'}] :
        replies' = replies \cup {new}
  BY DEF Served
<1>3. new.change = m /\ new.cart = server'
  BY <1>2
<1>4. Pending' = Pending /\ Fetching' = Fetching
  BY <1>1 DEF Pending, Fetching
<1>5. GuessIsOwed'
  BY <1>1, <1>4 DEF CacheInv, GuessIsOwed
<1>6. AnsweredOnce'
  BY <1>1, <1>2, <1>3 DEF CacheInv, AnsweredOnce
<1>7. ASSUME ~raced PROVE Alone'
  <2>1. Alone /\ m \in Pending /\ sent' = {} /\ ~Fetching
    BY <1>1, <1>7 DEF CacheInv, Alone
  <2>2. \A r \in replies : r.change \in Changes /\ r.change # m
    BY <1>1 DEF RepliesTypeOK, CacheInv, AnsweredOnce
  <2>3. \A r \in replies : change[r.change].at # "sent"
    BY <2>1, <2>2 DEF Alone, Pending
  <2>. QED  BY <1>1, <1>2, <1>3, <1>4, <2>1, <2>3 DEF Alone, Fetching, NoFetch
<1>. QED  BY <1>1, <1>5, <1>6, <1>7 DEF CacheInv

(* A change that ends, by an answer or for want of one. *)
LEMMA EndInv ==
  ASSUME CacheTypeOK, RepliesTypeOK, CacheInv, NEW m \in Changes,
         m \in Pending, NEW end \in {"done", "failed"},
         change' = [change EXCEPT ![m].at = end],
         UNCHANGED <<server, sent, fetchFailed>>,
         \/ replies' = replies /\ end = "failed"
         \/ \E r \in replies : r.change = m /\ replies' = replies \ {r},
         \/ Rollback(m) /\ end = "failed"
         \/ /\ cache'.guess = {} /\ m \notin sent
            /\ ~raced => cache' = Known(server) /\ sent = {}
            /\ UNCHANGED <<fetch, raced>>
  PROVE  CacheInv'
<1>1. Pending' = Pending \ {m}
  BY DEF CacheTypeOK, Pending
<1>2. \A n \in Changes : IF n = m THEN change'[n].at = end ELSE change'[n].at = change[n].at
  BY DEF CacheTypeOK
<1>3. \A r \in replies : r.change \in Changes
  BY DEF RepliesTypeOK
<1>4. GuessIsOwed'
  <2>1. CASE Rollback(m)
    BY <2>1 DEF Rollback, GuessIsOwed, Fetching, Asked, NoFetch
  <2>2. CASE cache'.guess = {}
    BY <2>2 DEF GuessIsOwed
  <2>. QED  BY <2>1, <2>2
<1>5. AnsweredOnce'
  BY <1>2, <1>3 DEF CacheInv, AnsweredOnce, CacheTypeOK
<1>6. ASSUME ~raced' PROVE Alone'
  <2>1. Alone /\ ~raced /\ Pending = {m} /\ Pending' = {}
    <3>1. ~raced
      BY <1>6 DEF Rollback
    <3>2. Alone
      BY <3>1 DEF CacheInv
    <3>3. Pending = {m}
      BY <3>2 DEF Alone
    <3>. QED  BY <1>1, <3>1, <3>2, <3>3
  <2>2. \A r \in replies : change'[r.change].at # "sent"
    BY <1>2, <1>3, <2>1 DEF Pending
  <2>3. CASE Rollback(m)
    BY <1>6, <2>1, <2>2, <2>3 DEF Rollback, Alone, Fetching, Asked, NoFetch
  <2>4. CASE cache' = Known(server) /\ sent = {} /\ UNCHANGED <<fetch, raced>>
    BY <2>1, <2>2, <2>4 DEF Alone, Fetching, Known
  <2>. QED  BY <2>1, <2>3, <2>4
<1>. QED  BY <1>4, <1>5, <1>6 DEF CacheInv

LEMMA CacheAnsweredInv ==
  ASSUME CacheTypeOK, RepliesTypeOK, CacheInv, NEW r \in replies, Answered(r)
  PROVE  CacheInv'
<1>. DEFINE m == r.change
<1>1. /\ m \in Changes /\ replies' = replies \ {r} /\ UNCHANGED <<server, sent, fetchFailed>>
      /\ change[m].at \in {"sent", "failed"} /\ m \notin sent
  BY DEF Answered, RepliesTypeOK, CacheInv, AnsweredOnce
<1>2. CASE change[m].at = "failed"
  BY <1>1, <1>2
     DEF Answered, CacheInv, GuessIsOwed, AnsweredOnce, Alone, Pending, Fetching
<1>3. CASE change[m].at = "sent"
  <2>1. m \in Pending
    BY <1>1, <1>3 DEF Pending
  <2>2. ~raced => r.cart = server /\ sent = {}
    BY <1>3 DEF CacheInv, Alone
  <2>3. CASE r.ok
    <3>1. /\ change' = [change EXCEPT ![m].at = "done"]
          /\ cache' = Known(r.cart) /\ UNCHANGED <<fetch, raced>>
      BY <1>3, <2>3 DEF Answered
    <3>2. cache'.guess = {}
      BY <3>1 DEF Known
    <3>. QED  BY <1>1, <2>1, <2>2, <3>1, <3>2, EndInv
  <2>4. CASE ~r.ok
    <3>1. change' = [change EXCEPT ![m].at = "failed"] /\ Rollback(m)
      BY <1>3, <2>4 DEF Answered
    <3>. QED  BY <1>1, <2>1, <3>1, EndInv
  <2>. QED  BY <2>3, <2>4
<1>. QED  BY <1>1, <1>2, <1>3

LEMMA CacheInvStep ==
  CacheTypeOK /\ RepliesTypeOK /\ CacheInv /\ [CacheNext]_cacheVars => CacheInv'
<1>. SUFFICES ASSUME CacheTypeOK, RepliesTypeOK, CacheInv, [CacheNext]_cacheVars
              PROVE  CacheInv'
  OBVIOUS
<1>1. ASSUME NEW m \in Changes, NoAnswer(m) PROVE CacheInv'
  <2>1. m \in Pending
    BY <1>1 DEF NoAnswer, Pending
  <2>2. /\ change' = [change EXCEPT ![m].at = "failed"] /\ Rollback(m)
        /\ UNCHANGED <<server, sent, replies, fetchFailed>>
    BY <1>1 DEF NoAnswer
  <2>. QED  BY <2>1, <2>2, EndInv
<1>2. ASSUME UNCHANGED cacheVars PROVE CacheInv'
  BY <1>2 DEF cacheVars, CacheInv, GuessIsOwed, AnsweredOnce, Alone, Pending, Fetching
<1>. QED
  BY <1>1, <1>2, FetchInv, BeginInv, SendInv, ServedInv, CacheAnsweredInv DEF CacheNext

(* However many changes overlap, fail or are rolled back to snapshots with
   other changes in them, no optimistic guess outlives the last of them; and
   if none began while another was under way, the cache ends up as the
   server's cart (useCart.ts: onMutate, onError; lib/cart.ts). *)
THEOREM CacheSettles == CacheSpec => []QuietIsServers
<1>1. CacheInv => QuietIsServers
  BY DEF CacheInv, GuessIsOwed, Alone, QuietIsServers
<1>. QED
  BY <1>1, CacheInvInit, CacheInvStep, CacheTypeCorrect, PTL DEF CacheSpec

----------------------------------------------------------------------------
(* The checkout attempts.  A key belongs to the attempt that drew it, an attempt
   has one key for good, and the server has one order per key. *)

Tries == [key : Keys \cup {0}, order : StoreOrders \cup {0},
          step : {"idle", "checkout", "confirm", "paid"}, outcome : Outcomes]
StoreOrder == [key : Keys \cup {0}, qty : Nat, outcome : Outcomes,
               state : {"open", "confirmed", "oversold"}]

(* Requests carry keys, and an attempt that confirms has an order. *)
RequestsTypeOK ==
  /\ requests \subseteq [key : Keys, outcome : Outcomes]
  /\ \A i \in Attempts : attempt[i].step = "confirm" => attempt[i].order # 0

AttemptTypes == AttemptTypeOK /\ RequestsTypeOK

LEMMA Counting ==
  /\ MaxAttempts \in Nat \ {0} /\ MaxKeys \in Nat /\ MaxStoreOrders \in Nat
  /\ 0 \notin Attempts /\ 0 \notin Keys /\ 0 \notin StoreOrders
  /\ MockStock \in Nat /\ CartQty \in Nat
  /\ 1 \in Attempts
BY AttemptAssumption DEF Attempts, Keys, StoreOrders

LEMMA AttemptTypeInit == AttemptInit => AttemptTypes
<1>. SUFFICES ASSUME AttemptInit PROVE AttemptTypes
  OBVIOUS
<1>1. attempt \in [Attempts -> Tries]
  BY DEF AttemptInit, Fresh, Tries, Outcomes
<1>2. storeOrders \in [StoreOrders -> StoreOrder]
  BY DEF AttemptInit, StoreOrder, Outcomes
<1>3. RequestsTypeOK
  BY DEF AttemptInit, RequestsTypeOK, Fresh
<1>. QED
  BY <1>1, <1>2, <1>3, Counting DEF AttemptInit, AttemptTypes, AttemptTypeOK, Tries, StoreOrder

(* Changing one attempt to one that is well formed. *)
LEMMA TryChange ==
  ASSUME AttemptTypes, NEW i \in Attempts, NEW next \in Tries,
         next.step = "confirm" => next.order # 0,
         attempt' = [attempt EXCEPT ![i] = next]
  PROVE  /\ attempt' \in [Attempts -> Tries]
         /\ attempt'[i] = next
         /\ \A j \in Attempts : j # i => attempt'[j] = attempt[j]
         /\ \A j \in Attempts : attempt'[j].step = "confirm" => attempt'[j].order # 0
<1>1. attempt \in [Attempts -> Tries]
  BY DEF AttemptTypes, AttemptTypeOK, Tries
<1>. QED  BY <1>1 DEF AttemptTypes, RequestsTypeOK

(* What the steps do to keys and orders. *)
LEMMA PayType ==
  ASSUME AttemptTypes, NEW outcome \in Outcomes, Pay(outcome)
  PROVE  /\ AttemptTypes'
         /\ KeyOf(current) \in Keys
         /\ drawnBy' = [drawnBy EXCEPT ![KeyOf(current)] = current]
         /\ attempt'[current].key = KeyOf(current)
         /\ attempt'[current].order = attempt[current].order
         /\ \A j \in Attempts : j # current => attempt'[j] = attempt[j]
         /\ storeOrders' = storeOrders
         /\ \A q \in requests' : q \in requests \/ q.key = KeyOf(current)
<1>. DEFINE key == KeyOf(current)
            mine == attempt[current]
            again == [mine EXCEPT !.key = key, !.step = "confirm"]
            first == [mine EXCEPT !.key = key, !.step = "checkout", !.outcome = outcome]
<1>1. current \in Attempts /\ mine \in Tries /\ drawnBy \in [Keys -> Attempts \cup {0}]
  BY DEF AttemptTypes, AttemptTypeOK, Tries
<1>2. /\ key \in Keys
      /\ drawnBy' = [drawnBy EXCEPT ![key] = current]
      /\ UNCHANGED <<current, storeOrders, stock, cartQty>>
  BY DEF Pay, storeVars
<1>3. \/ mine.order # 0 /\ attempt' = [attempt EXCEPT ![current] = again] /\ UNCHANGED requests
      \/ /\ attempt' = [attempt EXCEPT ![current] = first]
         /\ requests' = requests \cup {[key |-> key, outcome |-> outcome]}
  BY DEF Pay
<1>. HIDE DEF key
<1>4. /\ again \in Tries /\ again.key = key /\ again.order = mine.order
      /\ first \in Tries /\ first.key = key /\ first.order = mine.order
      /\ first.step # "confirm"
  BY <1>1, <1>2 DEF Tries
<1>5. /\ attempt' \in [Attempts -> Tries]
      /\ attempt'[current].key = key /\ attempt'[current].order = mine.order
      /\ \A j \in Attempts : j # current => attempt'[j] = attempt[j]
      /\ \A j \in Attempts : attempt'[j].step = "confirm" => attempt'[j].order # 0
  <2>. HIDE DEF again, first
  <2>1. CASE mine.order # 0 /\ attempt' = [attempt EXCEPT ![current] = again]
    BY <1>1, <1>4, <2>1, TryChange
  <2>2. CASE attempt' = [attempt EXCEPT ![current] = first]
    BY <1>1, <1>4, <2>2, TryChange
  <2>. QED  BY <1>3, <2>1, <2>2
<1>6. /\ requests' \subseteq [key : Keys, outcome : Outcomes]
      /\ \A q \in requests' : q \in requests \/ q.key = key
  BY <1>2, <1>3 DEF AttemptTypes, RequestsTypeOK
<1>7. drawnBy' \in [Keys -> Attempts \cup {0}]
  BY <1>1, <1>2
<1>8. AttemptTypes'
  BY <1>2, <1>5, <1>6, <1>7 DEF AttemptTypes, AttemptTypeOK, RequestsTypeOK, Tries
<1>. QED  BY <1>2, <1>5, <1>6, <1>8 DEF key

LEMMA CreateType ==
  ASSUME AttemptTypes, NEW q \in requests, CreateStoreOrder(q)
  PROVE  /\ AttemptTypes'
         /\ UNCHANGED <<attempt, drawnBy>> /\ requests' \subseteq requests
         /\ \/ UNCHANGED storeOrders
            \/ /\ OrderOf(q.key) = {} /\ Cardinality(Created) + 1 \in StoreOrders
               /\ storeOrders'[Cardinality(Created) + 1].key = q.key
               /\ \A o \in StoreOrders : o # Cardinality(Created) + 1
                                           => storeOrders'[o] = storeOrders[o]
<1>. DEFINE o == Cardinality(Created) + 1
            row == [key |-> q.key, qty |-> cartQty, outcome |-> q.outcome, state |-> "open"]
<1>1. /\ storeOrders \in [StoreOrders -> StoreOrder]
      /\ q.key \in Keys /\ q.outcome \in Outcomes /\ cartQty \in Nat
  BY DEF AttemptTypes, AttemptTypeOK, RequestsTypeOK, StoreOrder
<1>2. UNCHANGED <<current, attempt, drawnBy, stock, cartQty>> /\ requests' = requests \ {q}
  BY DEF CreateStoreOrder
<1>3. \/ UNCHANGED storeOrders
      \/ /\ OrderOf(q.key) = {} /\ o \in StoreOrders
         /\ storeOrders' = [storeOrders EXCEPT ![o] = row]
  BY DEF CreateStoreOrder
<1>4. row \in StoreOrder /\ row.key = q.key
  BY <1>1 DEF StoreOrder
<1>. HIDE DEF o, row
<1>5. /\ storeOrders' \in [StoreOrders -> StoreOrder]
      /\ \/ UNCHANGED storeOrders
         \/ /\ OrderOf(q.key) = {} /\ o \in StoreOrders
            /\ storeOrders'[o].key = q.key
            /\ \A p \in StoreOrders : p # o => storeOrders'[p] = storeOrders[p]
  BY <1>1, <1>3, <1>4
<1>6. AttemptTypes'
  BY <1>2, <1>5 DEF AttemptTypes, AttemptTypeOK, RequestsTypeOK, StoreOrder
<1>. QED  BY <1>2, <1>5, <1>6 DEF o

LEMMA AnsweredType ==
  ASSUME AttemptTypes, NEW i \in Attempts, CheckoutAnswered(i)
  PROVE  /\ AttemptTypes' /\ UNCHANGED <<drawnBy, requests, storeOrders>>
         /\ \A j \in Attempts : attempt'[j].key = attempt[j].key
         /\ attempt'[i].order \in OrderOf(attempt[i].key)
         /\ \A j \in Attempts : j # i => attempt'[j] = attempt[j]
<1>1. PICK o \in OrderOf(attempt[i].key) :
        attempt' = [attempt EXCEPT ![i] = [@ EXCEPT !.order = o, !.step = "confirm"]]
  BY DEF CheckoutAnswered
<1>. DEFINE next == [attempt[i] EXCEPT !.order = o, !.step = "confirm"]
<1>2. o \in StoreOrders /\ o # 0 /\ attempt[i] \in Tries
  BY Counting DEF OrderOf, Created, AttemptTypes, AttemptTypeOK, Tries
<1>3. next \in Tries /\ next.order = o /\ next.key = attempt[i].key
  BY <1>2 DEF Tries
<1>4. attempt' = [attempt EXCEPT ![i] = next]
  BY <1>1
<1>. HIDE DEF next
<1>5. /\ attempt' \in [Attempts -> Tries] /\ attempt'[i] = next
      /\ \A j \in Attempts : j # i => attempt'[j] = attempt[j]
      /\ \A j \in Attempts : attempt'[j].step = "confirm" => attempt'[j].order # 0
  BY <1>2, <1>3, <1>4, TryChange
<1>6. UNCHANGED <<current, drawnBy, requests, storeOrders, stock, cartQty>>
  BY DEF CheckoutAnswered, storeVars
<1>7. AttemptTypes'
  BY <1>5, <1>6 DEF AttemptTypes, AttemptTypeOK, RequestsTypeOK, Tries
<1>. QED  BY <1>3, <1>5, <1>6, <1>7

(* An attempt whose step fails, or that is confirmed, keeps key and order. *)
LEMMA StepType ==
  ASSUME AttemptTypes, NEW i \in Attempts, NEW step \in {"idle", "paid"},
         attempt' = [attempt EXCEPT ![i].step = step]
  PROVE  /\ attempt' \in [Attempts -> Tries]
         /\ \A j \in Attempts : /\ attempt'[j].key = attempt[j].key
                                /\ attempt'[j].order = attempt[j].order
                                /\ attempt'[j].step = "confirm" => attempt'[j].order # 0
<1>. DEFINE next == [attempt[i] EXCEPT !.step = step]
<1>1. attempt[i] \in Tries
  BY DEF AttemptTypes, AttemptTypeOK, Tries
<1>2. /\ next \in Tries /\ next.order = attempt[i].order /\ next.key = attempt[i].key
      /\ next.step # "confirm"
  BY <1>1 DEF Tries
<1>3. attempt' = [attempt EXCEPT ![i] = next]
  OBVIOUS
<1>. HIDE DEF next
<1>. QED  BY <1>2, <1>3, TryChange

LEMMA ConfirmType ==
  ASSUME AttemptTypes, NEW i \in Attempts, Confirm(i)
  PROVE  /\ AttemptTypes' /\ UNCHANGED <<drawnBy, requests>>
         /\ \A j \in Attempts : /\ attempt'[j].key = attempt[j].key
                                /\ attempt'[j].order = attempt[j].order
         /\ \A o \in StoreOrders : storeOrders'[o].key = storeOrders[o].key
<1>. DEFINE o == attempt[i].order
<1>1. /\ o \in StoreOrders
      /\ storeOrders \in [StoreOrders -> StoreOrder] /\ stock \in Nat /\ cartQty \in Nat
      /\ storeOrders[o].qty \in Nat
  BY DEF Confirm, AttemptTypes, AttemptTypeOK, RequestsTypeOK, StoreOrder
<1>2. PICK state \in {"confirmed", "oversold"} :
        storeOrders' = [storeOrders EXCEPT ![o].state = state]
  BY DEF Confirm, ConfirmServed, Settles
<1>3. /\ storeOrders' \in [StoreOrders -> StoreOrder]
      /\ \A p \in StoreOrders : storeOrders'[p].key = storeOrders[p].key
  <2>. DEFINE row == [storeOrders[o] EXCEPT !.state = state]
  <2>1. row \in StoreOrder /\ row.key = storeOrders[o].key
    BY <1>1 DEF StoreOrder
  <2>2. storeOrders' = [storeOrders EXCEPT ![o] = row]
    BY <1>2
  <2>. HIDE DEF row, o
  <2>. QED  BY <1>1, <2>1, <2>2
<1>4. stock' \in Nat /\ cartQty' \in Nat
  <2>1. \/ stock' = stock /\ cartQty' = cartQty
        \/ ~(storeOrders[o].qty > stock) /\ stock' = stock - storeOrders[o].qty /\ cartQty' = 0
    BY DEF Confirm, ConfirmServed, Settles
  <2>. HIDE DEF o
  <2>. QED  BY <1>1, <2>1
<1>5. \E step \in {"idle", "paid"} : attempt' = [attempt EXCEPT ![i].step = step]
  BY DEF Confirm
<1>6. current' \in Attempts /\ UNCHANGED <<drawnBy, requests>>
  BY DEF Confirm, AttemptTypes, AttemptTypeOK
<1>7. AttemptTypes'
  BY <1>3, <1>4, <1>5, <1>6, StepType
     DEF AttemptTypes, AttemptTypeOK, RequestsTypeOK, Tries, StoreOrder
<1>. QED  BY <1>3, <1>5, <1>6, <1>7, StepType

(* The other steps touch neither keys nor orders. *)
LEMMA OtherType ==
  ASSUME AttemptTypes, \/ \E i \in Attempts : StepFails(i)
                       \/ Remount \/ FillCart \/ UNCHANGED attemptVars
  PROVE  /\ AttemptTypes' /\ UNCHANGED <<drawnBy, requests, storeOrders>>
         /\ \A j \in Attempts : /\ attempt'[j].key = attempt[j].key
                                /\ attempt'[j].order = attempt[j].order
<1>. USE DEF AttemptTypes, AttemptTypeOK, RequestsTypeOK
<1>1. ASSUME NEW i \in Attempts, StepFails(i)
      PROVE  AttemptTypes' /\ UNCHANGED <<drawnBy, requests, storeOrders>>
  BY <1>1, StepType DEF StepFails, storeVars, Tries
<1>2. ASSUME NEW i \in Attempts, StepFails(i), NEW j \in Attempts
      PROVE  attempt'[j].key = attempt[j].key /\ attempt'[j].order = attempt[j].order
  BY <1>2, StepType DEF StepFails
<1>3. CASE Remount
  BY <1>3 DEF Remount, storeVars
<1>4. CASE FillCart
  BY <1>4, Counting DEF FillCart
<1>5. CASE UNCHANGED attemptVars
  BY <1>5 DEF attemptVars
<1>. QED  BY <1>1, <1>2, <1>3, <1>4, <1>5

(* The page, its attempts and the server's orders stay well formed; the mock
   never sells more than its stock. *)
THEOREM AttemptTypeCorrect == AttemptSpec => []AttemptTypes
<1>1. AttemptTypes /\ [AttemptNext]_attemptVars => AttemptTypes'
  BY PayType, CreateType, AnsweredType, ConfirmType, OtherType DEF AttemptNext
<1>. QED  BY <1>1, AttemptTypeInit, PTL DEF AttemptSpec

----------------------------------------------------------------------------
(* Keys and orders *)

(* A key is known by the attempt that drew it, which keeps it. *)
KeysKnown ==
  /\ \A k \in Keys : drawnBy[k] # 0 => attempt[drawnBy[k]].key = k
  /\ \A i \in Attempts : attempt[i].key # 0 => drawnBy[attempt[i].key] = i

(* Orders have keys that were drawn, one each, and so have requests. *)
OneOrderPerKey ==
  /\ \A o, p \in Created : storeOrders[o].key = storeOrders[p].key => o = p
  /\ \A o \in Created : drawnBy[storeOrders[o].key] # 0
  /\ \A q \in requests : drawnBy[q.key] # 0

(* An attempt's order is the one of its key. *)
OrdersKnown ==
  \A i \in Attempts : attempt[i].order # 0 =>
    /\ attempt[i].key # 0
    /\ attempt[i].order \in Created
    /\ storeOrders[attempt[i].order].key = attempt[i].key

(* Keys are drawn and orders are created one after the other. *)
InSequence ==
  /\ \E n \in 0..MaxKeys : \A k \in Keys : drawnBy[k] # 0 <=> k <= n
  /\ \E n \in 0..MaxStoreOrders : \A o \in StoreOrders : storeOrders[o].key # 0 <=> o <= n

AttemptInv == KeysKnown /\ OneOrderPerKey /\ OrdersKnown /\ InSequence

LEMMA PrefixSize ==
  ASSUME NEW max \in Nat, NEW n \in 0..max, NEW S \in SUBSET (1..max),
         \A k \in 1..max : k \in S <=> k <= n
  PROVE  Cardinality(S) = n
<1>1. S = 1..n
  <2>1. ASSUME NEW k \in S PROVE k \in 1..n
    BY <2>1
  <2>2. ASSUME NEW k \in 1..n PROVE k \in S
    <3>1. k \in 1..max /\ k <= n
      OBVIOUS
    <3>. QED  BY <3>1
  <2>. QED  BY <2>1, <2>2
<1>2. Cardinality(1..n) = n
  BY FS_Interval
<1>. QED  BY <1>1, <1>2

LEMMA AttemptInvInit == AttemptInit => AttemptInv
<1>. SUFFICES ASSUME AttemptInit PROVE AttemptInv
  OBVIOUS
<1>1. Created = {} /\ \A k \in Keys : drawnBy[k] = 0
  BY DEF AttemptInit, Created
<1>2. KeysKnown /\ OneOrderPerKey /\ OrdersKnown
  BY <1>1 DEF AttemptInit, KeysKnown, OneOrderPerKey, OrdersKnown, Fresh
<1>3. InSequence
  <2>1. 0 \in 0..MaxKeys /\ \A k \in Keys : drawnBy[k] # 0 <=> k <= 0
    BY <1>1, Counting DEF Keys
  <2>2. 0 \in 0..MaxStoreOrders /\ \A o \in StoreOrders : storeOrders[o].key # 0 <=> o <= 0
    BY Counting DEF AttemptInit, StoreOrders
  <2>. QED  BY <2>1, <2>2 DEF InSequence
<1>. QED  BY <1>2, <1>3 DEF AttemptInv

(* The next key to draw has not been drawn. *)
LEMMA NextKeyIsNew ==
  ASSUME AttemptTypes, NEW n \in 0..MaxKeys, \A k \in Keys : drawnBy[k] # 0 <=> k <= n
  PROVE  NextKey = n + 1
<1>1. \A k \in 1..MaxKeys : k \in {j \in Keys : drawnBy[j] # 0} <=> k <= n
  BY DEF Keys
<1>2. Cardinality({j \in Keys : drawnBy[j] # 0}) = n
  BY <1>1, Counting, PrefixSize DEF Keys
<1>. QED  BY <1>2 DEF NextKey

(* A first try draws the next key; any other reuses the attempt's. *)
LEMMA PayInv ==
  ASSUME AttemptTypes, AttemptInv, NEW outcome \in Outcomes, Pay(outcome)
  PROVE  AttemptInv'
<1>. DEFINE key == KeyOf(current)
<1>1. /\ key \in Keys /\ current \in Attempts
      /\ drawnBy' = [drawnBy EXCEPT ![key] = current]
      /\ attempt'[current].key = key
      /\ attempt'[current].order = attempt[current].order
      /\ \A j \in Attempts : j # current => attempt'[j] = attempt[j]
      /\ storeOrders' = storeOrders
      /\ \A q \in requests' : q \in requests \/ q.key = key
  BY PayType DEF AttemptTypes, AttemptTypeOK
<1>2. /\ drawnBy \in [Keys -> Attempts \cup {0}] /\ storeOrders \in [StoreOrders -> StoreOrder]
      /\ \A q \in requests : q.key \in Keys
      /\ 0 \notin Attempts /\ 0 \notin Keys
      /\ \A i \in Attempts : attempt[i].key \in Keys \cup {0}
  BY Counting DEF AttemptTypes, AttemptTypeOK, RequestsTypeOK, StoreOrder
<1>3. PICK n \in 0..MaxKeys : \A k \in Keys : drawnBy[k] # 0 <=> k <= n
  BY DEF AttemptInv, InSequence
<1>4. \/ attempt[current].key # 0 /\ key = attempt[current].key /\ drawnBy[key] = current
      \/ attempt[current].key = 0 /\ key = n + 1 /\ drawnBy[key] = 0
  <2>1. NextKey = n + 1
    BY <1>3, NextKeyIsNew
  <2>2. CASE attempt[current].key # 0
    BY <1>1, <2>2 DEF KeyOf, AttemptInv, KeysKnown
  <2>3. CASE attempt[current].key = 0
    <3>1. key = n + 1
      BY <2>1, <2>3 DEF KeyOf
    <3>2. ~(n + 1 <= n)
      OBVIOUS
    <3>. QED  BY <1>1, <1>3, <2>3, <3>1, <3>2
  <2>. QED  BY <2>2, <2>3
<1>. HIDE DEF key
<1>5. \A k \in Keys : drawnBy'[k] = IF k = key THEN current ELSE drawnBy[k]
  BY <1>1, <1>2
<1>6. \A k \in Keys : drawnBy[k] # 0 => drawnBy'[k] = drawnBy[k]
  BY <1>4, <1>5
<1>7. KeysKnown'
  <2>1. ASSUME NEW k \in Keys, drawnBy'[k] # 0
        PROVE  attempt'[drawnBy'[k]].key = k
    <3>1. CASE k = key
      BY <1>1, <1>5, <3>1
    <3>2. CASE k # key
      <4>1. drawnBy'[k] = drawnBy[k] /\ drawnBy[k] \in Attempts /\ attempt[drawnBy[k]].key = k
        BY <1>2, <1>5, <2>1, <3>2 DEF AttemptInv, KeysKnown
      <4>2. drawnBy[k] # current
        BY <1>2, <1>4, <3>2, <4>1
      <4>. QED  BY <1>1, <4>1, <4>2
    <3>. QED  BY <3>1, <3>2
  <2>2. ASSUME NEW i \in Attempts, attempt'[i].key # 0
        PROVE  drawnBy'[attempt'[i].key] = i
    <3>1. CASE i = current
      BY <1>1, <1>5, <3>1
    <3>2. CASE i # current
      <4>1. attempt'[i].key = attempt[i].key /\ attempt[i].key \in Keys
            /\ drawnBy[attempt[i].key] = i
        BY <1>1, <1>2, <2>2, <3>2 DEF AttemptInv, KeysKnown
      <4>. QED  BY <1>2, <1>6, <4>1
    <3>. QED  BY <3>1, <3>2
  <2>. QED  BY <2>1, <2>2 DEF KeysKnown
<1>8. OneOrderPerKey'
  <2>1. Created' = Created /\ \A o \in Created : storeOrders[o].key \in Keys
    BY <1>1, <1>2 DEF Created, StoreOrder
  <2>2. drawnBy'[key] # 0
    BY <1>1, <1>2, <1>5
  <2>. QED  BY <1>1, <1>2, <1>6, <2>1, <2>2 DEF AttemptInv, OneOrderPerKey
<1>9. OrdersKnown'
  <2>1. Created' = Created
    BY <1>1 DEF Created
  <2>2. attempt[current].order # 0 => key = attempt[current].key
    BY <1>1, <1>4 DEF AttemptInv, OrdersKnown
  <2>. QED  BY <1>1, <1>2, <2>1, <2>2 DEF AttemptInv, OrdersKnown
<1>10. InSequence'
  <2>1. CASE drawnBy[key] # 0
    <3>1. \A k \in Keys : drawnBy'[k] # 0 <=> k <= n
      BY <1>1, <1>2, <1>3, <1>5, <2>1
    <3>. QED  BY <1>1, <3>1 DEF AttemptInv, InSequence
  <2>2. CASE drawnBy[key] = 0
    <3>1. key = n + 1 /\ n + 1 \in 0..MaxKeys
      BY <1>1, <1>2, <1>4, <2>2, Counting DEF Keys
    <3>2. \A k \in Keys : k <= n + 1 <=> k = n + 1 \/ k <= n
      BY DEF Keys
    <3>3. \A k \in Keys : drawnBy'[k] # 0 <=> k <= n + 1
      BY <1>1, <1>2, <1>3, <1>5, <3>1, <3>2
    <3>. QED  BY <1>1, <3>1, <3>3 DEF AttemptInv, InSequence
  <2>. QED  BY <2>1, <2>2
<1>. QED  BY <1>7, <1>8, <1>9, <1>10 DEF AttemptInv

(* The server creates the order of a key once, under the next id. *)
LEMMA CreateInv ==
  ASSUME AttemptTypes, AttemptInv, NEW q \in requests, CreateStoreOrder(q)
  PROVE  AttemptInv'
<1>. DEFINE o == Cardinality(Created) + 1
<1>1. /\ UNCHANGED <<attempt, drawnBy>> /\ requests' \subseteq requests
      /\ \/ UNCHANGED storeOrders
         \/ /\ OrderOf(q.key) = {} /\ o \in StoreOrders
            /\ storeOrders'[o].key = q.key
            /\ \A p \in StoreOrders : p # o => storeOrders'[p] = storeOrders[p]
  BY CreateType
<1>2. KeysKnown'
  BY <1>1 DEF AttemptInv, KeysKnown
<1>3. CASE UNCHANGED storeOrders
  <2>1. Created' = Created
    BY <1>3 DEF Created
  <2>. QED  BY <1>1, <1>2, <1>3, <2>1
            DEF AttemptInv, OneOrderPerKey, OrdersKnown, InSequence
<1>4. CASE /\ OrderOf(q.key) = {} /\ o \in StoreOrders
           /\ storeOrders'[o].key = q.key
           /\ \A p \in StoreOrders : p # o => storeOrders'[p] = storeOrders[p]
  <2>1. PICK n \in 0..MaxStoreOrders : \A p \in StoreOrders : storeOrders[p].key # 0 <=> p <= n
    BY DEF AttemptInv, InSequence
  <2>2. o = n + 1
    <3>1. \A p \in 1..MaxStoreOrders : p \in Created <=> p <= n
      BY <2>1 DEF Created, StoreOrders
    <3>2. Created \in SUBSET (1..MaxStoreOrders) /\ MaxStoreOrders \in Nat
      BY Counting DEF Created, StoreOrders
    <3>3. Cardinality(Created) = n
      BY <3>1, <3>2, PrefixSize
    <3>. QED  BY <3>3
  <2>3. q.key \in Keys /\ q.key # 0 /\ drawnBy[q.key] # 0
    BY Counting DEF AttemptTypes, RequestsTypeOK, AttemptInv, OneOrderPerKey
  <2>. HIDE DEF o
  <2>4. Created' = Created \cup {o} /\ o \notin Created
    <3>1. ~(n + 1 <= n)
      OBVIOUS
    <3>. QED  BY <1>4, <2>1, <2>2, <2>3, <3>1 DEF Created
  <2>5. \A p \in Created : storeOrders[p].key # q.key
    BY <1>4 DEF OrderOf
  <2>6. \A p \in Created : p \in StoreOrders /\ storeOrders'[p] = storeOrders[p]
    BY <1>4, <2>4 DEF Created
  <2>7. OneOrderPerKey'
    BY <1>1, <1>4, <2>3, <2>4, <2>5, <2>6 DEF AttemptInv, OneOrderPerKey
  <2>8. OrdersKnown'
    BY <1>1, <2>4, <2>6 DEF AttemptInv, OrdersKnown
  <2>9. InSequence'
    <3>1. n + 1 \in 0..MaxStoreOrders /\ \A p \in StoreOrders : p <= n + 1 <=> p = n + 1 \/ p <= n
      BY <1>4, <2>2, Counting DEF StoreOrders
    <3>2. \A p \in StoreOrders : storeOrders'[p].key # 0 <=> p <= n + 1
      BY <1>4, <2>1, <2>2, <2>3, <3>1
    <3>. QED  BY <1>1, <3>1, <3>2 DEF AttemptInv, InSequence
  <2>. QED  BY <1>2, <2>7, <2>8, <2>9 DEF AttemptInv
<1>. QED  BY <1>1, <1>3, <1>4

(* The attempt learns the order of its key. *)
LEMMA AnsweredInv ==
  ASSUME AttemptTypes, AttemptInv, NEW i \in Attempts, CheckoutAnswered(i)
  PROVE  AttemptInv'
<1>1. /\ UNCHANGED <<drawnBy, requests, storeOrders>>
      /\ \A j \in Attempts : attempt'[j].key = attempt[j].key
      /\ attempt'[i].order \in OrderOf(attempt[i].key)
      /\ \A j \in Attempts : j # i => attempt'[j] = attempt[j]
  BY AnsweredType
<1>2. Created' = Created
  BY <1>1 DEF Created
<1>3. \A k \in Keys : drawnBy[k] \in Attempts \cup {0}
  BY DEF AttemptTypes, AttemptTypeOK
<1>4. KeysKnown'
  BY <1>1, <1>3 DEF AttemptInv, KeysKnown
<1>5. attempt[i].key # 0 /\ attempt'[i].order \in Created
      /\ storeOrders[attempt'[i].order].key = attempt[i].key
  BY <1>1 DEF OrderOf, Created
<1>. QED
  BY <1>1, <1>2, <1>4, <1>5 DEF AttemptInv, OneOrderPerKey, OrdersKnown, InSequence

(* Steps that leave the keys and the orders of attempts and server alone. *)
LEMMA KeptInv ==
  ASSUME AttemptTypes, AttemptInv, UNCHANGED <<drawnBy, requests>>,
         \A j \in Attempts : attempt'[j].key = attempt[j].key /\ attempt'[j].order = attempt[j].order,
         \A o \in StoreOrders : storeOrders'[o].key = storeOrders[o].key
  PROVE  AttemptInv'
<1>1. Created' = Created /\ \A o \in Created : o \in StoreOrders
  BY DEF Created
<1>2. \A k \in Keys : drawnBy[k] \in Attempts \cup {0}
  BY DEF AttemptTypes, AttemptTypeOK
<1>3. KeysKnown'
  BY <1>2 DEF AttemptInv, KeysKnown
<1>4. OneOrderPerKey' /\ OrdersKnown'
  BY <1>1 DEF AttemptInv, OneOrderPerKey, OrdersKnown
<1>5. InSequence'
  BY DEF AttemptInv, InSequence
<1>. QED  BY <1>3, <1>4, <1>5 DEF AttemptInv

(* However often an attempt is retried, and however its requests and answers
   are lost, late or overlap those of other attempts, the server has at most
   one order of it, and it is the one the attempt confirms (useCheckout.ts,
   useMockPay: attemptRef). *)
THEOREM AttemptsOrderOnce == AttemptSpec => []OneOrderPerAttempt
<1>1. AttemptTypes /\ AttemptInv /\ [AttemptNext]_attemptVars => AttemptInv'
  <2>. SUFFICES ASSUME AttemptTypes, AttemptInv, [AttemptNext]_attemptVars PROVE AttemptInv'
    OBVIOUS
  <2>1. ASSUME NEW i \in Attempts, Confirm(i) PROVE AttemptInv'
    BY <2>1, ConfirmType, KeptInv
  <2>2. ASSUME \/ \E i \in Attempts : StepFails(i)
               \/ Remount \/ FillCart \/ UNCHANGED attemptVars
        PROVE  AttemptInv'
    BY <2>2, OtherType, KeptInv
  <2>. QED  BY <2>1, <2>2, PayInv, CreateInv, AnsweredInv DEF AttemptNext
<1>2. AttemptTypes /\ AttemptInv => OneOrderPerAttempt
  <2>. SUFFICES ASSUME AttemptTypes, AttemptInv PROVE OneOrderPerAttempt
    OBVIOUS
  <2>1. ASSUME NEW o \in Created PROVE storeOrders[o].key \in Keys
    BY DEF AttemptTypes, AttemptTypeOK, Created
  <2>2. ASSUME NEW o \in Created, NEW p \in Created,
               drawnBy[storeOrders[o].key] = drawnBy[storeOrders[p].key]
        PROVE  o = p
    BY <2>1, <2>2 DEF AttemptInv, KeysKnown, OneOrderPerKey
  <2>3. ASSUME NEW i \in Attempts, attempt[i].order # 0
        PROVE  drawnBy[storeOrders[attempt[i].order].key] = i
    BY <2>3 DEF AttemptInv, OrdersKnown, KeysKnown
  <2>. QED  BY <2>2, <2>3 DEF OneOrderPerAttempt
<1>. QED  BY <1>1, <1>2, AttemptInvInit, AttemptTypeCorrect, PTL DEF AttemptSpec

----------------------------------------------------------------------------
(* The result page.  One fetch is under way at a time, so an answer is never
   older than the data it replaces; and without data there is a fetch or an
   error. *)

PollingInv ==
  /\ PollingTypeOK
  /\ data = "settled" => settled /\ answer # "pending"
  /\ answer = "settled" => settled
  /\ answer # "none" => query = "fetching"
  /\ timedOut => IsWaiting
  /\ data = "none" => (failed <=> query = "idle")

LEMMA PollingInvInit == PollingInit => PollingInv
<1>. SUFFICES ASSUME PollingInit PROVE PollingInv
  OBVIOUS
<1>1. data \in {"none", "pending", "settled"} /\ (data = "settled" => settled)
  BY DEF PollingInit
<1>2. retries \in 0..MaxRetries
  BY DEF PollingInit, MaxRetries
<1>3. timedOut \in BOOLEAN
  BY DEF PollingInit
<1>4. PollingTypeOK
  BY <1>1, <1>2, <1>3 DEF PollingInit, PollingTypeOK
<1>. QED  BY <1>1, <1>4 DEF PollingInit, PollingInv

LEMMA PollingInvStep == PollingInv /\ [PollingNext]_pollingVars => PollingInv'
<1>. SUFFICES ASSUME PollingInv, [PollingNext]_pollingVars PROVE PollingInv'
  OBVIOUS
<1>. USE DEF PollingInv, PollingTypeOK, IsWaiting, IsLoading, Effect, MaxRetries
<1>1. CASE Settle
  BY <1>1 DEF Settle
<1>2. CASE Poll \/ Refetch \/ Retry
  BY <1>2 DEF Poll, Refetch, Retry, StartFetch
<1>3. CASE Answer
  BY <1>3 DEF Answer
<1>4. CASE Receive
  BY <1>4 DEF Receive
<1>5. CASE Pause
  BY <1>5 DEF Pause
<1>6. CASE Continue
  BY <1>6 DEF Continue
<1>7. CASE QueryFails
  BY <1>7 DEF QueryFails
<1>8. CASE TimeOut
  BY <1>8 DEF TimeOut
<1>9. CASE UNCHANGED pollingVars
  BY <1>9 DEF pollingVars
<1>. QED
  BY <1>1, <1>2, <1>3, <1>4, <1>5, <1>6, <1>7, <1>8, <1>9 DEF PollingNext

LEMMA PollingInvAlways == PollingSpec => []PollingInv
BY PollingInvInit, PollingInvStep, PTL DEF PollingSpec

(* The page shows an outcome only of an order that is settled at the server
   (CheckoutResultPage.tsx), however long its answers were under way; and
   whoever sees the spinner has the timer armed, or has no order and a fetch
   that is paused. *)
PageIsTrue ==
  /\ View = "outcome" => settled
  /\ View = "processing" => Stranded \/ (IsWaiting /\ ~timedOut)

(* No late, lost or repeated answer makes the page show an outcome too early,
   and none but a paused first fetch leaves it without its timer. *)
THEOREM ThePageIsTrue == PollingSpec => []PageIsTrue
<1>1. PollingInv => PageIsTrue
  <2>. SUFFICES ASSUME PollingInv PROVE PageIsTrue
    OBVIOUS
  <2>1. data # "settled" /\ ~IsWaiting => data = "none" /\ query \in {"idle", "paused"}
    BY DEF PollingInv, PollingTypeOK, IsWaiting, IsLoading
  <2>. QED  BY <2>1 DEF PollingInv, PageIsTrue, View, Stranded
<1>. QED  BY <1>1, PollingInvAlways, PTL

(* What the page knows of its order it does not take back: of one that is
   settled it shows the outcome or an error, and while one is pending, "still
   processing" never becomes the spinner again, however many fetches start,
   fail or are paused (useOrders.ts: the timer is armed once per waiting). *)
OrderOnlyAdvances ==
  [][/\ data = "settled" => data' = "settled" /\ View' \in {"outcome", "error"}
     /\ data = "pending" /\ timedOut => View' # "processing"]_pollingVars

(* No fetch takes the page back behind what it had of its order. *)
THEOREM TheOrderOnlyAdvances == PollingSpec => OrderOnlyAdvances
<1>. DEFINE Advances == /\ data = "settled" => data' = "settled" /\ View' \in {"outcome", "error"}
                        /\ data = "pending" /\ timedOut => View' # "processing"
<1>1. ASSUME PollingInv, PollingNext PROVE Advances
  <2>1. data' = data \/ (data' = answer /\ answer # "none")
    BY <1>1 DEF PollingNext, Settle, Poll, Refetch, Retry, StartFetch, Answer, Receive,
                Pause, Continue, QueryFails, TimeOut
  <2>2. (timedOut => timedOut') \/ timedOut' = (timedOut /\ IsWaiting')
    BY <1>1 DEF PollingNext, Settle, Poll, Refetch, Retry, StartFetch, Answer, Receive,
                Pause, Continue, QueryFails, TimeOut, Effect
  <2>3. data' = "settled" => View' \in {"outcome", "error"}
    BY DEF View
  <2>4. data' = "pending" => IsWaiting'
    BY DEF IsWaiting
  <2>5. data' = "pending" /\ timedOut' => View' # "processing"
    BY <2>4 DEF View
  <2>6. data = "settled" => data' = "settled"
    BY <1>1, <2>1 DEF PollingInv, PollingTypeOK
  <2>7. data = "pending" => data' \in {"pending", "settled"}
    BY <1>1, <2>1 DEF PollingInv, PollingTypeOK
  <2>. QED  BY <2>2, <2>3, <2>4, <2>5, <2>6, <2>7
<1>2. PollingInv /\ [PollingNext]_pollingVars => [Advances]_pollingVars
  BY <1>1
<1>. QED  BY <1>2, PollingInvAlways, PTL DEF PollingSpec, OrderOnlyAdvances

----------------------------------------------------------------------------
(* The components together *)

(* In MCWeb each component behaves as it does alone, so that what the run finds
   of MCWeb and what is proved of the components are about the same. *)
THEOREM WebIsItsParts == MCSpec => CacheSpec /\ PollingSpec /\ AttemptSpec
<1>1. MCInit => CacheInit /\ PollingInit /\ AttemptInit
  BY DEF MCInit
<1>2. [MCNext]_<<part, cacheVars, pollingVars, attemptVars>>
        => [CacheNext]_cacheVars /\ [PollingNext]_pollingVars /\ [AttemptNext]_attemptVars
  BY DEF MCNext
<1>. QED
  BY <1>1, <1>2, PTL DEF MCSpec, CacheSpec, PollingSpec, AttemptSpec

(* The cache, the page and the attempts keep their types together. *)
THEOREM WebTypeCorrect == MCSpec => []WebTypeOK
<1>1. PollingInv => PollingTypeOK
  BY DEF PollingInv
<1>2. AttemptTypes => AttemptTypeOK
  BY DEF AttemptTypes
<1>. QED
  BY <1>1, <1>2, WebIsItsParts, CacheTypeCorrect, PollingInvAlways, AttemptTypeCorrect, PTL
     DEF WebTypeOK
=============================================================================
