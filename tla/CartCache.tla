----------------------------- MODULE CartCache -----------------------------
(***************************************************************************)
(* The cart in the cache of the web client (hooks/useCart.ts, lib/cart.ts):*)
(* optimistic changes, rollback and refetch, while several changes are     *)
(* under way.  A cart is abstracted to the changes that are in it: those   *)
(* an answer of the server had, and those the client put on top.  The      *)
(* query library and the server are external; what the library is asked    *)
(* for is what matters here: cancelling drops an answer that is under way, *)
(* setting undefined changes nothing, two fetches never overlap.           *)
(***************************************************************************)
EXTENDS FiniteSets

CONSTANTS Changes,  \* adds, updates and removals of the visit
          Unknown   \* no cart in the cache

VARIABLES
  server,     \* the changes in the server's cart
  cache,      \* the cart in the cache
  change,     \* where each change stands for the client, and its snapshot
  sent,       \* the requests the server has not dealt with
  replies,    \* its answers under way
  fetch,      \* the refetch: none, asked, or the answer under way
  fetchFailed,\* the last refetch failed
  raced       \* history: a request was under way while another one began

cacheVars == <<server, cache, change, sent, replies, fetch, fetchFailed, raced>>

Known(changes) == [known |-> changes, guess |-> {}]
Pending == {m \in Changes : change[m].at \in {"begun", "sent"}}
NoFetch == [at |-> "none", cart |-> {}]
Asked == [at |-> "asked", cart |-> {}]
Fetching == fetch # NoFetch

(* optimisticAdd, optimisticUpdate, optimisticRemove, over EMPTY_CART if need be. *)
Optimistic(cart, m) ==
  IF cart = Unknown THEN [known |-> {}, guess |-> {m}] ELSE [cart EXCEPT !.guess = @ \cup {m}]

CacheInit ==
  /\ server = {} /\ cache = Unknown
  /\ change = [m \in Changes |-> [at |-> "idle", previous |-> Unknown]]
  /\ sent = {} /\ replies = {}
  /\ fetch = NoFetch /\ fetchFailed = FALSE /\ raced = FALSE

(* The cart is mounted, or its data is stale: useCart fetches. *)
Fetch ==
  /\ ~Fetching
  /\ fetch' = Asked
  /\ raced' = (raced \/ Pending # {} \/ sent # {})
  /\ UNCHANGED <<server, cache, change, sent, replies, fetchFailed>>

FetchServed ==
  /\ fetch = Asked
  /\ fetch' = [at |-> "answered", cart |-> server]
  /\ UNCHANGED <<server, cache, change, sent, replies, fetchFailed, raced>>

FetchAnswered ==
  /\ fetch.at = "answered"
  /\ cache' = Known(fetch.cart)
  /\ fetch' = NoFetch /\ fetchFailed' = FALSE
  /\ UNCHANGED <<server, change, sent, replies, raced>>

(* After its retries. *)
FetchFails ==
  /\ Fetching
  /\ fetch' = NoFetch /\ fetchFailed' = TRUE
  /\ UNCHANGED <<server, cache, change, sent, replies, raced>>

(* onMutate, up to the await: an answer under way will not be taken. *)
BeginOptimistic(m) ==
  /\ change[m].at = "idle"
  /\ change' = [change EXCEPT ![m].at = "begun"]
  /\ raced' = (raced \/ Pending # {} \/ sent # {})
  /\ fetch' = NoFetch
  /\ UNCHANGED <<server, cache, sent, replies, fetchFailed>>

(* After the await: snapshot and optimistic write; the request is sent. *)
SnapshotAndSend(m) ==
  /\ change[m].at = "begun"
  /\ change' = [change EXCEPT ![m] = [at |-> "sent", previous |-> cache]]
  /\ cache' = Optimistic(cache, m)
  /\ sent' = sent \cup {m}
  /\ UNCHANGED <<server, replies, fetch, fetchFailed, raced>>

(* External: the server applies the change, or refuses it. *)
Served(m) ==
  /\ m \in sent
  /\ sent' = sent \ {m}
  /\ \/ /\ server' = server \cup {m}
        /\ replies' = replies \cup {[change |-> m, ok |-> TRUE, cart |-> server']}
     \/ /\ replies' = replies \cup {[change |-> m, ok |-> FALSE, cart |-> server]}
        /\ UNCHANGED server
  /\ UNCHANGED <<cache, change, fetch, fetchFailed, raced>>

(* Mutant: the snapshot is restored and nothing is fetched. *)
RollbackOnly(m) ==
  /\ cache' = IF change[m].previous = Unknown THEN cache ELSE change[m].previous
  /\ UNCHANGED <<fetch, raced>>

(* rollback: the snapshot, then a refetch in place of one under way. *)
Rollback(m) ==
  /\ cache' = IF change[m].previous = Unknown THEN cache ELSE change[m].previous
  /\ fetch' = Asked
  /\ raced' = (raced \/ Pending # {m} \/ sent # {})

(* onSuccess, onError *)
Answered(r) ==
  /\ r \in replies
  /\ replies' = replies \ {r}
  /\ IF change[r.change].at = "failed" THEN UNCHANGED <<cache, change, fetch, raced>>
     ELSE /\ change' = [change EXCEPT ![r.change].at = IF r.ok THEN "done" ELSE "failed"]
          /\ IF r.ok THEN cache' = Known(r.cart) /\ UNCHANGED <<fetch, raced>>
             ELSE Rollback(r.change)
  /\ UNCHANGED <<server, sent, fetchFailed>>

(* The connection breaks; the server may yet deal with the request. *)
NoAnswer(m) ==
  /\ change[m].at = "sent"
  /\ change' = [change EXCEPT ![m].at = "failed"]
  /\ Rollback(m)
  /\ UNCHANGED <<server, sent, replies, fetchFailed>>

CacheNext ==
  \/ Fetch \/ FetchServed \/ FetchAnswered \/ FetchFails
  \/ \E m \in Changes : BeginOptimistic(m) \/ SnapshotAndSend(m) \/ Served(m) \/ NoAnswer(m)
  \/ \E r \in replies : Answered(r)

CacheSpec == CacheInit /\ [][CacheNext]_cacheVars

----------------------------------------------------------------------------
Cart == [known : SUBSET Changes, guess : SUBSET Changes]

CacheTypeOK ==
  /\ server \subseteq Changes /\ sent \subseteq Changes
  /\ cache \in Cart \cup {Unknown}
  /\ change \in [Changes -> [at : {"idle", "begun", "sent", "done", "failed"},
                             previous : Cart \cup {Unknown}]]
  /\ fetch \in [at : {"none", "asked", "answered"}, cart : SUBSET Changes]
  /\ fetchFailed \in BOOLEAN /\ raced \in BOOLEAN

(* Once nothing is under way the cache holds a cart the server answered with,
   "replaced wholesale when the server's cart reconciles the cache"
   (lib/cart.ts:8-10): no optimistic change survives, whatever overlapped,
   failed, or was rolled back to a snapshot with another change in it.  If no
   request began while another was under way, it is the server's cart. *)
QuietIsServers ==
  Pending = {} /\ sent = {} /\ replies = {} /\ ~Fetching /\ ~fetchFailed /\ cache # Unknown
    => cache.guess = {} /\ (~raced => cache.known = server)
=============================================================================
