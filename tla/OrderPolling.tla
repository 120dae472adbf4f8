---------------------------- MODULE OrderPolling ----------------------------
(***************************************************************************)
(* The result page waiting for its order to be settled (hooks/useOrders.ts,*)
(* routes/CheckoutResultPage.tsx): it fetches every second while the order *)
(* is pending and gives up after thirty.  Time is abstracted: the interval *)
(* and the timeout may fire whenever they are armed.                       *)
(*                                                                         *)
(* The query library is external.  A fetch is paused while the browser is  *)
(* offline, from its start or before it is tried again; one that starts    *)
(* without data forgets the error, one with data keeps it until it is      *)
(* answered.                                                               *)
(***************************************************************************)
EXTENDS Naturals

VARIABLES
  settled,   \* the server's order: whether it is no longer pending
  data,      \* the query's order: none, pending, settled
  failed,    \* isError: the last fetch that ended has failed
  query,     \* fetchStatus: idle, fetching, paused
  answer,    \* what the server answered to the fetch under way
  retries,   \* how often the fetch under way was paused to be tried again
  timedOut   \* the state of the hook

pollingVars == <<settled, data, failed, query, answer, retries, timedOut>>

MaxRetries == 2

IsLoading == data = "none" /\ query = "fetching"

(* What arms the hook's timer. *)
IsWaiting == IsLoading \/ data = "pending"

(* What the page shows.  An order it does not have counts as pending, whether
   or not the hook waits for it. *)
View ==
  IF failed THEN "error"
  ELSE IF data = "settled" THEN "outcome"
  ELSE IF IsWaiting /\ timedOut THEN "stillProcessing"
  ELSE "processing"

(* The effect of the hook: timedOut is withdrawn with the waiting. *)
Effect == timedOut' = (timedOut /\ IsWaiting')

(* The page is opened; its order may be cached from an earlier visit. *)
PollingInit ==
  /\ settled \in BOOLEAN /\ failed \in BOOLEAN
  /\ data \in {"none", "pending"} \cup (IF settled THEN {"settled"} ELSE {})
  /\ query \in {"idle", "fetching", "paused"}
  /\ data = "none" => query # "idle" /\ ~failed
  /\ answer = "none" /\ retries = 0 /\ timedOut = FALSE

(* The webhook. *)
Settle == ~settled /\ settled' = TRUE /\ UNCHANGED <<data, failed, query, answer, retries, timedOut>>

StartFetch ==
  /\ query' \in {"fetching", "paused"}
  /\ answer' = "none" /\ retries' = 0
  /\ failed' = (failed /\ data # "none")
  /\ UNCHANGED <<settled, data>>
  /\ Effect

(* refetchInterval; it does nothing to a fetch that is under way. *)
Poll == ~timedOut /\ data = "pending" /\ query = "idle" /\ StartFetch

(* The browser is online again, or the order is used elsewhere. *)
Refetch == query = "idle" /\ StartFetch

(* The button of the error view drops a fetch that is under way. *)
Retry == View = "error" /\ StartFetch

Answer ==
  /\ query = "fetching" /\ answer = "none"
  /\ answer' = IF settled THEN "settled" ELSE "pending"
  /\ UNCHANGED <<settled, data, failed, query, retries, timedOut>>

Receive ==
  /\ answer # "none"
  /\ data' = answer /\ failed' = FALSE /\ query' = "idle" /\ answer' = "none"
  /\ UNCHANGED <<settled, retries>>
  /\ Effect

(* A try has failed, and the next one waits until the browser is online. *)
Pause ==
  /\ query = "fetching" /\ retries < MaxRetries
  /\ query' = "paused" /\ answer' = "none" /\ retries' = retries + 1
  /\ UNCHANGED <<settled, data, failed>>
  /\ Effect

Continue ==
  /\ query = "paused"
  /\ query' = "fetching"
  /\ UNCHANGED <<settled, data, failed, answer, retries>>
  /\ Effect

(* After the retries of the query; data that is there stays. *)
QueryFails ==
  /\ query = "fetching"
  /\ query' = "idle" /\ answer' = "none" /\ failed' = TRUE
  /\ UNCHANGED <<settled, data, retries>>
  /\ Effect

(* Mutant: the effect depends on the query's data as well, so that every poll
   arms the timer anew. *)
TimeOutBetweenPolls ==
  /\ IsWaiting /\ ~timedOut /\ query = "idle"
  /\ timedOut' = TRUE
  /\ UNCHANGED <<settled, data, failed, query, answer, retries>>

(* The timer, armed while the hook waits. *)
TimeOut ==
  /\ IsWaiting /\ ~timedOut
  /\ timedOut' = TRUE
  /\ UNCHANGED <<settled, data, failed, query, answer, retries>>

PollingNext ==
  \/ Settle \/ Poll \/ Refetch \/ Retry \/ Answer \/ Receive
  \/ Pause \/ Continue \/ QueryFails \/ TimeOut

PollingSpec == PollingInit /\ [][PollingNext]_pollingVars

(* The browser's timers fire.  No answer has to come, and a browser that is
   offline may stay so. *)
PollingFairness == WF_pollingVars(TimeOut)

----------------------------------------------------------------------------
PollingTypeOK ==
  /\ settled \in BOOLEAN /\ failed \in BOOLEAN /\ timedOut \in BOOLEAN
  /\ data \in {"none", "pending", "settled"} /\ answer \in {"none", "pending", "settled"}
  /\ query \in {"idle", "fetching", "paused"} /\ retries \in 0..MaxRetries

(* No order yet, and the fetch waits for the browser to be online: the page
   spins, and no timer is armed. *)
Stranded == data = "none" /\ query = "paused"

(* "instead of spinning forever" (useOrders.ts:24-30): the page leaves the
   spinner, even if no fetch is ever answered or the order is never settled, and
   however often fetches fail, are paused or start again.  Only a browser that
   is offline for good may keep it. *)
SpinnerGivesUp ==
  (Stranded ~> ~Stranded) => (View = "processing" ~> View # "processing")
=============================================================================
