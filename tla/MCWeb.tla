-------------------------------- MODULE MCWeb --------------------------------
(* Instances of CartCache, OrderPolling and CheckoutAttempt, one per behaviour: *)
(* they share no state.                                                         *)
EXTENDS CartCache, OrderPolling, CheckoutAttempt

VARIABLE part

MCInit ==
  /\ part \in {"cart", "polling", "attempt"}
  /\ CacheInit /\ PollingInit /\ AttemptInit
  /\ part # "polling" => View = "outcome" /\ query = "idle"

MCNext ==
  /\ UNCHANGED part
  /\ \/ part = "cart" /\ CacheNext /\ UNCHANGED <<pollingVars, attemptVars>>
     \/ part = "polling" /\ PollingNext /\ UNCHANGED <<cacheVars, attemptVars>>
     \/ part = "attempt" /\ AttemptNext /\ UNCHANGED <<cacheVars, pollingVars>>

(* Where the page is not the part that moves it shows its outcome, so that its
   timer is not armed and its fairness asks for nothing. *)
MCSpec ==
  MCInit /\ [][MCNext]_<<part, cacheVars, pollingVars, attemptVars>> /\ PollingFairness

(* Every component's state is well formed. *)
WebTypeOK == CacheTypeOK /\ PollingTypeOK /\ AttemptTypeOK
=============================================================================
