-------------------------------- MODULE Api ---------------------------------
(***************************************************************************)
(* The life of the API process (cmd/api, platform/db, platform/web):       *)
(* starting, serving, draining for at most ten seconds after a signal, and *)
(* closing the pool.  Its handlers share a pool of MaxConns connections.   *)
(* Of a handler only its outward steps are kept: it is let in, it holds a  *)
(* connection for a query or a transaction, it waits for the payment       *)
(* provider, it answers.                                                   *)
(***************************************************************************)
EXTENDS Auth, Sequences, FiniteSets

CONSTANTS
  Handlers,     \* HTTP requests
  Guard, Work,  \* of each: its route group, and its steps, "db" or "provider"
  Bearer,       \* of each: its token
  Probe,        \* the requests to /readyz
  MaxConns

ASSUME ApiAssumption ==
  /\ Guard \in [Handlers -> Guards]
  /\ Work \in [Handlers -> Seq({"db", "provider"})]
  /\ Bearer \in [Handlers -> Token \cup {NoToken}]
  /\ Probe \subseteq Handlers
  /\ MaxConns \in Nat \ {0}

VARIABLES
  process,  \* where main stands
  grace,    \* the ten seconds of Shutdown have passed
  handler   \* where each request stands

apiVars == <<authVars, process, grace, handler>>

Running == {"serving", "draining", "closing"}
Ended == {"answered", "rejected", "failed", "closed", "refused", "cut"}

InFlight(h) == handler[h].at \notin Ended \cup {"new"}
Holding == {h \in Handlers : handler[h].holds}

----------------------------------------------------------------------------
(* The process *)

(* config.Load, NewPool, NewVerifier and selectPaymentProvider, any of which
   may refuse; nothing is asked of the database or the issuer yet. *)
Start ==
  /\ process = "starting"
  /\ process' \in {"serving", "failed"}
  /\ UNCHANGED <<authVars, grace, handler>>

(* Whatever still runs when the process ends is cut, with what it holds. *)
CutAll == handler' = [h \in Handlers |->
  IF InFlight(h) THEN [handler[h] EXCEPT !.at = "cut"] ELSE handler[h]]

(* ListenAndServe fails: os.Exit(1). *)
ListenFails ==
  /\ process = "serving"
  /\ process' = "failed"
  /\ CutAll
  /\ UNCHANGED <<authVars, grace>>

Signal ==
  /\ process = "serving"
  /\ process' = "draining"
  /\ UNCHANGED <<authVars, grace, handler>>

(* The timeout of shutdownCtx. *)
GraceElapses ==
  /\ process = "draining" /\ ~grace
  /\ grace' = TRUE
  /\ UNCHANGED <<authVars, process, handler>>

(* Mutant: Shutdown with a context that has no deadline. *)
ShutdownReturnsIdle ==
  /\ process = "draining"
  /\ \A h \in Handlers : ~InFlight(h)
  /\ process' = "closing"
  /\ UNCHANGED <<authVars, grace, handler>>

(* srv.Shutdown: the last handler has ended, or the time is up. *)
ShutdownReturns ==
  /\ process = "draining"
  /\ grace \/ \A h \in Handlers : ~InFlight(h)
  /\ process' = "closing"
  /\ UNCHANGED <<authVars, grace, handler>>

(* Mutant: main returns without closing the pool. *)
ExitWithoutClosing ==
  /\ process = "closing"
  /\ process' = "exited"
  /\ CutAll
  /\ UNCHANGED <<authVars, grace>>

(* pool.Close, deferred in main, waits for every connection to be given back;
   then main returns. *)
PoolCloses ==
  /\ process = "closing"
  /\ Holding = {}
  /\ process' = "exited"
  /\ CutAll
  /\ UNCHANGED <<authVars, grace>>

----------------------------------------------------------------------------
(* The handlers *)

(* The state of a handler with the steps left before it. *)
At(left) == IF left = <<>> THEN "answered" ELSE IF Head(left) = "db" THEN "wait" ELSE "provider"

Step(h, next) == handler' = [handler EXCEPT ![h] = next]
Finish(h, how) == Step(h, [handler[h] EXCEPT !.at = how, !.holds = FALSE])

(* After a signal the listener is closed. *)
Arrive(h) ==
  /\ handler[h].at = "new"
  /\ process \in Running
  /\ Finish(h, IF process = "serving" THEN "arrived" ELSE "refused")
  /\ UNCHANGED <<authVars, process, grace>>

(* The middleware of the route's group, which may fetch the keys. *)
Authenticate(h) ==
  /\ handler[h].at = "arrived"
  /\ \E keys \in IF Guard[h] = "public" \/ Bearer[h] = NoToken THEN {jwks} ELSE KeySets :
       /\ jwks' = keys
       /\ IF Forbids(Guard[h], Bearer[h], keys) THEN Finish(h, "rejected")
          ELSE Step(h, [handler[h] EXCEPT !.at = At(Work[h]), !.left = Work[h],
                                          !.user = SignedIn(Guard[h], Bearer[h], keys)])
  /\ UNCHANGED <<published, rotations, process, grace>>

(* pool.Acquire *)
Acquire(h) ==
  /\ handler[h].at = "wait"
  /\ process \in {"serving", "draining"}
  /\ Cardinality(Holding) < MaxConns
  /\ Step(h, [handler[h] EXCEPT !.at = "db", !.holds = TRUE])
  /\ UNCHANGED <<authVars, process, grace>>

(* The pool is closed. *)
AcquireRefused(h) ==
  /\ handler[h].at = "wait" /\ process = "closing"
  /\ Finish(h, "closed")
  /\ UNCHANGED <<authVars, process, grace>>

Advance(h, holds) ==
  LET left == Tail(handler[h].left) IN
  Step(h, [handler[h] EXCEPT !.at = At(left), !.left = left, !.holds = holds])

(* Mutant: the connection is given back when the handler ends. *)
EndQueryKeeping(h) ==
  /\ handler[h].at = "db"
  /\ Advance(h, Len(handler[h].left) > 1)
  /\ UNCHANGED <<authVars, process, grace>>

(* The query or the transaction has ended; a connection is held no longer. *)
EndQuery(h) ==
  /\ handler[h].at = "db"
  /\ Advance(h, FALSE)
  /\ UNCHANGED <<authVars, process, grace>>

ProviderAnswers(h) ==
  /\ handler[h].at = "provider"
  /\ Advance(h, handler[h].holds)
  /\ UNCHANGED <<authVars, process, grace>>

(* An error, a panic that Recovery turns into a 500, or the client has gone and
   the context with it; a transaction rolls back. *)
HandlerFails(h) ==
  /\ handler[h].at \in {"wait", "db", "provider"}
  /\ Finish(h, "failed")
  /\ UNCHANGED <<authVars, process, grace>>

(* readyz gives the pool two seconds. *)
PingTimesOut(h) ==
  /\ h \in Probe /\ handler[h].at \in {"wait", "db"}
  /\ Finish(h, "failed")
  /\ UNCHANGED <<authVars, process, grace>>

HandlerStep(h) ==
  /\ process \in Running
  /\ \/ Authenticate(h) \/ Acquire(h) \/ AcquireRefused(h) \/ EndQuery(h)
     \/ ProviderAnswers(h) \/ HandlerFails(h) \/ PingTimesOut(h)

----------------------------------------------------------------------------
ApiInit ==
  /\ AuthInit
  /\ process = "starting"
  /\ grace = FALSE
  /\ handler = [h \in Handlers |-> [at |-> "new", left |-> <<>>, holds |-> FALSE, user |-> FALSE]]

IssuerStep == RotateKeys /\ UNCHANGED <<process, grace, handler>>
CacheStep == process \in Running /\ RefreshKeys /\ UNCHANGED <<process, grace, handler>>
ProcessStep ==
  Start \/ ListenFails \/ Signal \/ GraceElapses \/ ShutdownReturns \/ PoolCloses

ApiNext ==
  \/ IssuerStep \/ CacheStep \/ ProcessStep
  \/ \E h \in Handlers : Arrive(h) \/ HandlerStep(h)

ApiSpec == ApiInit /\ [][ApiNext]_apiVars

(* The pool serves its waiters in order, the database answers, time passes,
   main goes on.  Nothing is assumed of the payment provider, of clients and of
   the fetches of the issuer's keys, and nobody has to send a signal. *)
ApiFairness ==
  /\ \A h \in Handlers :
       SF_apiVars(Acquire(h)) /\ WF_apiVars(process \in Running /\ EndQuery(h))
  /\ WF_apiVars(GraceElapses) /\ WF_apiVars(ShutdownReturns) /\ WF_apiVars(PoolCloses)

----------------------------------------------------------------------------
(* Properties *)

ApiTypeOK ==
  /\ published \in (SUBSET SigningKeys) \ {{}} /\ rotations \in 0..MaxRotations
  /\ jwks \subseteq SigningKeys
  /\ process \in {"starting", "exited", "failed"} \cup Running
  /\ grace \in BOOLEAN
  /\ handler \in [Handlers -> [at : {"new", "arrived", "wait", "db", "provider"} \cup Ended,
                               left : Seq({"db", "provider"}), holds : BOOLEAN, user : BOOLEAN]]
  /\ Cardinality(Holding) <= MaxConns

(* An orderly exit interrupts no transaction, and a request it lets down, by
   cutting it off or with a closed pool, has had its ten seconds
   (main.go:51, 103-107). *)
OrderlyExit ==
  /\ \A h \in Handlers : process = "exited" /\ handler[h].at = "cut" => ~handler[h].holds
  /\ \A h \in Handlers : handler[h].at \in {"cut", "closed"} => grace \/ process = "failed"

(* Calls to the provider that never return starve nobody: a handler that waits
   for a connection does not wait forever (db.go:22, service.go:238-247). *)
PoolServesAll == \A h \in Handlers : handler[h].at = "wait" ~> handler[h].at # "wait"

(* After a signal the process ends, whatever its handlers wait for. *)
ShutdownEnds == process = "draining" ~> process = "exited"
=============================================================================
