----------------------------- MODULE ApiProofs ------------------------------
(***************************************************************************)
(* The orderly end of the API process and the bound of its pool, for any   *)
(* number of handlers, routes, connections and keys.                       *)
(***************************************************************************)
EXTENDS Api, FiniteSetTheorems, TLAPS

(* Where the handlers stand; what they have left to do does not matter. *)
HandlersOK ==
  /\ DOMAIN handler = Handlers
  /\ \A h \in Handlers : DOMAIN handler[h] = {"at", "left", "holds", "user"}

(* A handler's step changes that handler only. *)
OnlyHandler(h) ==
  /\ DOMAIN handler' = DOMAIN handler
  /\ \A g \in Handlers : g # h => handler'[g] = handler[g]

LEMMA AnyStep ==
  ASSUME HandlersOK, NEW h \in Handlers, NEW next, Step(h, next)
  PROVE  OnlyHandler(h) /\ handler'[h] = next
BY DEF HandlersOK, Step, OnlyHandler

LEMMA AnyFinish ==
  ASSUME HandlersOK, NEW h \in Handlers, NEW how, Finish(h, how)
  PROVE  /\ OnlyHandler(h) /\ handler'[h].at = how /\ ~handler'[h].holds
         /\ DOMAIN handler'[h] = DOMAIN handler[h]
<1>. DEFINE next == [handler[h] EXCEPT !.at = how, !.holds = FALSE]
<1>1. Step(h, next)
  BY DEF Finish
<1>2. next.at = how /\ ~next.holds /\ DOMAIN next = DOMAIN handler[h]
  BY DEF HandlersOK
<1>. HIDE DEF next
<1>. QED  BY <1>1, <1>2, AnyStep

LEMMA AnyAdvance ==
  ASSUME HandlersOK, NEW h \in Handlers, NEW holds, Advance(h, holds)
  PROVE  /\ OnlyHandler(h) /\ handler'[h].at \in {"answered", "wait", "provider"}
         /\ DOMAIN handler'[h] = DOMAIN handler[h] /\ handler'[h].holds = holds
<1>. DEFINE left == Tail(handler[h].left)
            next == [handler[h] EXCEPT !.at = At(left), !.left = left, !.holds = holds]
<1>1. Step(h, next)
  BY DEF Advance
<1>2. /\ next.at = At(left) /\ DOMAIN next = DOMAIN handler[h] /\ next.holds = holds
  BY DEF HandlersOK
<1>3. At(left) \in {"answered", "wait", "provider"}
  BY DEF At
<1>. HIDE DEF next
<1>. QED  BY <1>1, <1>2, <1>3, AnyStep

(* Once main closes the pool before the time is up, every handler has ended
   or has not begun. *)
ExitInv ==
  /\ HandlersOK
  /\ process = "closing" => grace \/ \A h \in Handlers : ~InFlight(h)
  /\ OrderlyExit

LEMMA ExitInit == ApiInit => ExitInv
BY DEF ApiInit, ExitInv, HandlersOK, OrderlyExit

(* A handler that goes on, is let in, or ends. *)
LEMMA HandlerExit ==
  ASSUME ExitInv, NEW h \in Handlers, OnlyHandler(h),
         DOMAIN handler'[h] = DOMAIN handler[h],
         UNCHANGED <<process, grace>>, process \in Running,
         \/ InFlight(h) /\ handler'[h].at \notin {"cut", "closed"}
         \/ InFlight(h) /\ process = "closing" /\ handler'[h].at = "closed"
         \/ process = "serving" /\ handler'[h].at = "arrived"
         \/ handler'[h].at = "refused"
  PROVE  ExitInv'
<1>1. HandlersOK'
  BY DEF ExitInv, HandlersOK, OnlyHandler
<1>2. (process = "closing" => grace \/ \A g \in Handlers : ~InFlight(g))'
  BY DEF ExitInv, OnlyHandler, InFlight, Ended
<1>3. OrderlyExit'
  BY DEF ExitInv, OnlyHandler, OrderlyExit, Running
<1>. QED  BY <1>1, <1>2, <1>3 DEF ExitInv

LEMMA CutExit ==
  ASSUME ExitInv, CutAll, UNCHANGED grace,
         \/ process' = "failed"
         \/ process = "closing" /\ Holding = {} /\ process' = "exited"
  PROVE  ExitInv'
<1>1. \A h \in Handlers :
        handler'[h] = IF InFlight(h) THEN [handler[h] EXCEPT !.at = "cut"] ELSE handler[h]
  BY DEF CutAll
<1>2. HandlersOK'
  BY <1>1 DEF CutAll, ExitInv, HandlersOK
<1>3. ASSUME NEW h \in Handlers, process' = "exited"
      PROVE  ~handler'[h].holds
  BY <1>1, <1>3 DEF Holding, ExitInv, HandlersOK
<1>4. ASSUME NEW h \in Handlers, handler'[h].at \in {"cut", "closed"}, process' = "exited"
      PROVE  grace'
  BY <1>1, <1>4 DEF ExitInv, OrderlyExit
<1>. QED  BY <1>2, <1>3, <1>4 DEF ExitInv, OrderlyExit

(* A process that ends in order interrupts no transaction, and a request that
   it lets down, cut off or with a closed pool, had its ten seconds, whatever
   the handlers wait for and however many they are (main.go: Shutdown, the
   deferred pool.Close). *)
THEOREM ExitIsOrderly == ApiSpec => []OrderlyExit
<1>1. ExitInv /\ [ApiNext]_apiVars => ExitInv'
  <2>. SUFFICES ASSUME ExitInv, [ApiNext]_apiVars PROVE ExitInv'
    OBVIOUS
  <2>1. HandlersOK
    BY DEF ExitInv
  <2>2. ASSUME NEW h \in Handlers, Arrive(h) PROVE ExitInv'
    BY <2>1, <2>2, AnyFinish, HandlerExit DEF Arrive
  <2>3. ASSUME NEW h \in Handlers, HandlerStep(h) PROVE ExitInv'
    <3>1. process \in Running /\ UNCHANGED <<process, grace>>
      BY <2>3 DEF HandlerStep, Authenticate, Acquire, AcquireRefused, EndQuery,
                  ProviderAnswers, HandlerFails, PingTimesOut
    <3>2. InFlight(h)
      BY <2>3 DEF HandlerStep, Authenticate, Acquire, AcquireRefused, EndQuery,
                  ProviderAnswers, HandlerFails, PingTimesOut, InFlight, Ended
    <3>3. CASE EndQuery(h) \/ ProviderAnswers(h)
      BY <2>1, <3>1, <3>2, <3>3, AnyAdvance, HandlerExit DEF EndQuery, ProviderAnswers
    <3>4. CASE AcquireRefused(h) \/ HandlerFails(h) \/ PingTimesOut(h)
      BY <2>1, <3>1, <3>2, <3>4, AnyFinish, HandlerExit
         DEF AcquireRefused, HandlerFails, PingTimesOut
    <3>5. CASE Acquire(h)
      <4>1. Step(h, [handler[h] EXCEPT !.at = "db", !.holds = TRUE])
        BY <3>5 DEF Acquire
      <4>2. /\ [handler[h] EXCEPT !.at = "db", !.holds = TRUE].at = "db"
            /\ DOMAIN [handler[h] EXCEPT !.at = "db", !.holds = TRUE] = DOMAIN handler[h]
        BY <2>1 DEF HandlersOK
      <4>. QED  BY <2>1, <3>1, <3>2, <4>1, <4>2, AnyStep, HandlerExit
    <3>6. CASE Authenticate(h)
      <4>. DEFINE next(keys) == [handler[h] EXCEPT !.at = At(Work[h]), !.left = Work[h],
                                   !.user = SignedIn(Guard[h], Bearer[h], keys)]
      <4>1. PICK keys : Finish(h, "rejected") \/ Step(h, next(keys))
        BY <3>6 DEF Authenticate
      <4>2. /\ next(keys).at = At(Work[h])
            /\ DOMAIN next(keys) = DOMAIN handler[h]
        BY <2>1 DEF HandlersOK
      <4>3. At(Work[h]) \in {"answered", "wait", "provider"}
        BY DEF At
      <4>. HIDE DEF next
      <4>. QED  BY <2>1, <3>1, <3>2, <4>1, <4>2, <4>3, AnyFinish, AnyStep, HandlerExit
    <3>. QED  BY <2>3, <3>3, <3>4, <3>5, <3>6 DEF HandlerStep
  <2>4. ASSUME ListenFails \/ PoolCloses PROVE ExitInv'
    BY <2>4, CutExit DEF ListenFails, PoolCloses
  <2>5. ASSUME handler' = handler,
               \/ Start \/ Signal \/ GraceElapses \/ ShutdownReturns
               \/ UNCHANGED <<process, grace>>
        PROVE  ExitInv'
    BY <2>5 DEF Start, Signal, GraceElapses, ShutdownReturns, ExitInv, HandlersOK,
                OrderlyExit, InFlight
  <2>. QED
    BY <2>2, <2>3, <2>4, <2>5
       DEF ApiNext, IssuerStep, CacheStep, ProcessStep, Start, Signal, GraceElapses,
           ShutdownReturns, apiVars
<1>2. ExitInv => OrderlyExit
  BY DEF ExitInv
<1>. QED  BY <1>1, <1>2, ExitInit, PTL DEF ApiSpec

----------------------------------------------------------------------------
(* The pool *)

Place == [at : {"new", "arrived", "wait", "db", "provider"} \cup Ended,
          left : Seq({"db", "provider"}), holds : BOOLEAN, user : BOOLEAN]

(* A handler at one of its outward steps has that step still before it. *)
Busy(place) == place.at \in {"wait", "db", "provider"} => place.left # <<>>

PoolInv ==
  /\ ApiTypeOK
  /\ IsFiniteSet(Holding)
  /\ \A h \in Handlers : Busy(handler[h])

LEMMA AtType ==
  ASSUME NEW left \in Seq({"db", "provider"})
  PROVE  /\ At(left) \in {"wait", "provider", "answered"}
         /\ At(left) \in {"wait", "provider"} => left # <<>>
BY DEF At

(* A handler that takes a connection found one free. *)
LEMMA Moves ==
  ASSUME PoolInv, NEW h \in Handlers, NEW next \in Place, Busy(next), Step(h, next),
         next.holds => handler[h].holds \/ Cardinality(Holding) < MaxConns,
         authVars' = authVars \/ (UNCHANGED <<published, rotations>> /\ jwks' \subseteq SigningKeys),
         UNCHANGED <<process, grace>>
  PROVE  PoolInv'
<1>0. /\ handler \in [Handlers -> Place] /\ MaxConns \in Nat /\ IsFiniteSet(Holding)
      /\ Cardinality(Holding) <= MaxConns
  BY ApiAssumption DEF PoolInv, ApiTypeOK, Place
<1>1. /\ handler' \in [Handlers -> Place] /\ handler'[h] = next
      /\ \A g \in Handlers : g # h => handler'[g] = handler[g]
  BY <1>0 DEF Step
<1>2. IsFiniteSet(Holding') /\ Cardinality(Holding') <= MaxConns
  <2>1. CASE next.holds /\ ~handler[h].holds
    <3>1. Holding' = Holding \cup {h} /\ h \notin Holding
      BY <1>1, <2>1 DEF Holding
    <3>2. Cardinality(Holding') = Cardinality(Holding) + 1 /\ IsFiniteSet(Holding')
      BY <1>0, <3>1, FS_AddElement
    <3>. QED  BY <1>0, <2>1, <3>2, FS_CardinalityType
  <2>2. CASE next.holds /\ handler[h].holds
    <3>1. Holding' = Holding
      BY <1>1, <2>2 DEF Holding
    <3>. QED  BY <1>0, <3>1
  <2>3. CASE ~next.holds
    <3>1. Holding' \subseteq Holding
      BY <1>1, <2>3 DEF Holding
    <3>2. IsFiniteSet(Holding') /\ Cardinality(Holding') <= Cardinality(Holding)
      BY <1>0, <3>1, FS_Subset
    <3>. QED  BY <1>0, <3>2, FS_CardinalityType
  <2>. QED  BY <2>1, <2>2, <2>3
<1>3. \A g \in Handlers : Busy(handler'[g])
  BY <1>1 DEF PoolInv
<1>. QED  BY <1>1, <1>2, <1>3 DEF PoolInv, ApiTypeOK, Place, authVars

LEMMA Finishes ==
  ASSUME PoolInv, NEW h \in Handlers, NEW how \in {"arrived"} \cup Ended, Finish(h, how),
         authVars' = authVars \/ (UNCHANGED <<published, rotations>> /\ jwks' \subseteq SigningKeys),
         UNCHANGED <<process, grace>>
  PROVE  PoolInv'
<1>. DEFINE next == [handler[h] EXCEPT !.at = how, !.holds = FALSE]
<1>1. handler[h] \in Place
  BY DEF PoolInv, ApiTypeOK, Place
<1>2. next \in Place /\ ~next.holds /\ next.at = how
  BY <1>1 DEF Place
<1>3. Busy(next)
  BY <1>2 DEF Busy, Ended
<1>4. Step(h, next)
  BY DEF Finish
<1>. HIDE DEF next
<1>. QED  BY <1>2, <1>3, <1>4, Moves

LEMMA Advances ==
  ASSUME PoolInv, NEW h \in Handlers, handler[h].at \in {"db", "provider"},
         NEW holds \in BOOLEAN, Advance(h, holds), holds => handler[h].holds,
         authVars' = authVars, UNCHANGED <<process, grace>>
  PROVE  PoolInv'
<1>. DEFINE left == Tail(handler[h].left)
            next == [handler[h] EXCEPT !.at = At(left), !.left = left, !.holds = holds]
<1>1. handler[h] \in Place /\ handler[h].left # <<>>
  BY DEF PoolInv, ApiTypeOK, Place, Busy
<1>2. left \in Seq({"db", "provider"})
  BY <1>1 DEF Place
<1>. HIDE DEF left
<1>3. At(left) \in {"wait", "provider", "answered"} /\ (At(left) \in {"wait", "provider"} => left # <<>>)
  BY <1>2, AtType
<1>4. next \in Place /\ next.holds = holds /\ next.at = At(left) /\ next.left = left
  BY <1>1, <1>2, <1>3 DEF Place, Ended
<1>5. Busy(next)
  BY <1>3, <1>4 DEF Busy
<1>6. Step(h, next)
  BY DEF Advance, left
<1>. HIDE DEF next
<1>. QED  BY <1>4, <1>5, <1>6, Moves

LEMMA PoolCut ==
  ASSUME PoolInv, CutAll, authVars' = authVars, UNCHANGED grace, process' \in {"exited", "failed"}
  PROVE  PoolInv'
<1>0. handler \in [Handlers -> Place] /\ MaxConns \in Nat
  BY ApiAssumption DEF PoolInv, ApiTypeOK, Place
<1>1. \A h \in Handlers :
        handler'[h] = IF InFlight(h) THEN [handler[h] EXCEPT !.at = "cut"] ELSE handler[h]
  BY DEF CutAll
<1>2. \A h \in Handlers : /\ handler'[h] \in Place /\ handler'[h].holds = handler[h].holds
                          /\ Busy(handler'[h])
  <2>. TAKE h \in Handlers
  <2>1. CASE InFlight(h)
    <3>1. handler'[h] = [handler[h] EXCEPT !.at = "cut"] /\ handler[h] \in Place
      BY <1>0, <1>1, <2>1
    <3>. QED  BY <3>1 DEF Place, Ended, Busy
  <2>2. CASE ~InFlight(h)
    BY <1>0, <1>1, <2>2 DEF PoolInv
  <2>. QED  BY <2>1, <2>2
<1>3. handler' \in [Handlers -> Place]
  BY <1>2 DEF CutAll
<1>4. Holding' = Holding
  BY <1>2 DEF Holding
<1>. QED  BY <1>2, <1>3, <1>4 DEF PoolInv, ApiTypeOK, Place, authVars

LEMMA PoolInit == ApiInit => PoolInv
<1>. SUFFICES ASSUME ApiInit PROVE PoolInv
  OBVIOUS
<1>1. Holding = {} /\ IsFiniteSet({}) /\ Cardinality({}) = 0 /\ MaxConns \in Nat
  BY ApiAssumption, FS_EmptySet DEF ApiInit, Holding
<1>2. handler \in [Handlers -> Place] /\ \A h \in Handlers : Busy(handler[h])
  BY DEF ApiInit, Place, Busy
<1>3. published \in (SUBSET SigningKeys) \ {{}}
  <2>1. PICK key \in SigningKeys : published = {key}
    BY DEF ApiInit, AuthInit
  <2>. QED  BY <2>1
<1>4. rotations \in 0..MaxRotations /\ jwks = {} /\ process = "starting" /\ grace = FALSE
  BY AuthAssumption DEF ApiInit, AuthInit
<1>5. IsFiniteSet(Holding) /\ Cardinality(Holding) <= MaxConns
  BY <1>1
<1>6. ApiTypeOK
  BY <1>2, <1>3, <1>4, <1>5 DEF ApiTypeOK, Place
<1>. QED  BY <1>2, <1>5, <1>6 DEF PoolInv

LEMMA PoolStep == PoolInv /\ [ApiNext]_apiVars => PoolInv'
<1>. SUFFICES ASSUME PoolInv, [ApiNext]_apiVars PROVE PoolInv'
  OBVIOUS
<1>0. jwks \subseteq SigningKeys /\ published \subseteq SigningKeys
  BY DEF PoolInv, ApiTypeOK
<1>1. ASSUME NEW h \in Handlers, Arrive(h) PROVE PoolInv'
  BY <1>1, Finishes DEF Arrive, Ended
<1>2. ASSUME NEW h \in Handlers, Authenticate(h) PROVE PoolInv'
  <2>. DEFINE next(keys) == [handler[h] EXCEPT !.at = At(Work[h]), !.left = Work[h],
                               !.user = SignedIn(Guard[h], Bearer[h], keys)]
  <2>1. PICK keys \in IF Guard[h] = "public" \/ Bearer[h] = NoToken THEN {jwks} ELSE KeySets :
          jwks' = keys /\ (Finish(h, "rejected") \/ Step(h, next(keys)))
    BY <1>2 DEF Authenticate
  <2>2. /\ UNCHANGED <<published, rotations>> /\ UNCHANGED <<process, grace>>
        /\ jwks' \subseteq SigningKeys
    BY <1>0, <1>2, <2>1 DEF Authenticate, KeySets
  <2>3. handler[h] \in Place /\ Work[h] \in Seq({"db", "provider"})
    BY ApiAssumption DEF PoolInv, ApiTypeOK, Place
  <2>4. SignedIn(Guard[h], Bearer[h], keys) \in BOOLEAN
    BY DEF SignedIn
  <2>5. /\ next(keys) \in Place /\ next(keys).holds = handler[h].holds
        /\ next(keys).at = At(Work[h]) /\ next(keys).left = Work[h]
    BY <2>3, <2>4, AtType DEF Place, Ended
  <2>6. Busy(next(keys))
    BY <2>3, <2>5, AtType DEF Busy
  <2>. HIDE DEF next
  <2>7. CASE Step(h, next(keys))
    BY <2>2, <2>5, <2>6, <2>7, Moves
  <2>8. CASE Finish(h, "rejected")
    BY <2>2, <2>8, Finishes DEF Ended
  <2>. QED  BY <2>1, <2>7, <2>8
<1>3. ASSUME NEW h \in Handlers, Acquire(h) PROVE PoolInv'
  <2>. DEFINE next == [handler[h] EXCEPT !.at = "db", !.holds = TRUE]
  <2>1. handler[h] \in Place /\ Busy(handler[h]) /\ handler[h].at = "wait"
    BY <1>3 DEF PoolInv, ApiTypeOK, Place, Acquire
  <2>2. next \in Place /\ Busy(next)
    BY <2>1 DEF Place, Busy
  <2>3. Step(h, next) /\ Cardinality(Holding) < MaxConns /\ authVars' = authVars
    BY <1>3 DEF Acquire
  <2>. HIDE DEF next
  <2>. QED  BY <1>3, <2>2, <2>3, Moves DEF Acquire
<1>4. ASSUME NEW h \in Handlers, AcquireRefused(h) \/ HandlerFails(h) \/ PingTimesOut(h)
      PROVE  PoolInv'
  BY <1>4, Finishes DEF AcquireRefused, HandlerFails, PingTimesOut, Ended
<1>5. ASSUME NEW h \in Handlers, EndQuery(h) PROVE PoolInv'
  BY <1>5, Advances DEF EndQuery
<1>6. ASSUME NEW h \in Handlers, ProviderAnswers(h) PROVE PoolInv'
  <2>1. handler[h].holds \in BOOLEAN
    BY DEF PoolInv, ApiTypeOK
  <2>. QED  BY <1>6, <2>1, Advances DEF ProviderAnswers
<1>7. ASSUME ListenFails \/ PoolCloses PROVE PoolInv'
  BY <1>7, PoolCut DEF ListenFails, PoolCloses
<1>8. ASSUME UNCHANGED <<authVars, handler>>,
             Start \/ Signal \/ GraceElapses \/ ShutdownReturns \/ UNCHANGED <<process, grace>>
      PROVE  PoolInv'
  BY <1>8 DEF Start, Signal, GraceElapses, ShutdownReturns, PoolInv, ApiTypeOK, Holding,
              Running, authVars
<1>9. ASSUME UNCHANGED <<process, grace, handler>>, RotateKeys \/ RefreshKeys PROVE PoolInv'
  <2>1. /\ published' \in (SUBSET SigningKeys) \ {{}} /\ rotations' \in 0..MaxRotations
        /\ jwks' \subseteq SigningKeys
    BY <1>0, <1>9, AuthAssumption DEF RotateKeys, RefreshKeys, PoolInv, ApiTypeOK
  <2>. QED  BY <1>9, <2>1 DEF PoolInv, ApiTypeOK, Holding
<1>. QED
  BY <1>1, <1>2, <1>3, <1>4, <1>5, <1>6, <1>7, <1>8, <1>9
     DEF ApiNext, IssuerStep, CacheStep, ProcessStep, HandlerStep, Start, Signal,
         GraceElapses, ShutdownReturns, apiVars

(* No more connections are out than the pool has, and a handler that waits for
   one or for the provider still has that call before it, for any number of
   handlers, any routes and any rotation of the keys (db.go: MaxConns). *)
THEOREM PoolIsBounded == ApiSpec => []ApiTypeOK
<1>1. PoolInv => ApiTypeOK
  BY DEF PoolInv
<1>. QED  BY <1>1, PoolInit, PoolStep, PTL DEF ApiSpec

----------------------------------------------------------------------------
(* Connections are held by queries only *)

(* A handler holds a connection exactly while its query or transaction runs;
   only the end of the process stops it in between. *)
ConnectionsInUse ==
  \A h \in Handlers :
    /\ handler[h].at = "db" => handler[h].holds
    /\ handler[h].holds => handler[h].at \in {"db", "cut"}
    /\ handler[h].at = "cut" => process \in {"exited", "failed"}

LEMMA PoolHandlers == PoolInv => HandlersOK
BY DEF PoolInv, ApiTypeOK, HandlersOK

(* A handler that moves within a running process and keeps to the rule. *)
LEMMA InUseMoves ==
  ASSUME ConnectionsInUse, NEW h \in Handlers, OnlyHandler(h), process' = process,
         handler'[h].at # "cut", handler'[h].holds <=> handler'[h].at = "db"
  PROVE  ConnectionsInUse'
BY DEF ConnectionsInUse, OnlyHandler

LEMMA InUseStep == PoolInv /\ ConnectionsInUse /\ [ApiNext]_apiVars => ConnectionsInUse'
<1>. SUFFICES ASSUME PoolInv, ConnectionsInUse, [ApiNext]_apiVars PROVE ConnectionsInUse'
  OBVIOUS
<1>1. HandlersOK
  BY PoolHandlers
<1>2. ASSUME NEW h \in Handlers, Arrive(h) PROVE ConnectionsInUse'
  BY <1>1, <1>2, AnyFinish, InUseMoves DEF Arrive
<1>3. ASSUME NEW h \in Handlers, HandlerStep(h) PROVE ConnectionsInUse'
  <2>1. process' = process
    BY <1>3 DEF HandlerStep, Authenticate, Acquire, AcquireRefused, EndQuery,
                ProviderAnswers, HandlerFails, PingTimesOut
  <2>2. CASE EndQuery(h) \/ ProviderAnswers(h)
    <3>1. ProviderAnswers(h) => ~handler[h].holds
      BY DEF ProviderAnswers, ConnectionsInUse
    <3>2. /\ OnlyHandler(h) /\ handler'[h].at \in {"answered", "wait", "provider"}
          /\ ~handler'[h].holds
      BY <1>1, <2>2, <3>1, AnyAdvance DEF EndQuery, ProviderAnswers
    <3>. QED  BY <2>1, <3>2, InUseMoves
  <2>3. CASE AcquireRefused(h) \/ HandlerFails(h) \/ PingTimesOut(h)
    BY <1>1, <2>1, <2>3, AnyFinish, InUseMoves DEF AcquireRefused, HandlerFails, PingTimesOut
  <2>4. CASE Acquire(h)
    <3>. DEFINE next == [handler[h] EXCEPT !.at = "db", !.holds = TRUE]
    <3>1. Step(h, next)
      BY <2>4 DEF Acquire
    <3>2. next.at = "db" /\ next.holds
      BY <1>1 DEF HandlersOK
    <3>. HIDE DEF next
    <3>. QED  BY <1>1, <2>1, <3>1, <3>2, AnyStep, InUseMoves
  <2>5. CASE Authenticate(h)
    <3>. DEFINE next(keys) == [handler[h] EXCEPT !.at = At(Work[h]), !.left = Work[h],
                                 !.user = SignedIn(Guard[h], Bearer[h], keys)]
    <3>1. PICK keys : Finish(h, "rejected") \/ Step(h, next(keys))
      BY <2>5 DEF Authenticate
    <3>2. ~handler[h].holds
      BY <2>5 DEF Authenticate, ConnectionsInUse
    <3>3. next(keys).at \in {"answered", "wait", "provider"} /\ ~next(keys).holds
      BY <1>1, <3>2 DEF HandlersOK, At
    <3>. HIDE DEF next
    <3>. QED  BY <1>1, <2>1, <3>1, <3>3, AnyFinish, AnyStep, InUseMoves
  <2>. QED  BY <1>3, <2>2, <2>3, <2>4, <2>5 DEF HandlerStep
<1>4. ASSUME ListenFails \/ PoolCloses PROVE ConnectionsInUse'
  <2>1. /\ process' \in {"exited", "failed"}
        /\ \A h \in Handlers :
             handler'[h] = IF InFlight(h) THEN [handler[h] EXCEPT !.at = "cut"] ELSE handler[h]
    BY <1>4 DEF ListenFails, PoolCloses, CutAll
  <2>2. \A h \in Handlers : handler[h].at = "db" => InFlight(h)
    BY DEF InFlight, Ended
  <2>. QED  BY <1>1, <2>1, <2>2 DEF ConnectionsInUse, HandlersOK
<1>5. ASSUME handler' = handler,
             process' = process \/ Start \/ Signal \/ ShutdownReturns
      PROVE  ConnectionsInUse'
  BY <1>5 DEF ConnectionsInUse, Start, Signal, ShutdownReturns
<1>. QED
  BY <1>2, <1>3, <1>4, <1>5
     DEF ApiNext, IssuerStep, CacheStep, ProcessStep, Start, Signal, GraceElapses,
         ShutdownReturns, apiVars

LEMMA InUseInit == ApiInit => ConnectionsInUse
BY DEF ApiInit, ConnectionsInUse

(* No handler sits on a connection: while it waits for the pool or for the
   payment provider it holds none, and it leaves none behind when it ends
   (service.go:238-247, the intent is created outside any transaction). *)
THEOREM OnlyQueriesHold == ApiSpec => []ConnectionsInUse
<1>1. ApiSpec => []PoolInv
  BY PoolInit, PoolStep, PTL DEF ApiSpec
<1>. QED  BY <1>1, InUseInit, InUseStep, PTL DEF ApiSpec

(* Whoever waits for a connection of a running process finds one free, or
   waits for a query that has still to end: never for a handler that waits for
   the provider or for the pool itself.  That is why PoolServesAll needs
   nothing of the provider. *)
WaitersCanBeServed ==
  (\E h \in Handlers : handler[h].at = "wait") /\ process \in {"serving", "draining"}
    => \/ Cardinality(Holding) < MaxConns
       \/ \E g \in Handlers : handler[g].at = "db" /\ handler[g].left # <<>>

(* No handler waits for a connection because another one waits for the payment
   provider (service.go:238-247). *)
THEOREM NobodyWaitsForTheProvider == ApiSpec => []WaitersCanBeServed
<1>1. ASSUME PoolInv, ConnectionsInUse, process \in {"serving", "draining"},
             ~(Cardinality(Holding) < MaxConns)
      PROVE  \E g \in Handlers : handler[g].at = "db" /\ handler[g].left # <<>>
  <2>1. Holding # {}
    BY <1>1, ApiAssumption, FS_EmptySet
  <2>2. PICK g \in Handlers : handler[g].holds
    BY <2>1 DEF Holding
  <2>3. handler[g].at = "db"
    BY <1>1, <2>2 DEF ConnectionsInUse
  <2>. QED  BY <1>1, <2>3 DEF PoolInv, Busy
<1>2. PoolInv /\ ConnectionsInUse => WaitersCanBeServed
  BY <1>1 DEF WaitersCanBeServed
<1>3. ApiSpec => []PoolInv
  BY PoolInit, PoolStep, PTL DEF ApiSpec
<1>. QED  BY <1>2, <1>3, OnlyQueriesHold, PTL

(* Once main closes the pool no connection is taken any more, so that what
   pool.Close waits for only becomes less (main.go: the deferred pool.Close),
   which is what ShutdownEnds rests on besides the queries' end. *)
ClosingOnlyFrees == [][process = "closing" => Holding' \subseteq Holding]_apiVars

(* The connections that pool.Close waits for are never replaced by others. *)
THEOREM PoolDrains == ApiSpec => ClosingOnlyFrees
<1>. DEFINE Frees == process = "closing" => Holding' \subseteq Holding
<1>1. ASSUME PoolInv, ConnectionsInUse, ApiNext PROVE Frees
  <2>1. HandlersOK
    BY <1>1, PoolHandlers
  <2>2. ASSUME NEW h \in Handlers, OnlyHandler(h), handler'[h].holds => handler[h].holds
        PROVE  Frees
    BY <2>2 DEF OnlyHandler, Holding
  <2>3. ASSUME NEW h \in Handlers, Arrive(h) PROVE Frees
    BY <2>1, <2>2, <2>3, AnyFinish DEF Arrive
  <2>4. ASSUME NEW h \in Handlers, HandlerStep(h) PROVE Frees
    <3>1. CASE EndQuery(h) \/ ProviderAnswers(h)
      BY <2>1, <2>2, <3>1, AnyAdvance DEF EndQuery, ProviderAnswers
    <3>2. CASE AcquireRefused(h) \/ HandlerFails(h) \/ PingTimesOut(h)
      BY <2>1, <2>2, <3>2, AnyFinish DEF AcquireRefused, HandlerFails, PingTimesOut
    <3>3. CASE Acquire(h)
      BY <3>3 DEF Acquire
    <3>4. CASE Authenticate(h)
      <4>. DEFINE next(keys) == [handler[h] EXCEPT !.at = At(Work[h]), !.left = Work[h],
                                   !.user = SignedIn(Guard[h], Bearer[h], keys)]
      <4>1. PICK keys : Finish(h, "rejected") \/ Step(h, next(keys))
        BY <3>4 DEF Authenticate
      <4>2. next(keys).holds = handler[h].holds
        BY <2>1 DEF HandlersOK
      <4>. HIDE DEF next
      <4>. QED  BY <2>1, <2>2, <4>1, <4>2, AnyFinish, AnyStep
    <3>. HIDE DEF Frees
    <3>. QED  BY <2>4, <3>1, <3>2, <3>3, <3>4 DEF HandlerStep
  <2>5. ASSUME ListenFails PROVE Frees
    BY <2>5 DEF ListenFails
  <2>6. ASSUME PoolCloses PROVE Frees
    <3>1. \A h \in Handlers :
            handler'[h] = IF InFlight(h) THEN [handler[h] EXCEPT !.at = "cut"] ELSE handler[h]
      BY <2>6 DEF PoolCloses, CutAll
    <3>. QED  BY <2>1, <3>1 DEF Holding, HandlersOK
  <2>7. ASSUME handler' = handler PROVE Frees
    BY <2>7 DEF Holding
  <2>. HIDE DEF Frees
  <2>. QED
    BY <1>1, <2>3, <2>4, <2>5, <2>6, <2>7
       DEF ApiNext, IssuerStep, CacheStep, ProcessStep, Start, Signal, GraceElapses,
           ShutdownReturns
<1>2. PoolInv /\ ConnectionsInUse /\ [ApiNext]_apiVars => [Frees]_apiVars
  BY <1>1
<1>3. ApiSpec => []PoolInv
  BY PoolInit, PoolStep, PTL DEF ApiSpec
<1>. QED  BY <1>2, <1>3, OnlyQueriesHold, PTL DEF ApiSpec, ClosingOnlyFrees

----------------------------------------------------------------------------
(* Who gets to the work of a route *)

(* A handler past its middleware. *)
Admitted(h) == handler[h].at \in {"wait", "db", "provider", "answered"}

(* What a route does is done only for whom the route is for: for a signed-in
   user behind RequireUser, for an administrator behind RequireRole, and a
   route without middleware never sees a user.  That holds to the end of the
   request, also when the keys are refreshed or withdrawn meanwhile (jwt.go:
   RequireUser, RequireRole, OptionalUser). *)
WorkIsAuthorized ==
  \A h \in Handlers :
    /\ Admitted(h) /\ Guard[h] \in {"user", "admin"} => handler[h].user
    /\ Admitted(h) /\ Guard[h] = "admin" => Bearer[h].admin
    /\ handler[h].user => /\ Guard[h] # "public" /\ Bearer[h] # NoToken
                          /\ Bearer[h].key \in SigningKeys /\ Bearer[h].claims = "good"

(* A handler that was admitted before it moves, or has ended, and keeps its
   user. *)
LEMMA AuthorizedMoves ==
  ASSUME WorkIsAuthorized, NEW h \in Handlers, OnlyHandler(h),
         handler'[h].user = handler[h].user, Admitted(h)' => Admitted(h)
  PROVE  WorkIsAuthorized'
BY DEF WorkIsAuthorized, OnlyHandler, Admitted

LEMMA FinishKeepsUser ==
  ASSUME HandlersOK, NEW h \in Handlers, NEW how, Finish(h, how)
  PROVE  handler'[h].user = handler[h].user
<1>. DEFINE next == [handler[h] EXCEPT !.at = how, !.holds = FALSE]
<1>1. Step(h, next)
  BY DEF Finish
<1>2. next.user = handler[h].user
  BY DEF HandlersOK
<1>. HIDE DEF next
<1>. QED  BY <1>1, <1>2, AnyStep

LEMMA AuthenticateAuthorizes ==
  ASSUME PoolInv, WorkIsAuthorized, NEW h \in Handlers, Authenticate(h)
  PROVE  WorkIsAuthorized'
<1>1. HandlersOK
  BY PoolHandlers
<1>. DEFINE signed(keys) == SignedIn(Guard[h], Bearer[h], keys)
            next(keys) == [handler[h] EXCEPT !.at = At(Work[h]), !.left = Work[h],
                                             !.user = signed(keys)]
<1>2. PICK keys \in IF Guard[h] = "public" \/ Bearer[h] = NoToken THEN {jwks} ELSE KeySets :
        IF Forbids(Guard[h], Bearer[h], keys) THEN Finish(h, "rejected") ELSE Step(h, next(keys))
  BY DEF Authenticate
<1>3. keys \subseteq SigningKeys
  BY <1>2 DEF KeySets, PoolInv, ApiTypeOK
<1>4. CASE Forbids(Guard[h], Bearer[h], keys)
  <2>1. OnlyHandler(h) /\ handler'[h].at = "rejected" /\ handler'[h].user = handler[h].user
    BY <1>1, <1>2, <1>4, AnyFinish, FinishKeepsUser
  <2>. QED  BY <2>1, AuthorizedMoves DEF Admitted
<1>5. CASE ~Forbids(Guard[h], Bearer[h], keys)
  <2>1. next(keys).user = signed(keys)
    BY <1>1 DEF HandlersOK
  <2>. HIDE DEF next
  <2>2. OnlyHandler(h) /\ handler'[h].user = signed(keys)
    BY <1>1, <1>2, <1>5, <2>1, AnyStep
  <2>3. Guard[h] \in {"user", "admin"} => signed(keys)
    BY <1>5 DEF Forbids, SignedIn
  <2>4. Guard[h] = "admin" => Bearer[h].admin
    BY <1>5 DEF Forbids
  <2>5. signed(keys) => /\ Guard[h] # "public" /\ Bearer[h] # NoToken
                        /\ Bearer[h].key \in SigningKeys /\ Bearer[h].claims = "good"
    BY <1>3 DEF SignedIn, Verified
  <2>. HIDE DEF signed
  <2>. QED  BY <2>2, <2>3, <2>4, <2>5 DEF WorkIsAuthorized, OnlyHandler, Admitted
<1>. QED  BY <1>4, <1>5

LEMMA AuthorizedStep == PoolInv /\ WorkIsAuthorized /\ [ApiNext]_apiVars => WorkIsAuthorized'
<1>. SUFFICES ASSUME PoolInv, WorkIsAuthorized, [ApiNext]_apiVars PROVE WorkIsAuthorized'
  OBVIOUS
<1>1. HandlersOK
  BY PoolHandlers
<1>2. ASSUME NEW h \in Handlers, NEW how, Finish(h, how),
             how \in {"arrived", "refused", "closed", "failed"}
      PROVE  WorkIsAuthorized'
  BY <1>1, <1>2, AnyFinish, FinishKeepsUser, AuthorizedMoves DEF Admitted
<1>3. ASSUME NEW h \in Handlers, NEW holds, Advance(h, holds), Admitted(h) PROVE WorkIsAuthorized'
  <2>. DEFINE next == [handler[h] EXCEPT !.at = At(Tail(handler[h].left)),
                                         !.left = Tail(handler[h].left), !.holds = holds]
  <2>1. Step(h, next)
    BY <1>3 DEF Advance
  <2>2. next.user = handler[h].user
    BY <1>1 DEF HandlersOK
  <2>. HIDE DEF next
  <2>. QED  BY <1>1, <1>3, <2>1, <2>2, AnyStep, AuthorizedMoves
<1>4. ASSUME NEW h \in Handlers, Acquire(h) PROVE WorkIsAuthorized'
  <2>. DEFINE next == [handler[h] EXCEPT !.at = "db", !.holds = TRUE]
  <2>1. Step(h, next) /\ Admitted(h)
    BY <1>4 DEF Acquire, Admitted
  <2>2. next.user = handler[h].user
    BY <1>1 DEF HandlersOK
  <2>. HIDE DEF next
  <2>. QED  BY <1>1, <2>1, <2>2, AnyStep, AuthorizedMoves
<1>5. ASSUME NEW h \in Handlers, Arrive(h) \/ HandlerStep(h) PROVE WorkIsAuthorized'
  BY <1>2, <1>3, <1>4, <1>5, AuthenticateAuthorizes
     DEF Arrive, HandlerStep, AcquireRefused, EndQuery, ProviderAnswers, HandlerFails,
         PingTimesOut, Admitted
<1>6. ASSUME ListenFails \/ PoolCloses PROVE WorkIsAuthorized'
  <2>1. \A h \in Handlers :
          handler'[h] = IF InFlight(h) THEN [handler[h] EXCEPT !.at = "cut"] ELSE handler[h]
    BY <1>6 DEF ListenFails, PoolCloses, CutAll
  <2>2. \A h \in Handlers : handler'[h].user = handler[h].user /\ (Admitted(h)' => Admitted(h))
    BY <1>1, <2>1 DEF HandlersOK, Admitted
  <2>. QED  BY <2>2 DEF WorkIsAuthorized
<1>7. ASSUME handler' = handler PROVE WorkIsAuthorized'
  BY <1>7 DEF WorkIsAuthorized, Admitted
<1>. QED
  BY <1>5, <1>6, <1>7
     DEF ApiNext, IssuerStep, CacheStep, ProcessStep, Start, Signal, GraceElapses,
         ShutdownReturns, apiVars

(* No work is done for anybody a route is not for, whatever keys come and go. *)
THEOREM WorkNeedsItsUser == ApiSpec => []WorkIsAuthorized
<1>1. ApiInit => WorkIsAuthorized
  BY DEF ApiInit, WorkIsAuthorized, Admitted
<1>2. ApiSpec => []PoolInv
  BY PoolInit, PoolStep, PTL DEF ApiSpec
<1>. QED  BY <1>1, <1>2, AuthorizedStep, PTL DEF ApiSpec
=============================================================================
