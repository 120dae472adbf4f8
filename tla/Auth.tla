-------------------------------- MODULE Auth --------------------------------
(***************************************************************************)
(* The resource server side of OIDC (internal/auth): tokens are verified   *)
(* with a cached copy of the issuer's key set.  The copy is fetched by the *)
(* first request that needs it and refreshed in the background; the issuer *)
(* rotates its keys whenever it likes.  Issuer and cache library are       *)
(* external.                                                               *)
(***************************************************************************)
EXTENDS Naturals

CONSTANTS
  SigningKeys,   \* keys the issuer may sign with
  MaxRotations,  \* bound on the changes of the issuer's key set
  NoToken        \* no bearer token, or a malformed header

ASSUME AuthAssumption == SigningKeys # {} /\ MaxRotations \in Nat

VARIABLES
  published,  \* the issuer's key set
  rotations,
  jwks        \* the cached key set, {} before it was fetched

authVars == <<published, rotations, jwks>>

Guards == {"public", "session", "user", "admin"}

(* What jwt.Parse looks at: the signing key, the claims iss, aud and exp
   together, and the realm role. *)
Token == [key : SigningKeys, claims : {"good", "bad"}, admin : BOOLEAN]

AuthInit ==
  /\ published \in {{key} : key \in SigningKeys}
  /\ rotations = 0
  /\ jwks = {}

(* External: keys come and go. *)
RotateKeys ==
  /\ rotations < MaxRotations
  /\ \E keys \in (SUBSET SigningKeys) \ {{}, published} : published' = keys
  /\ rotations' = rotations + 1
  /\ UNCHANGED jwks

(* The background refresh.  One that fails keeps the old set. *)
RefreshKeys ==
  /\ jwks \notin {{}, published}
  /\ jwks' = published
  /\ UNCHANGED <<published, rotations>>

(* cache.Get: the sets a request may be given; a first fetch that fails gives
   none, and the next request fetches again. *)
KeySets == IF jwks = {} THEN {{}, published} ELSE {jwks}

Verified(token, keys) == token # NoToken /\ token.key \in keys /\ token.claims = "good"

(* RequireUser, RequireRole: the answers 401 and 403.  OptionalUser lets
   everybody pass. *)
Forbids(guard, token, keys) ==
  \/ guard \in {"user", "admin"} /\ ~Verified(token, keys)
  \/ guard = "admin" /\ ~token.admin

(* PrincipalFromContext finds somebody. *)
SignedIn(guard, token, keys) == guard # "public" /\ Verified(token, keys)
=============================================================================
