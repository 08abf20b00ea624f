------------------------------ MODULE SigningKeys ------------------------------
(* Authentication at the door of the GraphQL service: every request and every      *)
(* subscription brings a token signed by a key of the realm; the keys are cached   *)
(* and fetched again, one fetch at a time, when a token names one that is unknown  *)
(* (JwksCache, identity_from_token, graphql_context).                              *)
EXTENDS Naturals

CONSTANTS
  Callers, Kids,             \* requests and subscriptions; ids of keys
  MaxRotations, MaxOutages   \* bounds

VARIABLES
  realm,      \* the keys the realm publishes
  _keys,      \* the keys in memory
  asks,       \* request -> [kid, at]
  rotations, outages

signingVars == <<realm, _keys, asks, rotations, outages>>

ASSUME SigningBounds == {MaxRotations, MaxOutages} \subseteq Nat

Stages == {"new", "checks", "waits", "fetches", "served", "refused"}

\* One request at a time has the lock.
SigningTypeOK ==
  /\ realm \subseteq Kids /\ _keys \subseteq Kids
  /\ asks \in [Callers -> [kid : Kids, at : Stages]]
  /\ \A q, r \in Callers : asks[q].at = "fetches" /\ asks[r].at = "fetches" => q = r
  /\ rotations \in 0..MaxRotations /\ outages \in 0..MaxOutages

SigningInit ==
  /\ realm \in SUBSET Kids /\ _keys = {}
  /\ asks \in [Callers -> [kid : Kids, at : {"new"}]]
  /\ rotations = 0 /\ outages = 0

Move(r, stage) == asks' = [asks EXCEPT ![r].at = stage]

\* signing_key: a key in memory serves at once, else the request queues for the lock.
Ask(r) ==
  /\ asks[r].at = "new"
  /\ Move(r, IF asks[r].kid \in _keys THEN "served" ELSE "waits")
  /\ UNCHANGED <<realm, _keys, rotations, outages>>

FaultGranted(r) == "fetches"

\* With the lock: another request may have brought the key meanwhile.
Granted(r) == IF asks[r].kid \in _keys THEN "served" ELSE "fetches"

Enter(r) ==
  /\ asks[r].at = "waits" /\ \A q \in Callers : asks[q].at # "fetches"
  /\ Move(r, Granted(r))
  /\ UNCHANGED <<realm, _keys, rotations, outages>>

Verdict(r, keys) == IF asks[r].kid \in keys THEN "served" ELSE "refused"

\* _refresh: the document replaces the keys, unless no key in it is usable.
Refreshed(document) == IF document = {} THEN _keys ELSE document

Fetch(r) ==
  /\ asks[r].at = "fetches"
  /\ \E usable \in SUBSET realm :
       /\ usable = realm \/ outages < MaxOutages
       /\ outages' = IF usable = realm THEN outages ELSE outages + 1
       /\ _keys' = Refreshed(usable)
       /\ Move(r, Verdict(r, Refreshed(usable)))
  /\ UNCHANGED <<realm, rotations>>

\* The realm does not answer: what is cached stays.
FetchFails(r) ==
  /\ asks[r].at = "fetches" /\ outages < MaxOutages /\ outages' = outages + 1
  /\ Move(r, Verdict(r, _keys))
  /\ UNCHANGED <<realm, _keys, rotations>>

Rotate ==
  /\ rotations < MaxRotations /\ rotations' = rotations + 1
  /\ realm' \in SUBSET Kids \ {realm}
  /\ UNCHANGED <<_keys, asks, outages>>

SigningNext ==
  \/ \E r \in Callers : Ask(r) \/ Enter(r) \/ Fetch(r) \/ FetchFails(r)
  \/ Rotate

SigningSpec == SigningInit /\ [][SigningNext]_signingVars

\* "a hundred requests arriving after a rotation must not become a hundred requests to
\* Keycloak": nobody fetches for a key that is in memory (JwksCache.signing_key).
OneFetchPerKey == \A r \in Callers : asks[r].at = "fetches" => asks[r].kid \notin _keys

=============================================================================
