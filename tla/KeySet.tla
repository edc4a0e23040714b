------------------------------- MODULE KeySet -------------------------------
(***************************************************************************)
(* The issuer's keys as one container of the service knows them            *)
(* (cipherweave_verify.jwks.JWKSCache, Verifier).                          *)
(*                                                                         *)
(* A cache is asked for one key at a time, under its lock.  It fetches the *)
(* set when it has none, or an old one, or one without the key, and serves *)
(* the previous set while fetches fail.  Time passes during a fetch, and   *)
(* the issuer goes on to list new keys and to withdraw old ones; a set is  *)
(* as old as the request that fetched it.                                  *)
(***************************************************************************)
EXTENDS Integers

CONSTANTS
    Kids,           \* names of keys other than those given at deploy time
    Ttl,            \* ttl_seconds
    MinRefresh,     \* min_refresh_interval
    StaleIfError,   \* stale_if_error_seconds
    Lifespan        \* bound: how long the container lives

ASSUME KeyTimesAssumption ==
    /\ MinRefresh \in Nat \ {0} /\ Ttl \in Nat /\ StaleIfError \in Nat /\ Lifespan \in Nat
    /\ MinRefresh <= Ttl

Never == -1
Time == 0..Lifespan
Past == Time \cup {Never}

VARIABLES
    clock,
    published,      \* the keys that the issuer lists
    keys,           \* _keys
    fetchedAt,      \* _fetched_at
    lastAttempt,    \* _last_attempt
    fetches,        \* fetch_count
    request,        \* the token being verified, as far as its key is concerned
    outcome,        \* history: what the last request found
    listedAt,       \* history: when each key was listed last
    served          \* history: the set that was fetched last

keyVars ==
    <<clock, published, keys, fetchedAt, lastAttempt, fetches, request, outcome, listedAt,
      served>>

NoRequest == [at |-> "idle"]
Request ==
    {NoRequest}
    \cup [at : {"expired", "look", "missing", "last"}, kid : Kids, asked : Time]

KeyTypeOK ==
    /\ clock \in Time
    /\ published \subseteq Kids /\ keys \subseteq Kids /\ served \subseteq Kids
    /\ fetchedAt \in Past /\ lastAttempt \in Past
    /\ fetches \in Nat
    /\ request \in Request
    /\ outcome \in {"none", "key", "unknown", "unavailable"}
    /\ listedAt \in [Kids -> Past]

\* A new container.
KeyInit ==
    /\ clock = 0
    /\ published \in SUBSET Kids
    /\ keys = {} /\ fetchedAt = Never /\ lastAttempt = Never /\ fetches = 0
    /\ request = NoRequest /\ outcome = "none" /\ served = {}
    /\ listedAt = [k \in Kids |-> IF k \in published THEN 0 ELSE Never]

Listed(set, t) == [k \in Kids |-> IF k \in set THEN t ELSE listedAt[k]]

\* The issuer starts to sign with a key, or withdraws one.
Rotate ==
    /\ published' \in SUBSET Kids
    /\ listedAt' = Listed(published', clock)
    /\ UNCHANGED <<clock, keys, fetchedAt, lastAttempt, fetches, request, outcome, served>>

ClockTick ==
    /\ clock < Lifespan
    /\ clock' = clock + 1
    /\ listedAt' = Listed(published, clock')
    /\ UNCHANGED <<published, keys, fetchedAt, lastAttempt, fetches, request, outcome, served>>

-----------------------------------------------------------------------------
Expired(t) == fetchedAt = Never \/ t - fetchedAt >= Ttl

\* Variant for the checks: the interval counts from the last fetch that succeeded.
MayAttempt_SinceFetched(t) == fetchedAt = Never \/ t - fetchedAt >= MinRefresh

\* _may_attempt
MayAttempt(t) == lastAttempt = Never \/ t - lastAttempt >= MinRefresh

\* Variant: a set once fetched serves while fetches fail.
Usable_Always(t) == fetchedAt # Never

\* Variant: an expired set serves nobody.
Usable_Unexpired(t) == fetchedAt # Never /\ t - fetchedAt < Ttl

\* _require_usable
Usable(t) == fetchedAt # Never /\ t - fetchedAt < Ttl + StaleIfError

Goes(at) == request' = [request EXCEPT !.at = at]

\* _refresh, up to the fetch.
Attempts(t) == lastAttempt' = t /\ fetches' = fetches + 1

\* get, up to the first look at the set.  The cache is asked for no key that was given at
\* deploy time.
Get(kid) ==
    /\ request = NoRequest
    /\ \/ /\ Expired(clock) /\ MayAttempt(clock) /\ Attempts(clock)
          /\ request' = [at |-> "expired", kid |-> kid, asked |-> clock]
       \/ /\ ~(Expired(clock) /\ MayAttempt(clock)) /\ UNCHANGED <<lastAttempt, fetches>>
          /\ request' = [at |-> "look", kid |-> kid, asked |-> clock]
    /\ outcome' = "none"
    /\ UNCHANGED <<clock, published, keys, fetchedAt, listedAt, served>>

Fetching == request.at \in {"expired", "missing"}

AfterFetch == Goes(IF request.at = "expired" THEN "look" ELSE "last")

\* The set as the issuer lists it now, dated back to when the request came.
Fetched ==
    /\ Fetching /\ AfterFetch
    /\ keys' = published /\ served' = published
    /\ fetchedAt' = request.asked
    /\ UNCHANGED <<clock, published, lastAttempt, fetches, outcome, listedAt>>

\* No answer, or one that is no key set: the previous set stays.
FetchFails ==
    /\ Fetching /\ AfterFetch
    /\ UNCHANGED <<clock, published, keys, fetchedAt, lastAttempt, fetches, outcome, listedAt,
                   served>>

Answers(found) == request' = NoRequest /\ outcome' = found

\* There is no set, or it is too old even for the time of an outage.
Unavailable ==
    /\ request.at \in {"look", "last"} /\ ~Usable(request.asked)
    /\ keys' = {}
    /\ Answers("unavailable")
    /\ UNCHANGED <<clock, published, fetchedAt, lastAttempt, fetches, listedAt, served>>

Finds ==
    /\ request.at \in {"look", "last"} /\ Usable(request.asked)
    /\ request.kid \in keys
    /\ Answers("key")
    /\ UNCHANGED <<clock, published, keys, fetchedAt, lastAttempt, fetches, listedAt, served>>

\* An unknown key may be a new one: the set is fetched once more, if that is allowed.
Misses ==
    /\ request.at = "look" /\ Usable(request.asked)
    /\ request.kid \notin keys /\ MayAttempt(request.asked)
    /\ Attempts(request.asked) /\ Goes("missing")
    /\ UNCHANGED <<clock, published, keys, fetchedAt, outcome, listedAt, served>>

DoesNotKnow ==
    /\ \/ request.at = "look" /\ ~MayAttempt(request.asked)
       \/ request.at = "last"
    /\ Usable(request.asked)
    /\ request.kid \notin keys
    /\ Answers("unknown")
    /\ UNCHANGED <<clock, published, keys, fetchedAt, lastAttempt, fetches, listedAt, served>>

KeyNext ==
    \/ Rotate \/ ClockTick
    \/ \E kid \in Kids : Get(kid)
    \/ Fetched \/ FetchFails \/ Unavailable \/ Finds \/ Misses \/ DoesNotKnow

KeySpec == KeyInit /\ [][KeyNext]_keyVars

-----------------------------------------------------------------------------
(* Properties *)

\* The key of the request is found, or is not.
Found == request # NoRequest /\ outcome = "none" /\ outcome' = "key"
NotFound == request # NoRequest /\ outcome = "none" /\ outcome' \in {"unknown", "unavailable"}

\* A key that the issuer has withdrawn is found no longer than the lifetime of a set and
\* of an outage after that, and while fetches succeed no longer than the lifetime,
\* however long a fetch takes.  (JWKSCache.get, _require_usable)
WithdrawnKeysGo ==
    [][Found =>
          /\ listedAt[request.kid] > request.asked - Ttl - StaleIfError
          /\ lastAttempt = fetchedAt => listedAt[request.kid] > request.asked - Ttl]_keyVars

\* "A rotated key is picked up on the first request that uses it" and "the previous set
\* keeps serving": a key is refused only right after a fetch or an attempt, and only if
\* the set that was fetched last had no such key or is too old for any outage.
\* (JWKSCache.get)
RefusedForCause ==
    [][NotFound =>
          /\ lastAttempt # Never /\ request.asked - lastAttempt < MinRefresh
          /\ request.kid \in served => request.asked - fetchedAt >= Ttl + StaleIfError]_keyVars

\* "Without the limit, anyone could ... turn every request into a JWKS fetch": in any
\* time there are no more fetches than that many intervals allow, whatever is asked for
\* and whether or not fetches succeed.  (JWKSCache._may_attempt)
FetchesLimited == (fetches - 1) * MinRefresh <= clock
=============================================================================
