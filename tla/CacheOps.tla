------------------------------ MODULE CacheOps ------------------------------
(***************************************************************************)
(* What the token cache of internal/auth/oauth.go does to the set of       *)
(* entries it holds, leaving out which entry is evicted.  A cache is a     *)
(* function from the tokens held to entries; the operators take it as a    *)
(* parameter so that the abstract specification of the cache               *)
(* (BoundedCache) and the authenticator that uses it (Authenticator) share *)
(* them.                                                                   *)
(***************************************************************************)
EXTENDS Integers, FiniteSets

CONSTANTS Token,       \* Bearer tokens, the keys
          MaxSize      \* auth.max_token_cache_size, 1000 when unset

\* NewAuthenticator replaces a size that is not positive by 1000.
ASSUME SizeAssumption == MaxSize \in Nat \ {0}

EmptyCache == [k \in {} |-> k]

\* get: an entry is usable up to and including the instant it expires.
Live(cache, k, now) == k \in DOMAIN cache /\ now <= cache[k].expiresAt

Drop(cache, K) == [k \in DOMAIN cache \ K |-> cache[k]]

ExpiredKeys(cache, now) == {k \in DOMAIN cache : now > cache[k].expiresAt}

\* The sets of keys that may stay when key k is put: all of them when k is
\* already there or there is room, all but one evicted key otherwise.
KeptKeys(cache, k) ==
    IF k \in DOMAIN cache \/ Cardinality(DOMAIN cache) < MaxSize
    THEN {DOMAIN cache}
    ELSE {DOMAIN cache \ {victim} : victim \in DOMAIN cache}

\* The caches that put(k, e) may leave.
PutResults(cache, k, e) ==
    {[x \in kept \cup {k} |-> IF x = k THEN e ELSE cache[x]] :
        kept \in KeptKeys(cache, k)}
=============================================================================
