---------------------------- MODULE BoundedCache ----------------------------
(***************************************************************************)
(* The abstract specification of the token cache: a map of at most MaxSize *)
(* entries.  get answers with the identity last put under the key unless   *)
(* that entry has expired, been deleted or been evicted; putting a new key *)
(* into a full map evicts exactly one entry.                               *)
(***************************************************************************)
EXTENDS CacheOps

CONSTANTS Identity,    \* the identities cached
          NoIdentity,  \* get's answer on a miss
          TTL          \* five minutes, in ticks of the clock

VARIABLES cache,       \* the entries held
          answer,      \* what the last call of get returned
          now,         \* the clock
          sweep        \* the time read by a cleanup pass that is running

vars == <<cache, answer, now, sweep>>

NoSweep == -1

Init ==
    /\ cache = EmptyCache
    /\ answer = NoIdentity
    /\ now = 0
    /\ sweep = NoSweep

Put(k, v) ==
    /\ cache' \in PutResults(cache, k, [identity |-> v, expiresAt |-> now + TTL])
    /\ UNCHANGED <<answer, now, sweep>>

GetHit(k) ==
    /\ Live(cache, k, now)
    /\ answer' = cache[k].identity
    /\ UNCHANGED <<cache, now, sweep>>

\* A miss drops the entry when there is one: it has expired.
GetMiss(k) ==
    /\ ~Live(cache, k, now)
    /\ answer' = NoIdentity
    /\ cache' = Drop(cache, {k})
    /\ UNCHANGED <<now, sweep>>

Delete(k) ==
    /\ cache' = Drop(cache, {k})
    /\ UNCHANGED <<answer, now, sweep>>

StartSweep ==
    /\ sweep = NoSweep
    /\ sweep' = now
    /\ UNCHANGED <<cache, answer, now>>

Sweep ==
    /\ sweep # NoSweep
    /\ cache' = Drop(cache, ExpiredKeys(cache, sweep))
    /\ sweep' = NoSweep
    /\ UNCHANGED <<answer, now>>

Tick ==
    /\ now' = now + 1
    /\ UNCHANGED <<cache, answer, sweep>>

Next ==
    \/ \E k \in Token :
          \/ \E v \in Identity : Put(k, v)
          \/ GetHit(k)
          \/ GetMiss(k)
          \/ Delete(k)
    \/ StartSweep
    \/ Sweep
    \/ Tick

Spec == Init /\ [][Next]_vars
=============================================================================
