----------------------------- MODULE TokenCache -----------------------------
(***************************************************************************)
(* The lruCache of internal/auth/oauth.go: a map from tokens to the        *)
(* elements of a doubly linked list kept in order of use, both guarded by  *)
(* one mutex, so that each method is one step.  runCleanup reads the clock *)
(* before cleanup takes the mutex: those are two steps.                    *)
(***************************************************************************)
EXTENDS CacheOps, Sequences, SequencesExt

CONSTANTS Identity,    \* the identities cached
          NoIdentity,  \* the nil of a miss
          TTL,         \* five minutes, in ticks of the clock
          MaxClock,    \* bound: the clock stops here
          MaxUses      \* bound: entries are put or hit this often

ASSUME TimesAssumption == TTL \in Nat /\ MaxClock \in Nat /\ MaxUses \in Nat

VARIABLES list,        \* c.list: the nodes, most recently used first
          items,       \* the keys of c.items; the element of a key is its node
          answer,      \* what the last call of get returned
          clock,       \* the clock
          sweep,       \* the time runCleanup has read, until cleanup is done
          uses,        \* history: puts and hits so far
          usedAt,      \* history: the number of each key's last put or hit
          lastPut      \* history: the identity last put under each key

history == <<uses, usedAt, lastPut>>
cacheVars == <<list, items, answer, clock, sweep, history>>

NoSweep == -1

Node == [key : Token, identity : Identity, expiresAt : 0..(MaxClock + TTL)]

Keys(nodes) == {nodes[i].key : i \in DOMAIN nodes}

NodeOf(k) == CHOOSE n \in ToSet(list) : n.key = k

\* The nodes that are in T, in their order.
Filter(nodes, T) ==
    LET kept[i \in 0..Len(nodes)] ==
            IF i = 0 THEN <<>>
            ELSE IF nodes[i] \in T THEN Append(kept[i - 1], nodes[i])
            ELSE kept[i - 1]
    IN  kept[Len(nodes)]

Without(k) == Filter(list, {n \in ToSet(list) : n.key # k})

RecordUse(k) ==
    /\ uses < MaxUses
    /\ uses' = uses + 1
    /\ usedAt' = [usedAt EXCEPT ![k] = uses']

CacheInit ==
    /\ list = <<>>
    /\ items = {}
    /\ answer = NoIdentity
    /\ clock = 0
    /\ sweep = NoSweep
    /\ uses = 0
    /\ usedAt = [k \in Token |-> 0]
    /\ lastPut = [k \in Token |-> NoIdentity]

-----------------------------------------------------------------------------
(* put, when the key is present and when it is not.                        *)

RecordPut(k, v) == RecordUse(k) /\ lastPut' = [lastPut EXCEPT ![k] = v]

NewNode(k, v) == [key |-> k, identity |-> v, expiresAt |-> clock + TTL]

Update(k, v) ==
    /\ k \in items
    /\ list' = <<NewNode(k, v)>> \o Without(k)
    /\ RecordPut(k, v)
    /\ UNCHANGED <<items, answer, clock, sweep>>

\* Wrong: the evicted element stays in the map.
InsertLeavingKey(k, v) ==
    /\ k \notin items
    /\ list' = <<NewNode(k, v)>> \o IF Len(list) >= MaxSize THEN Front(list) ELSE list
    /\ items' = items \cup {k}
    /\ RecordPut(k, v)
    /\ UNCHANGED <<answer, clock, sweep>>

\* Wrong: the front of the list is evicted.
InsertEvictingFront(k, v) ==
    /\ k \notin items
    /\ IF Len(list) >= MaxSize
       THEN /\ list' = <<NewNode(k, v)>> \o Tail(list)
            /\ items' = (items \ {Head(list).key}) \cup {k}
       ELSE /\ list' = <<NewNode(k, v)>> \o list
            /\ items' = items \cup {k}
    /\ RecordPut(k, v)
    /\ UNCHANGED <<answer, clock, sweep>>

Insert(k, v) ==
    /\ k \notin items
    /\ IF Len(list) >= MaxSize
       THEN /\ list' = <<NewNode(k, v)>> \o Front(list)
            /\ items' = (items \ {Last(list).key}) \cup {k}
       ELSE /\ list' = <<NewNode(k, v)>> \o list
            /\ items' = items \cup {k}
    /\ RecordPut(k, v)
    /\ UNCHANGED <<answer, clock, sweep>>

-----------------------------------------------------------------------------
(* get, by its three returns.                                              *)

GetAbsent(k) ==
    /\ k \notin items
    /\ answer' = NoIdentity
    /\ UNCHANGED <<list, items, clock, sweep, history>>

GetExpiredEntry(k) ==
    /\ k \in items
    /\ clock > NodeOf(k).expiresAt
    /\ items' = items \ {k}
    /\ list' = Without(k)
    /\ answer' = NoIdentity
    /\ UNCHANGED <<clock, sweep, history>>

\* Wrong: a hit does not look at the expiry.
GetHitStale(k) ==
    /\ k \in items
    /\ list' = <<NodeOf(k)>> \o Without(k)
    /\ answer' = NodeOf(k).identity
    /\ RecordUse(k)
    /\ UNCHANGED <<items, clock, sweep, lastPut>>

GetHit(k) ==
    /\ k \in items
    /\ clock <= NodeOf(k).expiresAt
    /\ list' = <<NodeOf(k)>> \o Without(k)
    /\ answer' = NodeOf(k).identity
    /\ RecordUse(k)
    /\ UNCHANGED <<items, clock, sweep, lastPut>>

-----------------------------------------------------------------------------
(* delete and cleanup.                                                     *)

DeleteEntry(k) ==
    /\ k \in items
    /\ items' = items \ {k}
    /\ list' = Without(k)
    /\ UNCHANGED <<answer, clock, sweep, history>>

StartSweep ==
    /\ sweep = NoSweep
    /\ sweep' = clock
    /\ UNCHANGED <<list, items, answer, clock, history>>

Sweep ==
    /\ sweep # NoSweep
    /\ list' = Filter(list, {n \in ToSet(list) : sweep <= n.expiresAt})
    /\ items' = items \ {n.key : n \in {m \in ToSet(list) : sweep > m.expiresAt}}
    /\ sweep' = NoSweep
    /\ UNCHANGED <<answer, clock, history>>

CacheTick ==
    /\ clock < MaxClock
    /\ clock' = clock + 1
    /\ UNCHANGED <<list, items, answer, sweep, history>>

CacheNext ==
    \/ \E k \in Token :
          \/ \E v \in Identity : Update(k, v) \/ Insert(k, v)
          \/ GetAbsent(k)
          \/ GetExpiredEntry(k)
          \/ GetHit(k)
          \/ DeleteEntry(k)
    \/ StartSweep
    \/ Sweep
    \/ CacheTick

CacheSpec == CacheInit /\ [][CacheNext]_cacheVars

-----------------------------------------------------------------------------
(* Type invariant: the list holds nodes, the map holds keys, and the times *)
(* are times of the clock.                                                 *)
CacheTypeOK ==
    /\ list \in Seq(Node)
    /\ items \subseteq Token
    /\ answer \in Identity \cup {NoIdentity}
    /\ clock \in 0..MaxClock
    /\ sweep \in {NoSweep} \cup 0..MaxClock
    /\ uses \in 0..MaxUses
    /\ usedAt \in [Token -> 0..MaxUses]
    /\ lastPut \in [Token -> Identity \cup {NoIdentity}]

(* The map and the list never drift apart: they hold the same keys, each   *)
(* once, and never more than MaxSize.  Every method changes both; an       *)
(* element left in one of them would be served after delete or never be    *)
(* evicted.                                                                *)
MapAndListAgree ==
    /\ Keys(list) = items
    /\ \A i, j \in DOMAIN list : i # j => list[i].key # list[j].key
    /\ Len(list) <= MaxSize

(* The list is in order of use whatever mix of put, get, delete and        *)
(* cleanup produced it: this is what makes Back() the right entry to       *)
(* evict.                                                                  *)
ListIsInOrderOfUse ==
    \A i, j \in DOMAIN list :
        i < j => usedAt[list[i].key] > usedAt[list[j].key]

(* An entry in the cache is the one last put under its key: renewing the   *)
(* entry of a token replaces the identity cached before.                   *)
EntriesAreCurrent ==
    \A i \in DOMAIN list : list[i].identity = lastPut[list[i].key]

(* Together: what get, put, delete and cleanup of one another rely on.     *)
CacheIsConsistent == CacheTypeOK /\ MapAndListAgree /\ ListIsInOrderOfUse /\ EntriesAreCurrent

(* An unexpired entry leaves the cache only because it was deleted or      *)
(* because a new key arrived when it was the least recently used of a full *)
(* cache.                                                                  *)
OnlyTheOldestIsEvicted ==
    [][\A k \in items \ items' :
          \/ \E n \in ToSet(list) : n.key = k /\ n.expiresAt < clock
          \/ DeleteEntry(k)
          \/ /\ Len(list) = MaxSize
             /\ \A other \in items \ {k} : usedAt[k] < usedAt[other]]_cacheVars

(* The cache implements the abstract one: the map it stands for is the     *)
(* content of its list, and get answers as the abstract get does.          *)
Abstract ==
    INSTANCE BoundedCache WITH
        cache <- [k \in Keys(list) |->
                     [identity |-> NodeOf(k).identity,
                      expiresAt |-> NodeOf(k).expiresAt]],
        now <- clock

ImplementsBoundedCache == Abstract!Spec
=============================================================================
