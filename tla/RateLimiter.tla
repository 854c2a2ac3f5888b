---------------------------- MODULE RateLimiter ----------------------------
(***************************************************************************)
(* The per-client limiter of internal/ratelimit/limiter.go as the pipeline *)
(* uses it (Allow, then GetHeaders for a request let through), and the     *)
(* Cleanup that main.go runs every ten minutes.  clients is a sync.Map:    *)
(* each of its operations is atomic, two of them are not.  The limiter of  *)
(* golang.org/x/time/rate is modelled by its tokens: whole tokens, Rate of *)
(* them per tick of the clock, never more than Burst.                      *)
(***************************************************************************)
EXTENDS Integers

CONSTANTS Client,      \* rate keys
          Call,     \* requests in flight together
          Limiter,     \* *clientState objects; one that nothing refers to is reused
          Rate,        \* defaultRate, in tokens per tick
          Burst,       \* defaultBurst
          StaleAfter,  \* Cleanup's window, in ticks
          MaxTime,     \* bound: the clock stops here
          None         \* no limiter, no client

ASSUME RateAssumption ==
    /\ Rate \in Nat \ {0}
    /\ Burst \in Nat \ {0}
    /\ StaleAfter \in Nat
    /\ MaxTime \in Nat
    /\ None \notin Limiter \cup Client

VARIABLES clients,     \* l.clients: the limiter of each client, None if absent
          tokens,      \* tokens of each limiter
          lastAccess,  \* lastAccessUnix of each limiter
          at, client, held, \* each request: where it is, its key, its limiter
          cutoff,      \* cutoffNano of the Cleanup in progress, or NoCleanup
          todo,        \* clients its Range has not visited
          stale,       \* client its Range found stale and has yet to delete
          now,         \* the clock
          credit,      \* history: what one bucket per client would hold
          raced        \* history: clients with a request that had the
                       \* limiter which Cleanup had found stale

request == <<at, client, held>>
cleanup == <<cutoff, todo, stale>>
history == <<credit, raced>>
limiterVars == <<clients, tokens, lastAccess, request, cleanup, now, history>>

NoCleanup == -StaleAfter - 1
Refill(n) == IF n + Rate > Burst THEN Burst ELSE n + Rate

Unreferenced == {o \in Limiter : /\ \A c \in Client : clients[c] # o
                                 /\ \A r \in Call : held[r] # o}

LimiterInit ==
    /\ clients = [c \in Client |-> None]
    /\ tokens = [o \in Limiter |-> Burst]
    /\ lastAccess = [o \in Limiter |-> 0]
    /\ at = [r \in Call |-> "idle"]
    /\ client = [r \in Call |-> None]
    /\ held = [r \in Call |-> None]
    /\ cutoff = NoCleanup
    /\ todo = {}
    /\ stale = None
    /\ now = 0
    /\ credit = [c \in Client |-> Burst]
    /\ raced = {}

-----------------------------------------------------------------------------
(* getOrCreate, from Allow ("loading", "missed") and from GetHeaders       *)
(* ("headers", "headersMissed").                                           *)

Arrive(r, c) ==
    /\ at[r] = "idle"
    /\ at' = [at EXCEPT ![r] = "loading"]
    /\ client' = [client EXCEPT ![r] = c]
    /\ UNCHANGED <<clients, tokens, lastAccess, held, cleanup, now, history>>

\* r gets c's limiter o, one that Cleanup is about to delete perhaps.
Acquire(r, c, o) ==
    /\ held' = [held EXCEPT ![r] = o]
    /\ at' = [at EXCEPT ![r] = "taking"]
    /\ raced' = IF stale = c THEN raced \cup {c} ELSE raced

\* Load finds the limiter.  The access time is set a moment later, and the
\* token taken after that: see Take.
LoadHit(r) ==
    /\ at[r] = "loading"
    /\ clients[client[r]] # None
    /\ Acquire(r, client[r], clients[client[r]])
    /\ UNCHANGED <<clients, tokens, lastAccess, client, cleanup, now, credit>>

LoadMiss(r) ==
    /\ at[r] = "loading"
    /\ clients[client[r]] = None
    /\ at' = [at EXCEPT ![r] = "missed"]
    /\ UNCHANGED <<clients, tokens, lastAccess, client, held, cleanup, now, history>>

\* A fresh limiter for c: full, and just accessed.
Fresh(o, c) ==
    /\ o \in Unreferenced
    /\ clients' = [clients EXCEPT ![c] = o]
    /\ tokens' = [tokens EXCEPT ![o] = Burst]
    /\ lastAccess' = [lastAccess EXCEPT ![o] = now]

\* Wrong: Store instead of LoadOrStore.
StoreOver(r) ==
    /\ at[r] = "missed"
    /\ \E o \in Limiter : Fresh(o, client[r]) /\ Acquire(r, client[r], o)
    /\ UNCHANGED <<client, cleanup, now, credit>>

\* LoadOrStore: the limiter another request stored meanwhile, whose access
\* time is left alone, or a fresh one.
LoadOrStore(r) ==
    /\ at[r] = "missed"
    /\ LET c == client[r]
       IN  \/ /\ clients[c] # None
              /\ Acquire(r, c, clients[c])
              /\ UNCHANGED <<clients, tokens, lastAccess>>
           \/ /\ clients[c] = None
              /\ \E o \in Limiter : Fresh(o, c) /\ Acquire(r, c, o)
    /\ UNCHANGED <<client, cleanup, now, credit>>

\* The limiter lets the request through.  Its access time is now, whoever set
\* it: a step of Cleanup between that and this finds what it would find after.
Take(r) ==
    /\ at[r] = "taking"
    /\ tokens[held[r]] >= 1
    /\ lastAccess' = [lastAccess EXCEPT ![held[r]] = now]
    /\ tokens' = [tokens EXCEPT ![held[r]] = @ - 1]
    /\ credit' = [credit EXCEPT ![client[r]] = @ - 1]
    /\ held' = [held EXCEPT ![r] = None]
    /\ at' = [at EXCEPT ![r] = "headers"]
    /\ UNCHANGED <<clients, client, cleanup, now, raced>>

Deny(r) ==
    /\ at[r] = "taking"
    /\ tokens[held[r]] < 1
    /\ lastAccess' = [lastAccess EXCEPT ![held[r]] = now]
    /\ held' = [held EXCEPT ![r] = None]
    /\ client' = [client EXCEPT ![r] = None]
    /\ at' = [at EXCEPT ![r] = "idle"]
    /\ UNCHANGED <<clients, tokens, cleanup, now, history>>

Done(r) ==
    /\ at' = [at EXCEPT ![r] = "idle"]
    /\ client' = [client EXCEPT ![r] = None]

\* GetHeaders counts as an access.
HeadersHit(r) ==
    /\ at[r] = "headers"
    /\ clients[client[r]] # None
    /\ lastAccess' = [lastAccess EXCEPT ![clients[client[r]]] = now]
    /\ Done(r)
    /\ UNCHANGED <<clients, tokens, held, cleanup, now, history>>

HeadersMiss(r) ==
    /\ at[r] = "headers"
    /\ clients[client[r]] = None
    /\ at' = [at EXCEPT ![r] = "headersMissed"]
    /\ UNCHANGED <<clients, tokens, lastAccess, client, held, cleanup, now, history>>

HeadersLoadOrStore(r) ==
    /\ at[r] = "headersMissed"
    /\ \/ clients[client[r]] # None /\ UNCHANGED <<clients, tokens, lastAccess>>
       \/ clients[client[r]] = None /\ \E o \in Limiter : Fresh(o, client[r])
    /\ Done(r)
    /\ UNCHANGED <<held, cleanup, now, history>>

-----------------------------------------------------------------------------
(* Cleanup                                                                 *)

Present == {c \in Client : clients[c] # None}

StartCleanup ==
    /\ cutoff = NoCleanup
    /\ cutoff' = now - StaleAfter
    /\ todo' = Client
    /\ UNCHANGED <<clients, tokens, lastAccess, request, stale, now, history>>

InUse(o) == \E r \in Call : held[r] = o

Found(c, isStale) ==
    /\ todo' = todo \ {c}
    /\ stale' = IF isStale THEN c ELSE None
    /\ raced' = IF isStale /\ InUse(clients[c]) THEN raced \cup {c} ELSE raced
    /\ UNCHANGED <<clients, tokens, lastAccess, request, cutoff, now, credit>>

\* Range hands c's entry to the callback, which compares its access time.
Visit(c) ==
    /\ c \in todo
    /\ stale = None
    /\ Found(c, c \in Present /\ lastAccess[clients[c]] < cutoff)

\* The callback deletes the key, whatever happened to its entry since.
DeleteStale ==
    /\ stale # None
    /\ clients' = [clients EXCEPT ![stale] = None]
    /\ stale' = None
    /\ UNCHANGED <<tokens, lastAccess, request, cutoff, todo, now, history>>

EndCleanup ==
    /\ cutoff # NoCleanup
    /\ todo = {}
    /\ stale = None
    /\ cutoff' = NoCleanup
    /\ UNCHANGED <<clients, tokens, lastAccess, request, todo, stale, now, history>>

-----------------------------------------------------------------------------
\* A tick is minutes long, and no request waits for anything between the
\* map and the limiter: time passes while none is there.
Tick ==
    /\ now < MaxTime
    /\ \A r \in Call : at[r] \in {"idle", "loading"}
    /\ now' = now + 1
    /\ tokens' = [o \in Limiter |-> Refill(tokens[o])]
    /\ credit' = [c \in Client |-> Refill(credit[c])]
    /\ UNCHANGED <<clients, lastAccess, request, cleanup, raced>>

Handle(r) ==
    \/ \E c \in Client : Arrive(r, c)
    \/ LoadHit(r) \/ LoadMiss(r) \/ LoadOrStore(r)
    \/ Take(r) \/ Deny(r)
    \/ HeadersHit(r) \/ HeadersMiss(r) \/ HeadersLoadOrStore(r)

Cleanup ==
    \/ StartCleanup
    \/ \E c \in Client : Visit(c)
    \/ DeleteStale
    \/ EndCleanup

LimiterNext == (\E r \in Call : Handle(r)) \/ Cleanup \/ Tick

LimiterSpec == LimiterInit /\ [][LimiterNext]_limiterVars

-----------------------------------------------------------------------------
\* Types: a bucket holds between none and Burst tokens, and Cleanup deletes
\* nothing it has not found stale in a pass.
LimiterTypeOK ==
    /\ clients \in [Client -> Limiter \cup {None}]
    /\ tokens \in [Limiter -> 0..Burst]
    /\ lastAccess \in [Limiter -> 0..now]
    /\ at \in [Call -> {"idle", "loading", "missed", "taking", "headers", "headersMissed"}]
    /\ client \in [Call -> Client \cup {None}]
    /\ held \in [Call -> Limiter \cup {None}]
    /\ \A r \in Call : (at[r] = "taking") = (held[r] # None)
    /\ cutoff \in -StaleAfter..MaxTime \cup {NoCleanup}
    /\ todo \subseteq Client
    /\ stale \in Client \cup {None}
    /\ stale # None => cutoff # NoCleanup /\ clients[stale] # None
    /\ now \in 0..MaxTime
    /\ \A c \in Client : credit[c] <= Burst
    /\ raced \subseteq Client

RefillsBeforeStale == (StaleAfter + 1) * Rate >= Burst

\* Allow: as long as no request had hold of a limiter that Cleanup had found
\* stale, each client is limited as by one bucket that lives forever:
\* concurrent first requests share a limiter, and one that is thrown away
\* was full.
OneBucketUnlessRaced ==
    /\ LimiterTypeOK
    /\ RefillsBeforeStale =>
          \A c \in Client \ raced :
              credit[c] = IF clients[c] = None THEN Burst ELSE tokens[clients[c]]
=============================================================================
