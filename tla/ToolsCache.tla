----------------------------- MODULE ToolsCache -----------------------------
(***************************************************************************)
(* The tools cache of internal/proxy/server_router.go: RefreshToolsCache   *)
(* fetches the tools/list of every server in parallel, GetAggregatedTools  *)
(* starts a fetch for each entry that it finds expired, and whoever gets   *)
(* an answer stores it, in no order.                                       *)
(*                                                                         *)
(* Time is what is left of an entry's life and of a fetch's timeout.       *)
(* GetAggregatedTools ranges over the map without its lock, which the      *)
(* runtime may end the process for; nothing is modelled after that.        *)
(***************************************************************************)
EXTENDS Upstreams

CONSTANTS Fetch,       \* bound: fetches at the same time
          CacheTTL,    \* defaultToolsCacheTTL, in ticks
          FetchTime    \* the timeout of a fetch, in ticks

ASSUME TimesAssumption == CacheTTL \in Nat /\ FetchTime \in Nat

\* "none" is the server of no fetch.
ASSUME NoneAssumption == "none" \notin Server

VARIABLES cache,       \* toolsCache: the list's version, and how much longer
                       \* it is fresh; -1 when expired
          fetch,       \* the fetches: of which server, the version answered
                       \* (0: not yet), how long it may still take
          age,         \* history: how long ago the fetch of what is cached began
          overtaken    \* history: the fetches during which another one
                       \* stored a list of the same server

cacheVars == <<cache, fetch, age, overtaken>>

NoEntry == [version |-> 0, left |-> -1]

NoFetch == [server |-> "none", got |-> 0, left |-> 0]

Cached == {s \in Server : cache[s].version # 0}

Fresh(s) == cache[s].version # 0 /\ cache[s].left >= 0

CacheInit ==
    /\ cache = [s \in Server |-> NoEntry]
    /\ fetch = [f \in Fetch |-> NoFetch]
    /\ age = [s \in Server |-> 0]
    /\ overtaken = {}

StartFetch(f, s) ==
    /\ fetch[f] = NoFetch
    /\ fetch' = [fetch EXCEPT ![f] = [NoFetch EXCEPT !.server = s, !.left = FetchTime]]
    /\ UNCHANGED <<cache, age, overtaken>>

\* RefreshToolsCache: one such goroutine for each server.
RefreshToolsCache(f, s) == StartFetch(f, s)

\* Wrong: only entries that are there and fresh are refreshed.
LazyRefreshOfFresh(f, s) == Fresh(s) /\ StartFetch(f, s)

\* GetAggregatedTools: one such goroutine for each entry that is expired.
LazyRefresh(f, s) == s \in Cached /\ ~Fresh(s) /\ StartFetch(f, s)

\* Wrong: the goroutines share the loop's variable, and ask any server.
FetchAnsweredByAny(f) ==
    /\ fetch[f] # NoFetch
    /\ fetch[f].got = 0
    /\ \E s \in Server : fetch' = [fetch EXCEPT ![f].got = offer[s]]
    /\ UNCHANGED <<cache, age, overtaken>>

\* The list the server offers at some time while it is asked.
FetchAnswered(f) ==
    /\ fetch[f] # NoFetch
    /\ fetch[f].got = 0
    /\ fetch' = [fetch EXCEPT ![f].got = offer[fetch[f].server]]
    /\ UNCHANGED <<cache, age, overtaken>>

\* Wrong: what was cached goes on for another life.
FetchFailsProlonging(f) ==
    /\ fetch[f] # NoFetch
    /\ fetch[f].got = 0
    /\ cache' = [cache EXCEPT ![fetch[f].server].left = CacheTTL]
    /\ fetch' = [fetch EXCEPT ![f] = NoFetch]
    /\ overtaken' = overtaken \ {f}
    /\ UNCHANGED age

\* No answer in time, an error, or something else than a list: the entry, if
\* there is one, stays as it is.
FetchFails(f) ==
    /\ fetch[f] # NoFetch
    /\ fetch[f].got = 0
    /\ fetch' = [fetch EXCEPT ![f] = NoFetch]
    /\ overtaken' = overtaken \ {f}
    /\ UNCHANGED <<cache, age>>

Others(f) == {g \in Fetch \ {f} : fetch[g].server = fetch[f].server}

\* updateToolsCache: the last to store wins, and starts a new life.
Store(f) ==
    LET s == fetch[f].server
    IN  /\ fetch[f] # NoFetch /\ fetch[f].got # 0
        /\ cache' = [cache EXCEPT ![s] = [version |-> fetch[f].got, left |-> CacheTTL]]
        /\ age' = [age EXCEPT ![s] = FetchTime - fetch[f].left]
        /\ fetch' = [fetch EXCEPT ![f] = NoFetch]
        /\ overtaken' = (overtaken \cup Others(f)) \ {f}

\* A fetch, with the storing of its answer, takes no longer than its timeout.
Tick ==
    /\ \A f \in Fetch : fetch[f] # NoFetch => fetch[f].left > 0
    /\ fetch' = [f \in Fetch |->
                   IF fetch[f] = NoFetch THEN NoFetch
                   ELSE [fetch[f] EXCEPT !.left = @ - 1]]
    /\ cache' = [s \in Server |-> IF Fresh(s) THEN [cache[s] EXCEPT !.left = @ - 1] ELSE cache[s]]
    /\ age' = [s \in Server |-> IF Fresh(s) THEN age[s] + 1 ELSE age[s]]
    /\ UNCHANGED overtaken

CacheNext ==
    \/ \E f \in Fetch :
          \/ \E s \in Server : RefreshToolsCache(f, s) \/ LazyRefresh(f, s)
          \/ FetchAnswered(f) \/ FetchFails(f) \/ Store(f)
    \/ Tick

\* GetAggregatedTools is called again and again, and a server answers one of
\* infinitely many fetches; what was answered is stored before time goes on.
CacheFairness ==
    \A s \in Server :
        /\ SF_cacheVars(\E f \in Fetch : LazyRefresh(f, s))
        /\ SF_cacheVars(\E f \in Fetch : fetch[f].server = s /\ FetchAnswered(f))
        /\ WF_cacheVars(\E f \in Fetch : fetch[f].server = s /\ Store(f))
-----------------------------------------------------------------------------
(* Type invariant. *)
CacheTypeOK ==
    /\ cache \in [Server -> [version : 0..Len(Lists), left : -1..CacheTTL]]
    /\ \A s \in Server \ Cached : cache[s] = NoEntry
    /\ fetch \in [Fetch -> {NoFetch} \cup
                           [server : Server, got : 0..Len(Lists), left : 0..FetchTime]]
    /\ age \in [Server -> Nat]
    /\ overtaken \subseteq {f \in Fetch : fetch[f] # NoFetch}

(* What GetAggregatedTools lists of a server is what the server offered no *)
(* longer ago than the cache's TTL and the timeout of a fetch together,    *)
(* whichever of several fetches was stored last.                           *)
ListedIsRecent ==
    /\ CacheTypeOK
    /\ \A s \in Server : Fresh(s) => age[s] <= CacheTTL + FetchTime

(* A list is replaced by one the server offered before it only by a fetch  *)
(* that was in progress when the newer one was stored: refreshes of one    *)
(* server overlap freely, and the last to store wins.                      *)
GoesBackOnlyWhenOvertaken ==
    [][\A s \in Server :
          cache'[s].version < cache[s].version =>
              \E f \in overtaken : fetch[f].server = s /\ fetch'[f] = NoFetch]_cacheVars

(* A server that was cached once is cached afresh whenever its entry has   *)
(* expired.  (A server whose first fetch failed never has an entry, and    *)
(* GetAggregatedTools does not fetch it.)                                  *)
ExpiredIsRefreshed == \A s \in Server : (s \in Cached /\ ~Fresh(s)) ~> Fresh(s)
=============================================================================
