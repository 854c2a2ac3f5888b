-------------------------- MODULE ToolListsProofs --------------------------
(***************************************************************************)
(* Proofs about the tools cache, the tool catalog and the names of         *)
(* aggregated tools, for any servers, lists, times and number of fetches   *)
(* and restarts.                                                           *)
(***************************************************************************)
EXTENDS MCToolLists, ToolNames, SequenceTheorems, FiniteSetTheorems, TLAPS

OfferOK == offer \in [Server -> Version]

-----------------------------------------------------------------------------
(* The tools cache.                                                        *)

\* A list that is listed goes on being listed no longer than its age allows.
AgeOK == \A s \in Server : Fresh(s) => age[s] + cache[s].left <= CacheTTL + FetchTime

\* What was answered was offered, and is older than what is cached only when
\* that was stored meanwhile.
AnswersOK ==
    /\ \A s \in Server : cache[s].version <= offer[s]
    /\ \A f \in Fetch :
          fetch[f] # NoFetch /\ fetch[f].got # 0 =>
              /\ fetch[f].got <= offer[fetch[f].server]
              /\ f \notin overtaken => cache[fetch[f].server].version <= fetch[f].got

CacheInv == OfferOK /\ CacheTypeOK /\ AgeOK /\ AnswersOK

LEMMA LengthType == Len(Lists) \in Nat /\ Len(Lists) >= 1
BY ListsAssumption

LEMMA InitCacheInv == Init => CacheInv
<1> SUFFICES ASSUME Init PROVE CacheInv
  OBVIOUS
<1>1. OfferOK
  BY LengthType DEF Init, OffersFirst, OfferOK, Version
<1>2. cache = [s \in Server |-> NoEntry] /\ fetch = [f \in Fetch |-> NoFetch]
  BY DEF Init, CacheInit
<1>3. NoEntry \in [version : 0..Len(Lists), left : -1..CacheTTL]
  BY LengthType, TimesAssumption DEF NoEntry
<1>4. CacheTypeOK
  BY <1>2, <1>3 DEF Init, CacheInit, CacheTypeOK, Cached
<1> QED
  BY <1>1, <1>2, <1>4, LengthType DEF CacheInv, AgeOK, AnswersOK, Fresh, NoEntry, OfferOK, Version

\* What a fetch may be.
Fetching == [server : Server, got : 0..Len(Lists), left : 0..FetchTime]

LEMMA FetchType ==
  ASSUME CacheTypeOK
  PROVE  /\ fetch \in [Fetch -> {NoFetch} \cup Fetching]
         /\ NoFetch \notin Fetching
BY NoneAssumption DEF CacheTypeOK, Fetching, NoFetch

\* A fetch begins, is answered or fails.
LEMMA FetchStep ==
  ASSUME CacheInv, NEW f \in Fetch, NEW x, UNCHANGED <<offer, cache, age>>,
         fetch' = [fetch EXCEPT ![f] = x],
         \/ x = NoFetch /\ overtaken' = overtaken \ {f}
         \/ /\ x \in Fetching /\ overtaken' = overtaken
            /\ x.got # 0 => x.got = offer[x.server]
  PROVE  CacheInv'
<1>1. fetch \in [Fetch -> {NoFetch} \cup Fetching] /\ NoFetch \notin Fetching
  BY FetchType DEF CacheInv
<1>2. CacheTypeOK'
  BY <1>1 DEF CacheInv, CacheTypeOK, Cached, Fetching
<1>3. OfferOK' /\ AgeOK'
  BY DEF CacheInv, OfferOK, AgeOK, Fresh
<1>4. AnswersOK'
  <2>1. ASSUME NEW g \in Fetch, fetch'[g] # NoFetch, fetch'[g].got # 0
        PROVE  /\ fetch'[g].got <= offer[fetch'[g].server]
               /\ g \notin overtaken' => cache[fetch'[g].server].version <= fetch'[g].got
    <3>1. CASE g = f
      <4>1. x \in Fetching /\ x.got = offer[x.server] /\ fetch'[g] = x
        BY <1>1, <2>1, <3>1
      <4>2. cache[x.server].version <= offer[x.server] /\ offer[x.server] \in Int
        BY <4>1 DEF CacheInv, AnswersOK, OfferOK, Version, Fetching
      <4> QED
        BY <4>1, <4>2
    <3>2. CASE g # f
      BY <1>1, <2>1, <3>2 DEF CacheInv, AnswersOK
    <3> QED
      BY <3>1, <3>2
  <2> QED
    BY <2>1 DEF CacheInv, AnswersOK
<1> QED
  BY <1>2, <1>3, <1>4 DEF CacheInv

LEMMA StoreKeeps == ASSUME CacheInv, NEW f \in Fetch, Store(f), UNCHANGED offer PROVE CacheInv'
<1> DEFINE x == fetch[f]
           s == x.server
<1>1. /\ fetch \in [Fetch -> {NoFetch} \cup Fetching] /\ NoFetch \notin Fetching
      /\ x \in Fetching /\ x.got # 0
  BY FetchType DEF CacheInv, Store
<1>2. /\ s \in Server /\ x.got \in 1..Len(Lists) /\ x.left \in 0..FetchTime
      /\ x.got <= offer[s]
  BY <1>1, LengthType DEF Fetching, CacheInv, AnswersOK
<1>3. /\ cache' = [cache EXCEPT ![s] = [version |-> x.got, left |-> CacheTTL]]
      /\ age' = [age EXCEPT ![s] = FetchTime - x.left]
      /\ fetch' = [fetch EXCEPT ![f] = NoFetch]
      /\ overtaken' = (overtaken \cup Others(f)) \ {f}
  BY DEF Store
<1> HIDE DEF x, s
<1>4. CacheTypeOK'
  <2>1. [version |-> x.got, left |-> CacheTTL] \in [version : 0..Len(Lists), left : -1..CacheTTL]
    BY <1>2, TimesAssumption, LengthType
  <2>2. cache' \in [Server -> [version : 0..Len(Lists), left : -1..CacheTTL]]
    BY <1>2, <1>3, <2>1 DEF CacheInv, CacheTypeOK
  <2>3. \A z \in (Server \ Cached)' : cache'[z] = NoEntry
    BY <1>2, <1>3 DEF CacheInv, CacheTypeOK, Cached
  <2>4. age' \in [Server -> Nat]
    BY <1>2, <1>3, TimesAssumption DEF CacheInv, CacheTypeOK
  <2>5. \A g \in Others(f) : fetch[g] # NoFetch
    BY <1>2, NoneAssumption DEF Others, NoFetch, x, s
  <2>6. overtaken' \subseteq {g \in Fetch : fetch'[g] # NoFetch}
    BY <1>1, <1>3, <2>5 DEF CacheInv, CacheTypeOK, Others
  <2> QED
    BY <1>1, <1>3, <2>2, <2>3, <2>4, <2>6 DEF CacheTypeOK, Fetching
<1>5. AgeOK'
  BY <1>2, <1>3, TimesAssumption DEF CacheInv, CacheTypeOK, AgeOK, Fresh
<1>6. AnswersOK'
  <2>1. \A z \in Server : cache'[z].version <= offer[z]
    BY <1>2, <1>3 DEF CacheInv, CacheTypeOK, AnswersOK
  <2>2. ASSUME NEW g \in Fetch, fetch'[g] # NoFetch, fetch'[g].got # 0
        PROVE  /\ fetch'[g].got <= offer[fetch'[g].server]
               /\ g \notin overtaken' => cache'[fetch'[g].server].version <= fetch'[g].got
    <3>1. g # f /\ fetch'[g] = fetch[g] /\ fetch[g].server \in Server
      BY <1>1, <1>3, <2>2 DEF Fetching
    <3>2. fetch[g].server = s => g \in overtaken'
      BY <1>3, <3>1 DEF Others, x, s
    <3>3. fetch[g].server # s => cache'[fetch[g].server] = cache[fetch[g].server]
      BY <1>3, <3>1 DEF CacheInv, CacheTypeOK
    <3> QED
      BY <1>3, <2>2, <3>1, <3>2, <3>3 DEF CacheInv, AnswersOK
  <2> QED
    BY <2>1, <2>2 DEF AnswersOK
<1> QED
  BY <1>4, <1>5, <1>6 DEF CacheInv, OfferOK

LEMMA TickKeeps == ASSUME CacheInv, Tick, UNCHANGED offer PROVE CacheInv'
<1>1. fetch \in [Fetch -> {NoFetch} \cup Fetching] /\ NoFetch \notin Fetching
  BY FetchType DEF CacheInv
<1>2. ASSUME NEW f \in Fetch, fetch[f] # NoFetch
      PROVE  /\ fetch'[f] \in Fetching /\ fetch'[f] # NoFetch
             /\ fetch'[f].server = fetch[f].server /\ fetch'[f].got = fetch[f].got
  BY <1>1, <1>2, TimesAssumption DEF Tick, Fetching
<1>3. ASSUME NEW f \in Fetch, fetch[f] = NoFetch
      PROVE  fetch'[f] = NoFetch
  BY <1>3 DEF Tick
<1>4. ASSUME NEW s \in Server
      PROVE  /\ cache'[s] \in [version : 0..Len(Lists), left : -1..CacheTTL]
             /\ cache'[s].version = cache[s].version
             /\ cache[s] = NoEntry => cache'[s] = NoEntry
             /\ age'[s] \in Nat
             /\ cache'[s].version # 0 /\ cache'[s].left >= 0
                  => age'[s] + cache'[s].left <= CacheTTL + FetchTime
  BY TimesAssumption DEF Tick, Fresh, CacheInv, CacheTypeOK, AgeOK, NoEntry
<1>5. CacheTypeOK'
  <2>1. cache' \in [Server -> [version : 0..Len(Lists), left : -1..CacheTTL]]
    BY <1>4 DEF Tick
  <2>2. fetch' \in [Fetch -> {NoFetch} \cup Fetching]
    BY <1>2, <1>3 DEF Tick
  <2>3. age' \in [Server -> Nat]
    BY <1>4 DEF Tick
  <2>4. \A s \in (Server \ Cached)' : cache'[s] = NoEntry
    BY <1>4 DEF Cached, CacheInv, CacheTypeOK
  <2> QED
    BY <1>2, <2>1, <2>2, <2>3, <2>4 DEF Tick, CacheInv, CacheTypeOK, Fetching
<1>6. AgeOK'
  BY <1>4 DEF AgeOK, Fresh
<1>7. AnswersOK'
  <2>1. \A s \in Server : cache'[s].version <= offer[s]
    BY <1>4 DEF CacheInv, AnswersOK
  <2>2. ASSUME NEW f \in Fetch, fetch'[f] # NoFetch, fetch'[f].got # 0
        PROVE  /\ fetch'[f].got <= offer[fetch'[f].server]
               /\ f \notin overtaken' => cache'[fetch'[f].server].version <= fetch'[f].got
    <3>1. fetch[f] # NoFetch /\ fetch[f].server \in Server
      BY <1>1, <1>3, <2>2 DEF Fetching
    <3> QED
      BY <1>2, <1>4, <2>2, <3>1 DEF Tick, CacheInv, AnswersOK
  <2> QED
    BY <2>1, <2>2 DEF AnswersOK
<1> QED
  BY <1>5, <1>6, <1>7 DEF CacheInv, OfferOK

LEMMA NextCacheInv == ASSUME CacheInv, [Next]_vars PROVE CacheInv'
<1>1. ASSUME NEW s \in Server, ListChanges(s), UNCHANGED cacheVars
      PROVE  CacheInv'
  <2>1. offer \in [Server -> Version] /\ Len(Lists) \in Nat
    BY LengthType DEF CacheInv, OfferOK
  <2>2. /\ offer' \in [Server -> Version]
        /\ \A z \in Server : offer[z] <= offer'[z] /\ offer[z] \in Nat /\ offer'[z] \in Nat
    BY <1>1, <2>1 DEF ListChanges, Version
  <2>3. fetch \in [Fetch -> {NoFetch} \cup Fetching]
    BY FetchType DEF CacheInv
  <2>4. AnswersOK'
    <3>1. ASSUME NEW z \in Server
          PROVE  cache[z].version <= offer'[z]
      <4>1. cache[z].version \in 0..Len(Lists) /\ cache[z].version <= offer[z]
        BY DEF CacheInv, CacheTypeOK, AnswersOK
      <4> QED
        BY <2>1, <2>2, <4>1
    <3>2. ASSUME NEW f \in Fetch, fetch[f] # NoFetch, fetch[f].got # 0
          PROVE  fetch[f].got <= offer'[fetch[f].server]
      <4>1. fetch[f].server \in Server /\ fetch[f].got \in 0..Len(Lists)
        BY <2>3, <3>2 DEF Fetching
      <4> QED
        BY <2>1, <2>2, <3>2, <4>1 DEF CacheInv, AnswersOK
    <3> QED
      BY <1>1, <3>1, <3>2 DEF CacheInv, AnswersOK, cacheVars
  <2> QED
    BY <1>1, <2>2, <2>4 DEF CacheInv, OfferOK, CacheTypeOK, AgeOK, Fresh, Cached, cacheVars
<1>2. ASSUME UNCHANGED <<offer, cacheVars>>
      PROVE  CacheInv'
  BY <1>2 DEF CacheInv, OfferOK, CacheTypeOK, AgeOK, AnswersOK, Fresh, Cached, cacheVars
<1>3. ASSUME CacheNext, UNCHANGED offer
      PROVE  CacheInv'
  <2>1. fetch \in [Fetch -> {NoFetch} \cup Fetching] /\ NoFetch \notin Fetching
    BY FetchType DEF CacheInv
  <2>2. ASSUME NEW f \in Fetch, NEW s \in Server, RefreshToolsCache(f, s) \/ LazyRefresh(f, s)
        PROVE  CacheInv'
    <3>1. StartFetch(f, s)
      BY <2>2 DEF RefreshToolsCache, LazyRefresh
    <3>2. PICK x : x = [NoFetch EXCEPT !.server = s, !.left = FetchTime]
      OBVIOUS
    <3>3. x = [server |-> s, got |-> 0, left |-> FetchTime]
      BY <3>2 DEF NoFetch
    <3>4. x \in Fetching /\ x.got = 0
      BY <3>3, TimesAssumption, LengthType DEF Fetching
    <3> QED
      BY <1>3, <3>1, <3>2, <3>4, FetchStep DEF StartFetch
  <2>3. ASSUME NEW f \in Fetch, FetchAnswered(f)
        PROVE  CacheInv'
    <3>1. PICK x : x = [fetch[f] EXCEPT !.got = offer[fetch[f].server]]
      OBVIOUS
    <3>2. fetch[f] \in Fetching /\ fetch[f].server \in Server
      BY <2>1, <2>3 DEF FetchAnswered, Fetching
    <3>3. offer[fetch[f].server] \in 0..Len(Lists)
      BY <3>2, LengthType DEF CacheInv, OfferOK, Version
    <3>4. x \in Fetching /\ x.got = offer[x.server]
      BY <3>1, <3>2, <3>3 DEF Fetching
    <3>5. fetch' = [fetch EXCEPT ![f] = x]
      BY <2>1, <2>3, <3>1 DEF FetchAnswered
    <3> QED
      BY <1>3, <2>3, <3>4, <3>5, FetchStep DEF FetchAnswered
  <2>4. ASSUME NEW f \in Fetch, FetchFails(f)
        PROVE  CacheInv'
    BY <1>3, <2>4, FetchStep DEF FetchFails
  <2> QED
    BY <1>3, <2>2, <2>3, <2>4, StoreKeeps, TickKeeps DEF CacheNext
<1> QED
  BY <1>1, <1>2, <1>3 DEF Next, vars

(* What is listed of a server was offered no longer ago than the TTL and   *)
(* the timeout together, however many fetches overlap.                     *)
THEOREM ListsAreRecent == Spec => []ListedIsRecent
<1>1. CacheInv /\ [Next]_vars => CacheInv'
  BY NextCacheInv
<1>2. CacheInv => ListedIsRecent
  <2> SUFFICES ASSUME CacheInv, NEW s \in Server, Fresh(s)
               PROVE  age[s] <= CacheTTL + FetchTime
    BY DEF CacheInv, ListedIsRecent
  <2> QED
    BY TimesAssumption DEF CacheInv, CacheTypeOK, AgeOK, Fresh
<1> QED
  BY InitCacheInv, <1>1, <1>2, PTL DEF Spec

(* Only a fetch that another one overtook puts an older list in the place  *)
(* of a newer one.                                                         *)
THEOREM OvertakenGoBack == Spec => GoesBackOnlyWhenOvertaken
<1>1. CacheInv /\ [Next]_vars => CacheInv'
  BY NextCacheInv
<1>2. CacheInv /\ [Next]_vars =>
        [\A s \in Server :
            cache'[s].version < cache[s].version =>
                \E f \in overtaken : fetch[f].server = s /\ fetch'[f] = NoFetch]_cacheVars
  <2>1. ASSUME CacheInv, Next, NEW s \in Server, cache'[s].version < cache[s].version
        PROVE  \E f \in overtaken : fetch[f].server = s /\ fetch'[f] = NoFetch
    <3>1. cache \in [Server -> [version : 0..Len(Lists), left : -1..CacheTTL]]
      BY <2>1 DEF CacheInv, CacheTypeOK
    <3>2. cache[s].version \in 0..Len(Lists)
      BY <3>1
    <3>3. ~Tick
      <4>1. Tick => cache'[s].version = cache[s].version
        BY <3>1 DEF Tick
      <4> QED
        BY <2>1, <3>2, <4>1, LengthType
    <3>4. ~UNCHANGED cache
      BY <2>1, <3>2, LengthType
    <3>5. PICK f \in Fetch : Store(f)
      BY <2>1, <3>3, <3>4 DEF Next, CacheNext, RefreshToolsCache, LazyRefresh, StartFetch, FetchAnswered,
         FetchFails, cacheVars
    <3>6. fetch[f] \in Fetching /\ fetch[f] # NoFetch /\ fetch[f].got # 0 /\ fetch'[f] = NoFetch
      BY <2>1, <3>5, FetchType DEF CacheInv, Store
    <3>7. cache' = [cache EXCEPT ![fetch[f].server] = [version |-> fetch[f].got, left |-> CacheTTL]]
      BY <3>5 DEF Store
    <3>8. fetch[f].server = s /\ cache'[s].version = fetch[f].got
      BY <2>1, <3>1, <3>2, <3>7, LengthType
    <3>9. f \in overtaken
      BY <2>1, <3>2, <3>6, <3>8 DEF CacheInv, AnswersOK, Fetching
    <3> QED
      BY <3>6, <3>8, <3>9
  <2> QED
    BY <2>1 DEF vars
<1> QED
  BY InitCacheInv, <1>1, <1>2, PTL DEF Spec, GoesBackOnlyWhenOvertaken

-----------------------------------------------------------------------------
(* The tool catalog.                                                       *)

Task == [server : Server, at : {"asked", "answered", "writing"}, got : Version]

Row == [name : Name, version : Version]

\* The rows that the first k tools of a list give.
FirstRows(v, k) == {[name |-> Lists[v][i], version |-> v] : i \in 1..k}

CatalogTypes ==
    /\ rows \in [Server -> SUBSET Row]
    /\ draft \subseteq Row
    /\ tasks \subseteq Task
    /\ loop \in {"waiting", "syncing", "ended"}
    /\ stopped \in BOOLEAN
    /\ starts \in 0..Restarts

RowsOK ==
    \A s \in Server : rows[s] = {} \/ \E v \in 1..offer[s] : rows[s] = AllOf(v) /\ Storable(v)

\* The syncs of a server follow each other, and writing excludes writing.
OnePerServer ==
    /\ loop # "syncing" => tasks = {}
    /\ \A t, u \in tasks : t.server = u.server => t = u
    /\ \A t, u \in tasks : t.at = "writing" /\ u.at = "writing" => t = u

\* An answer is not older than what the table has.
AnswersFollow ==
    \A t \in tasks :
        /\ t.got <= offer[t.server]
        /\ t.at # "asked" => \A w \in Versions(t.server) : w <= t.got

\* What is written so far are the first tools of the list, none twice.
DraftOK ==
    \A t \in tasks : t.at = "writing" =>
        /\ IsFiniteSet(draft)
        /\ \E k \in 0..Len(Lists[t.got]) : draft = FirstRows(t.got, k) /\ Cardinality(draft) = k

CatalogInv == OfferOK /\ CatalogTypes /\ RowsOK /\ OnePerServer /\ AnswersFollow /\ DraftOK

LEMMA ListType == ASSUME NEW v \in Version PROVE Lists[v] \in Seq(Name) /\ Len(Lists[v]) \in Nat
BY ListsAssumption DEF Version

LEMMA AskingOK ==
  /\ Asking \subseteq Task
  /\ \A t, u \in Asking : t.server = u.server => t = u
  /\ \A t \in Asking : t.at = "asked" /\ t.got = 1
BY LengthType DEF Asking, Task, Version

LEMMA InitCatalogInv == Init => CatalogInv
<1> SUFFICES ASSUME Init PROVE CatalogInv
  OBVIOUS
<1>1. offer = [s \in Server |-> 1] /\ OfferOK
  BY LengthType DEF Init, OffersFirst, OfferOK, Version
<1>2. CatalogTypes
  <2>1. rows \in [Server -> SUBSET Row] /\ draft \subseteq Row
    BY DEF Init, CatalogInit
  <2>2. tasks \subseteq Task
    BY AskingOK DEF Init, CatalogInit
  <2>3. loop = "syncing" /\ stopped = FALSE /\ starts \in 0..Restarts
    BY CatalogAssumption DEF Init, CatalogInit
  <2> QED
    BY <2>1, <2>2, <2>3 DEF CatalogTypes
<1>3. RowsOK
  BY DEF Init, CatalogInit, RowsOK
<1>4. OnePerServer /\ DraftOK
  BY AskingOK DEF Init, CatalogInit, OnePerServer, DraftOK
<1>5. AnswersFollow
  BY <1>1, AskingOK DEF Init, CatalogInit, AnswersFollow, Asking
<1> QED
  BY <1>1, <1>2, <1>3, <1>4, <1>5 DEF CatalogInv

\* No row is newer than what the server offers.
LEMMA RowsOffered ==
  ASSUME RowsOK, NEW s \in Server, NEW w \in Versions(s)
  PROVE  w <= offer[s]
BY DEF RowsOK, Versions, AllOf

\* A goroutine goes on or returns; nothing is committed.
LEMMA TaskSteps ==
  ASSUME CatalogInv, NEW t \in tasks, loop = "syncing",
         UNCHANGED <<offer, rows, loop, stopped, starts>>,
         \/ Ends(t)
         \/ \E t2 \in Task :
               /\ Becomes(t, t2) /\ t2.server = t.server
               /\ t2.got <= offer[t2.server]
               /\ t2.at # "asked" => \A w \in Versions(t2.server) : w <= t2.got
               /\ t2.at = "writing" => \A u \in tasks : u.at # "writing"
  PROVE  /\ OfferOK' /\ RowsOK' /\ OnePerServer' /\ AnswersFollow'
         /\ tasks' \subseteq Task
<1> USE DEF CatalogInv
<1>1. OfferOK' /\ RowsOK'
  BY DEF OfferOK, RowsOK
<1>2. \A s : Versions(s)' = Versions(s)
  BY DEF Versions
<1>3. ASSUME Ends(t)
      PROVE  OnePerServer' /\ AnswersFollow' /\ tasks' \subseteq Task
  <2>1. tasks' \subseteq tasks /\ loop' = "syncing"
    BY <1>3 DEF Ends
  <2>2. OnePerServer'
    BY <2>1 DEF OnePerServer
  <2>3. AnswersFollow'
    BY <1>2, <2>1 DEF AnswersFollow
  <2> QED
    BY <2>1, <2>2, <2>3 DEF CatalogTypes
<1>4. ASSUME NEW t2 \in Task, Becomes(t, t2), t2.server = t.server,
             t2.got <= offer[t2.server],
             t2.at # "asked" => \A w \in Versions(t2.server) : w <= t2.got,
             t2.at = "writing" => \A u \in tasks : u.at # "writing"
      PROVE  OnePerServer' /\ AnswersFollow' /\ tasks' \subseteq Task
  <2>1. OnePerServer'
    BY <1>4 DEF Becomes, OnePerServer
  <2>2. AnswersFollow'
    BY <1>2, <1>4 DEF Becomes, AnswersFollow
  <2> QED
    BY <1>4, <2>1, <2>2 DEF Becomes, CatalogTypes
<1> QED
  BY <1>1, <1>3, <1>4

\* There are goroutines only while the loop waits for them.
LEMMA TasksSync == ASSUME CatalogInv, NEW t \in tasks PROVE loop = "syncing" /\ t \in Task
BY DEF CatalogInv, OnePerServer, CatalogTypes

LEMMA AnsweringKeeps ==
  ASSUME CatalogInv, NEW t \in tasks, UNCHANGED offer,
         Answered(t) \/ AskFails(t) \/ BeginFails(t) \/ Rollback(t)
  PROVE  CatalogInv'
<1>1. loop = "syncing" /\ t \in Task
  BY TasksSync
<1>2. CASE Answered(t)
  <2>1. PICK t2 : t2 = [t EXCEPT !.at = "answered", !.got = offer[t.server]]
    OBVIOUS
  <2>2. /\ t2 \in Task /\ t2.server = t.server /\ t2.at = "answered" /\ t2.got = offer[t2.server]
        /\ offer[t2.server] \in Int
    <3>1. t.server \in Server /\ offer[t.server] \in Version
      BY <1>1 DEF Task, CatalogInv, OfferOK
    <3>2. t2 \in Task
      BY <1>1, <2>1, <3>1 DEF Task
    <3> QED
      BY <1>1, <2>1, <3>1, <3>2 DEF Task, Version
  <2>3. \A w \in Versions(t2.server) : w <= t2.got
    BY <2>2, RowsOffered DEF CatalogInv, Task
  <2>4. Becomes(t, t2)
    BY <1>2, <2>1 DEF Answered
  <2>5. OfferOK' /\ RowsOK' /\ OnePerServer' /\ AnswersFollow' /\ tasks' \subseteq Task
    BY <1>1, <1>2, <2>2, <2>3, <2>4, TaskSteps DEF Answered
  <2>6. DraftOK'
    BY <1>2, <2>2, <2>4 DEF Answered, Becomes, CatalogInv, DraftOK
  <2> QED
    BY <1>2, <2>5, <2>6 DEF Answered, CatalogInv, CatalogTypes
<1>3. CASE AskFails(t) \/ BeginFails(t) \/ Rollback(t)
  <2>1. Ends(t) /\ UNCHANGED <<rows, draft, loop, stopped, starts>>
    BY <1>3 DEF AskFails, BeginFails, Rollback
  <2>2. OfferOK' /\ RowsOK' /\ OnePerServer' /\ AnswersFollow' /\ tasks' \subseteq Task
    BY <1>1, <2>1, TaskSteps
  <2> QED
    BY <2>1, <2>2 DEF Ends, CatalogInv, CatalogTypes, DraftOK
<1> QED
  BY <1>2, <1>3

LEMMA WritingKeeps ==
  ASSUME CatalogInv, NEW t \in tasks, UNCHANGED offer, BeginTx(t) \/ Insert(t)
  PROVE  CatalogInv'
<1>1. loop = "syncing" /\ t \in Task
  BY TasksSync
<1>2. CASE BeginTx(t)
  <2>1. PICK t2 : t2 = [t EXCEPT !.at = "writing"]
    OBVIOUS
  <2>2. /\ t2 \in Task /\ t2.server = t.server /\ t2.at = "writing" /\ t2.got = t.got
        /\ t.at = "answered" /\ \A u \in tasks : u.at # "writing"
    BY <1>1, <1>2, <2>1 DEF Task, BeginTx, Lock
  <2>3. Becomes(t, t2) /\ draft' = {}
    BY <1>2, <2>1 DEF BeginTx
  <2>4. OfferOK' /\ RowsOK' /\ OnePerServer' /\ AnswersFollow' /\ tasks' \subseteq Task
    BY <1>1, <1>2, <2>2, <2>3, TaskSteps DEF BeginTx, CatalogInv, AnswersFollow
  <2>5. {} = FirstRows(t2.got, 0) /\ Cardinality({}) = 0 /\ 0 \in 0..Len(Lists[t2.got])
    BY <2>2, ListType, FS_EmptySet DEF FirstRows, Task
  <2>6. DraftOK'
    <3>1. \A u \in tasks' : u.at = "writing" => u = t2
      BY <2>2, <2>3 DEF Becomes
    <3> QED
      BY <2>3, <2>5, <3>1, FS_EmptySet DEF DraftOK
  <2> QED
    BY <1>2, <2>3, <2>4, <2>6 DEF BeginTx, CatalogInv, CatalogTypes
<1>3. CASE Insert(t)
  <2>1. PICK v : v = t.got
    OBVIOUS
  <2>2. v \in Version /\ t.at = "writing"
    BY <1>1, <1>3, <2>1 DEF Task, Insert
  <2>3. PICK k \in 0..Len(Lists[v]) :
            IsFiniteSet(draft) /\ draft = FirstRows(v, k) /\ Cardinality(draft) = k
    BY <2>1, <2>2 DEF CatalogInv, DraftOK
  <2>4. PICK row : row = [name |-> Lists[v][k + 1], version |-> v]
    OBVIOUS
  <2>5. /\ k + 1 \in 1..Len(Lists[v]) /\ k + 1 \in 0..Len(Lists[v]) /\ row \in Row
        /\ row \notin draft /\ draft' = draft \cup {row}
    <3>1. k # Len(Lists[v]) /\ row \notin draft /\ draft' = draft \cup {row}
      BY <1>3, <2>1, <2>3, <2>4 DEF Insert, Inserted, NextRow
    <3>2. k + 1 \in 1..Len(Lists[v]) /\ k + 1 \in 0..Len(Lists[v])
      BY <2>2, <2>3, <3>1, ListType
    <3>3. Lists[v][k + 1] \in Name
      BY <2>2, <3>2, ListType
    <3> QED
      BY <2>2, <2>4, <3>1, <3>2, <3>3 DEF Row
  <2>6. draft' = FirstRows(v, k + 1)
    BY <2>3, <2>4, <2>5 DEF FirstRows
  <2>7. IsFiniteSet(draft') /\ Cardinality(draft') = k + 1
    BY <2>3, <2>5, FS_AddElement
  <2>8. DraftOK'
    BY <1>3, <2>1, <2>2, <2>5, <2>6, <2>7 DEF Insert, CatalogInv, OnePerServer, DraftOK
  <2> QED
    BY <1>3, <2>5, <2>8 DEF Insert, CatalogInv, CatalogTypes, OfferOK, RowsOK, OnePerServer,
       AnswersFollow, Versions, Row
<1> QED
  BY <1>2, <1>3

\* What is committed is the whole list.
LEMMA CommitIsWhole ==
  ASSUME CatalogInv, NEW t \in tasks, Commit(t)
  PROVE  /\ t.got \in Version
         /\ draft = AllOf(t.got) /\ Storable(t.got)
         /\ rows' = [rows EXCEPT ![t.server] = AllOf(t.got)]
<1>1. t.got \in Version
  BY TasksSync DEF Task
<1>2. PICK k \in 0..Len(Lists[t.got]) : draft = FirstRows(t.got, k) /\ Cardinality(draft) = k
  BY DEF CatalogInv, DraftOK, Commit
<1>3. Cardinality(draft) = Len(Lists[t.got]) /\ DOMAIN Lists[t.got] = 1..Len(Lists[t.got])
  BY <1>1, ListType DEF Commit, Inserted
<1> QED
  BY <1>1, <1>2, <1>3 DEF AllOf, FirstRows, Storable, Commit

LEMMA CommitKeeps ==
  ASSUME CatalogInv, NEW t \in tasks, UNCHANGED offer, Commit(t)
  PROVE  CatalogInv'
<1>1. loop = "syncing" /\ t \in Task
  BY TasksSync
<1>2. /\ t.server \in Server /\ t.got \in 1..offer[t.server]
      /\ t.got \in Version /\ offer[t.server] \in Version
  BY <1>1, LengthType DEF Task, CatalogInv, AnswersFollow, OfferOK, Version
<1>3. draft = AllOf(t.got) /\ Storable(t.got)
  BY CommitIsWhole
<1>4. /\ rows' = [rows EXCEPT ![t.server] = draft]
      /\ tasks' = tasks \ {t}
      /\ UNCHANGED <<draft, loop, stopped, starts>>
  BY DEF Commit, Ends
<1>5. RowsOK'
  BY <1>2, <1>3, <1>4 DEF CatalogInv, CatalogTypes, RowsOK, AllOf, Storable
<1>6. AnswersFollow'
  <2>1. ASSUME NEW u \in tasks'
        PROVE  u.server # t.server /\ Versions(u.server)' = Versions(u.server)
    <3>1. u.server # t.server
      BY <1>4, <2>1 DEF CatalogInv, OnePerServer
    <3>2. rows'[u.server] = rows[u.server]
      BY <1>4, <2>1, <3>1 DEF CatalogInv, CatalogTypes, Task
    <3> QED
      BY <3>1, <3>2 DEF Versions
  <2> QED
    BY <1>4, <2>1 DEF CatalogInv, AnswersFollow
<1>7. OnePerServer' /\ DraftOK'
  BY <1>1, <1>4 DEF CatalogInv, OnePerServer, DraftOK
<1> QED
  BY <1>2, <1>4, <1>5, <1>6, <1>7 DEF CatalogInv, CatalogTypes, OfferOK

\* The loop, Stop, and the next process.
LEMMA LoopKeeps ==
  ASSUME CatalogInv, UNCHANGED offer, SyncAll \/ SyncDone \/ Stop \/ Restart
  PROVE  CatalogInv'
<1> USE DEF CatalogInv, CatalogTypes, OfferOK, RowsOK
<1>1. ASSUME tasks' = Asking, loop' = "syncing", UNCHANGED rows, stopped' \in BOOLEAN,
             draft' \subseteq Row, starts' \in 0..Restarts
      PROVE  CatalogInv'
  <2>1. OnePerServer' /\ DraftOK'
    BY <1>1, AskingOK DEF OnePerServer, DraftOK
  <2>2. AnswersFollow'
    BY <1>1, AskingOK, LengthType DEF AnswersFollow, Asking, Version
  <2> QED
    BY <1>1, <2>1, <2>2, AskingOK DEF Storable, AllOf
<1>2. CASE SyncAll
  <2>1. tasks' = Asking
    BY <1>2 DEF SyncAll, OnePerServer
  <2> QED
    BY <1>1, <1>2, <2>1 DEF SyncAll
<1>3. CASE Restart
  <2>1. starts' \in 0..Restarts
    BY <1>3, CatalogAssumption DEF Restart
  <2> QED
    BY <1>1, <1>3, <2>1 DEF Restart
<1>4. CASE SyncDone \/ Stop
  BY <1>4 DEF SyncDone, Stop, OnePerServer, AnswersFollow, DraftOK, Versions
<1> QED
  BY <1>2, <1>3, <1>4

LEMMA OfferKeeps ==
  ASSUME CatalogInv, NEW s \in Server, ListChanges(s), UNCHANGED catalogVars
  PROVE  CatalogInv'
<1>1. /\ offer' \in [Server -> Version]
      /\ \A z \in Server : offer[z] <= offer'[z] /\ offer[z] \in Nat /\ offer'[z] \in Nat
  BY LengthType DEF ListChanges, CatalogInv, OfferOK, Version
<1>2. RowsOK'
  <2>1. ASSUME NEW z \in Server, NEW v \in 1..offer[z]
        PROVE  v \in 1..offer'[z]
    BY <1>1
  <2>2. UNCHANGED rows
    BY DEF catalogVars
  <2> QED
    BY <2>1, <2>2 DEF CatalogInv, RowsOK
<1>3. AnswersFollow'
  <2>1. ASSUME NEW t \in tasks
        PROVE  t.got <= offer'[t.server]
    <3>1. t.server \in Server /\ t.got \in Nat
      BY LengthType DEF CatalogInv, CatalogTypes, Task, Version
    <3> QED
      BY <1>1, <3>1 DEF CatalogInv, AnswersFollow
  <2> QED
    BY <2>1 DEF CatalogInv, AnswersFollow, Versions, catalogVars
<1> QED
  BY <1>1, <1>2, <1>3 DEF CatalogInv, CatalogTypes, OnePerServer, DraftOK, OfferOK, catalogVars

LEMMA NextCatalogInv == ASSUME CatalogInv, [Next]_vars PROVE CatalogInv'
<1>1. ASSUME UNCHANGED <<offer, catalogVars>>
      PROVE  CatalogInv'
  BY <1>1 DEF CatalogInv, OfferOK, CatalogTypes, RowsOK, OnePerServer, AnswersFollow, DraftOK,
     Versions, catalogVars
<1> QED
  BY <1>1, AnsweringKeeps, WritingKeeps, CommitKeeps, LoopKeeps, OfferKeeps
     DEF Next, CatalogNext, SyncServer, vars

\* There is one goroutine for each server at most.
LEMMA TasksAreFew ==
  ASSUME CatalogInv
  PROVE  Cardinality(tasks) <= Cardinality(Server)
<1> DEFINE f == [t \in tasks |-> t.server]
<1>1. f \in Injection(tasks, Server)
  BY DEF CatalogInv, CatalogTypes, Task, OnePerServer, Injection, IsInjective
<1> HIDE DEF f
<1> QED
  BY <1>1, FS_Injection, CatalogAssumption

(* The table has one whole answer of each server, whatever fails, is cut   *)
(* off or is started again.                                                *)
THEOREM AnswersAreWhole == Spec => []CatalogIsOneAnswer
<1>1. CatalogInv /\ [Next]_vars => CatalogInv'
  BY NextCatalogInv
<1>2. CatalogInv => CatalogIsOneAnswer
  BY TasksAreFew DEF CatalogInv, CatalogTypes, Task, Row, RowsOK, CatalogIsOneAnswer, CatalogTypeOK
<1> QED
  BY InitCatalogInv, <1>1, <1>2, PTL DEF Spec

(* An older list never replaces a newer one in the table.                  *)
THEOREM CatalogGoesForward == Spec => CatalogNeverGoesBack
<1>1. CatalogInv /\ [Next]_vars => CatalogInv'
  BY NextCatalogInv
<1>2. CatalogInv /\ CatalogInv' /\ [Next]_vars =>
        [\A s \in Server : \A v \in Versions(s), w \in Versions(s)' : v <= w]_rows
  <2> SUFFICES ASSUME CatalogInv, CatalogInv', Next, rows' # rows,
                      NEW s \in Server, NEW v \in Versions(s), NEW w \in Versions(s)'
               PROVE  v <= w
    BY DEF vars, catalogVars
  <2>1. PICK t \in tasks : Commit(t) /\ UNCHANGED offer
    BY DEF Next, CatalogNext, SyncServer, Answered, AskFails, BeginTx, BeginFails, Insert, Rollback,
       SyncAll, SyncDone, Stop, Restart, catalogVars
  <2>2. t \in Task /\ s \in DOMAIN rows /\ v \in Nat
    BY DEF CatalogInv, CatalogTypes, Versions, Row, Version
  <2>3. CASE s = t.server
    <3>1. v <= t.got
      BY <2>1, <2>3 DEF CatalogInv, AnswersFollow, Commit
    <3>2. rows'[s] = AllOf(t.got)
      BY <2>1, <2>2, <2>3, CommitIsWhole
    <3> QED
      BY <3>1, <3>2 DEF Versions, AllOf
  <2>4. CASE s # t.server
    <3>1. rows'[s] = rows[s]
      BY <2>1, <2>2, <2>4 DEF Commit
    <3>2. PICK x \in 1..offer[s] : rows[s] = AllOf(x)
      BY DEF CatalogInv, RowsOK, Versions
    <3>3. v = x /\ w = x
      BY <3>1, <3>2 DEF Versions, AllOf
    <3> QED
      BY <2>2, <3>3
  <2> QED
    BY <2>3, <2>4
<1> QED
  BY InitCatalogInv, <1>1, <1>2, PTL DEF Spec, CatalogNeverGoesBack

-----------------------------------------------------------------------------
(* The names of aggregated tools, for any servers and lists.               *)

ShownTool == [server : DottedName, tool : DottedName, name : DottedName]

\* A tool of a server that was visited, under one of the two names it can get.
ShownOK(e) ==
    /\ e.server \in DOMAIN tools \ waiting
    /\ \E k \in DOMAIN tools[e.server] : e.tool = tools[e.server][k]
    /\ e.name \in {e.server \o e.tool, e.tool \o e.server}

NamesInv ==
    /\ tools \in Listing /\ waiting \subseteq DOMAIN tools
    /\ aggregated \in Seq(ShownTool)
    /\ \A i \in 1..Len(aggregated) : ShownOK(aggregated[i])
    /\ ListsNoneTwice =>
          \A i, j \in 1..Len(aggregated) :
              /\ aggregated[i].server = aggregated[j].server
              /\ aggregated[i].tool = aggregated[j].tool
              => i = j

Joins(u, v) ==
    /\ Len(u \o v) = Len(u) + Len(v)
    /\ \A i \in 1..(Len(u) + Len(v)) :
          (u \o v)[i] = IF i <= Len(u) THEN u[i] ELSE v[i - Len(u)]

\* n is a name for both tools, although their servers stand apart.
SharedName(n, s1, t1, s2, t2) ==
    /\ Len(s1) = 1 /\ Len(s2) = 1 /\ t1[1] # s2[1] /\ t2[1] # s1[1]
    /\ n \in {s1 \o t1, t1 \o s1} /\ n \in {s2 \o t2, t2 \o s2}

\* The part before a dot, or after it, is what tells two names.
LEMMA JoinedNames ==
  ASSUME NEW s1 \in DottedName, NEW s2 \in DottedName, NEW t1 \in DottedName, NEW t2 \in DottedName,
         NEW n, SharedName(n, s1, t1, s2, t2)
  PROVE  s1 = s2 /\ t1 = t2
<1>0. /\ Len(s1) = 1 /\ Len(s2) = 1 /\ t1[1] # s2[1] /\ t2[1] # s1[1]
      /\ n \in {s1 \o t1, t1 \o s1} /\ n \in {s2 \o t2, t2 \o s2}
  BY DEF SharedName
<1>1. /\ s1 \in Seq(Part) /\ s2 \in Seq(Part) /\ t1 \in Seq(Part) /\ t2 \in Seq(Part)
      /\ Len(t1) \in Nat \ {0} /\ Len(t2) \in Nat \ {0}
  BY LenProperties, EmptySeq DEF DottedName
<1>a. \A u, v \in Seq(Part) : Joins(u, v)
  BY ConcatProperties DEF Joins
<1>2. ASSUME NEW x \in Seq(Part), NEW y \in Seq(Part), NEW z \in Seq(Part), NEW w \in Seq(Part),
             x \o y = z \o w, Len(x) = Len(z)
      PROVE  x = z /\ y = w
  <2>1. /\ Len(x) \in Nat /\ Len(y) \in Nat /\ Len(z) \in Nat /\ Len(w) \in Nat
    BY LenProperties
  <2>2. PICK q : q = x \o y /\ q = z \o w
    BY <1>2
  <2>3. /\ Len(q) = Len(x) + Len(y)
        /\ \A i \in 1..(Len(x) + Len(y)) : q[i] = IF i <= Len(x) THEN x[i] ELSE y[i - Len(x)]
    BY <1>a, <2>2 DEF Joins
  <2>4. /\ Len(q) = Len(z) + Len(w)
        /\ \A i \in 1..(Len(z) + Len(w)) : q[i] = IF i <= Len(z) THEN z[i] ELSE w[i - Len(z)]
    BY <1>a, <2>2 DEF Joins
  <2>5. Len(y) = Len(w)
    BY <1>2, <2>1, <2>3, <2>4
  <2>6. \A i \in 1..Len(x) : x[i] = z[i]
    <3> TAKE i \in 1..Len(x)
    <3>1. i \in 1..(Len(x) + Len(y)) /\ i <= Len(x)
      BY <2>1
    <3> QED
      BY <1>2, <2>3, <2>4, <2>5, <3>1
  <2>7. \A i \in 1..Len(y) : y[i] = w[i]
    <3> TAKE i \in 1..Len(y)
    <3>1. /\ i + Len(x) \in 1..(Len(x) + Len(y)) /\ ~(i + Len(x) <= Len(x))
          /\ (i + Len(x)) - Len(x) = i
      BY <2>1
    <3>2. q[i + Len(x)] = y[i]
      BY <2>3, <3>1
    <3>3. q[i + Len(x)] = w[i]
      BY <1>2, <2>4, <2>5, <3>1
    <3> QED
      BY <3>2, <3>3
  <2> QED
    BY <1>2, <2>5, <2>6, <2>7, SeqEqual
<1>3. ASSUME NEW x \in Seq(Part), NEW y \in Seq(Part), Len(x) \in Nat \ {0}
      PROVE  (x \o y)[1] = x[1]
  <2>1. Len(x) \in Nat /\ Len(y) \in Nat /\ 1 \in 1..(Len(x) + Len(y)) /\ 1 <= Len(x)
    BY <1>3, LenProperties
  <2> QED
    BY <2>1, ConcatProperties
<1>4. /\ (s1 \o t1)[1] = s1[1] /\ (t1 \o s1)[1] = t1[1]
      /\ (s2 \o t2)[1] = s2[1] /\ (t2 \o s2)[1] = t2[1]
  <2>1. Len(s1) \in Nat \ {0} /\ Len(s2) \in Nat \ {0}
    BY <1>0
  <2>2. (s1 \o t1)[1] = s1[1]
    BY <1>1, <1>3, <2>1
  <2>3. (t1 \o s1)[1] = t1[1]
    BY <1>1, <1>3
  <2>4. (s2 \o t2)[1] = s2[1]
    BY <1>1, <1>3, <2>1
  <2>5. (t2 \o s2)[1] = t2[1]
    BY <1>1, <1>3
  <2> QED
    BY <2>2, <2>3, <2>4, <2>5
<1>5. CASE n = s1 \o t1 /\ n = s2 \o t2
  BY <1>0, <1>1, <1>2, <1>5
<1>6. CASE n = t1 \o s1 /\ n = t2 \o s2
  <2>1. Len(t1 \o s1) = Len(t1) + 1
    BY <1>0, <1>1, <1>a DEF Joins
  <2>3. Len(t2 \o s2) = Len(t2) + 1
    BY <1>0, <1>1, <1>a DEF Joins
  <2>2. Len(t1) = Len(t2)
    BY <1>1, <1>6, <2>1, <2>3
  <2> QED
    BY <1>1, <1>2, <1>6, <2>2
<1> QED
  BY <1>0, <1>4, <1>5, <1>6

LEMMA VisitKeepsNames == ASSUME NamesInv, NEW s, VisitServer(s) PROVE NamesInv'
<1>1. /\ s \in waiting /\ waiting' = waiting \ {s} /\ tools' = tools
      /\ tools \in Listing /\ waiting \subseteq DOMAIN tools
  BY DEF NamesInv, VisitServer
<1>2. PICK l, a : l = tools[s] /\ a = aggregated
  OBVIOUS
<1>3. s \in DottedName /\ l \in Seq(DottedName) /\ a \in Seq(ShownTool)
  BY <1>1, <1>2, ListingAssumption DEF NamesInv
<1>4. /\ Len(l) \in Nat /\ DOMAIN l = 1..Len(l) /\ Len(a) \in Nat
      /\ \A i \in 1..Len(l) : l[i] \in DottedName
  BY <1>3, LenProperties, ElementOfSeq
<1>5. PICK b :
         /\ b \in Seq(ShownTool) /\ Len(b) = Len(l) /\ aggregated' = a \o b
         /\ \A i \in 1..Len(l) : /\ b[i].server = s /\ b[i].tool = l[i]
                                 /\ b[i].name \in {s \o l[i], l[i] \o s}
  <2> DEFINE Taken(i) == l[i] \in globalNames \cup {l[j] : j \in 1..(i - 1)}
             c == [i \in DOMAIN l |-> [server |-> s, tool |-> l[i],
                                       name |-> NewName(s, l[i], Taken(i))]]
  <2>1. aggregated' = a \o c
    BY <1>2 DEF VisitServer
  <2> HIDE DEF Taken
  <2>2. \A i \in 1..Len(l) : NewName(s, l[i], Taken(i)) \in {s \o l[i], l[i] \o s}
    BY DEF NewName
  <2>3. \A i \in 1..Len(l) : s \o l[i] \in DottedName /\ l[i] \o s \in DottedName
    <3> TAKE i \in 1..Len(l)
    <3>1. s \in Seq(Part) /\ l[i] \in Seq(Part) /\ Len(s) \in Nat \ {0} /\ Len(l[i]) \in Nat \ {0}
      BY <1>3, <1>4, LenProperties, EmptySeq DEF DottedName
    <3>2. /\ s \o l[i] \in Seq(Part) /\ Len(s \o l[i]) = Len(s) + Len(l[i])
          /\ l[i] \o s \in Seq(Part) /\ Len(l[i] \o s) = Len(l[i]) + Len(s)
      BY <3>1, ConcatProperties
    <3>3. Len(s \o l[i]) # 0 /\ Len(l[i] \o s) # 0
      BY <3>1, <3>2
    <3> QED
      BY <3>2, <3>3, EmptySeq DEF DottedName
  <2>4. \A i \in 1..Len(l) : c[i] \in ShownTool
    BY <1>3, <1>4, <2>2, <2>3 DEF ShownTool
  <2>5. c \in Seq(ShownTool) /\ Len(c) = Len(l)
    <3>1. c \in [1..Len(l) -> ShownTool]
      BY <1>4, <2>4
    <3> HIDE DEF c
    <3> QED
      BY <1>4, <3>1, SeqDef, LenProperties
  <2>6. \A i \in 1..Len(l) : /\ c[i].server = s /\ c[i].tool = l[i]
                             /\ c[i].name \in {s \o l[i], l[i] \o s}
    BY <1>4, <2>2
  <2> HIDE DEF c
  <2> QED
    BY <2>1, <2>5, <2>6
<1>6. PICK n : n = aggregated'
  OBVIOUS
<1>7. /\ n \in Seq(ShownTool) /\ Len(n) = Len(a) + Len(l)
      /\ \A i \in 1..(Len(a) + Len(l)) : n[i] = IF i <= Len(a) THEN a[i] ELSE b[i - Len(a)]
  <2>1. n = a \o b
    BY <1>5, <1>6
  <2>a. \A u, v \in Seq(ShownTool) : u \o v \in Seq(ShownTool) /\ Joins(u, v)
    BY ConcatProperties DEF Joins
  <2>2. /\ a \o b \in Seq(ShownTool) /\ Len(a \o b) = Len(a) + Len(b)
        /\ \A i \in 1..(Len(a) + Len(b)) :
              (a \o b)[i] = IF i <= Len(a) THEN a[i] ELSE b[i - Len(a)]
    BY <1>3, <1>5, <2>a DEF Joins
  <2> QED
    BY <1>5, <2>1, <2>2
<1>8. \A i \in 1..(Len(a) + Len(l)) :
         \/ i \in 1..Len(a) /\ i <= Len(a)
         \/ ~(i <= Len(a)) /\ i - Len(a) \in 1..Len(l)
  BY <1>4
<1>9. \A i \in 1..Len(a) : n[i] = a[i] /\ ShownOK(n[i]) /\ n[i].server # s
  <2> TAKE i \in 1..Len(a)
  <2>1. i \in 1..(Len(a) + Len(l)) /\ i <= Len(a)
    BY <1>4
  <2>2. n[i] = a[i] /\ ShownOK(a[i])
    BY <1>2, <1>7, <2>1 DEF NamesInv
  <2> QED
    BY <1>1, <2>2 DEF ShownOK
<1>10. \A i \in 1..(Len(a) + Len(l)) \ 1..Len(a) :
         /\ i - Len(a) \in 1..Len(l) /\ n[i].server = s /\ n[i].tool = l[i - Len(a)]
         /\ n[i].name \in {s \o n[i].tool, n[i].tool \o s}
  <2> TAKE i \in 1..(Len(a) + Len(l)) \ 1..Len(a)
  <2>1. i - Len(a) \in 1..Len(l) /\ n[i] = b[i - Len(a)]
    BY <1>7, <1>8
  <2> QED
    BY <1>5, <2>1
<1>11. \A i \in 1..Len(n) : ShownOK(n[i])'
  <2> TAKE i \in 1..Len(n)
  <2>1. CASE i \in 1..Len(a)
    BY <1>1, <1>9, <2>1 DEF ShownOK
  <2>2. CASE i \notin 1..Len(a)
    <3>1. i \in 1..(Len(a) + Len(l)) \ 1..Len(a)
      BY <1>7, <2>2
    <3>2. /\ n[i].server = s /\ n[i].tool = l[i - Len(a)] /\ i - Len(a) \in DOMAIN tools[s]
          /\ n[i].name \in {s \o n[i].tool, n[i].tool \o s}
      BY <1>2, <1>4, <1>10, <3>1
    <3>3. s \in DOMAIN tools' \ waiting'
      BY <1>1
    <3> QED
      BY <1>1, <1>2, <3>2, <3>3 DEF ShownOK
  <2> QED
    BY <2>1, <2>2
<1>12. ListsNoneTwice' =>
         \A i, j \in 1..Len(n) : n[i].server = n[j].server /\ n[i].tool = n[j].tool => i = j
  <2> SUFFICES ASSUME ListsNoneTwice', NEW i \in 1..Len(n), NEW j \in 1..Len(n),
                      n[i].server = n[j].server, n[i].tool = n[j].tool
               PROVE  i = j
    OBVIOUS
  <2>1. ListsNoneTwice
    BY <1>1 DEF ListsNoneTwice
  <2>2. i \in 1..(Len(a) + Len(l)) /\ j \in 1..(Len(a) + Len(l))
    BY <1>7
  <2>3. CASE i \in 1..Len(a) /\ j \in 1..Len(a)
    BY <1>2, <1>9, <2>1, <2>3 DEF NamesInv
  <2>4. CASE i \notin 1..Len(a) /\ j \notin 1..Len(a)
    <3>1. /\ i - Len(a) \in 1..Len(l) /\ j - Len(a) \in 1..Len(l)
          /\ l[i - Len(a)] = l[j - Len(a)]
      BY <1>10, <2>2, <2>4
    <3>2. i - Len(a) = j - Len(a)
      BY <1>1, <1>2, <1>4, <2>1, <3>1 DEF ListsNoneTwice
    <3> QED
      BY <1>4, <2>2, <3>2
  <2> QED
    BY <1>9, <1>10, <2>2, <2>3, <2>4
<1> QED
  BY <1>1, <1>6, <1>7, <1>11, <1>12 DEF NamesInv

\* GetAggregatedTools, for any servers and lists and whatever order the map
\* of the servers is in: no two tools get the same name, if no server lists a
\* name twice, none has a dot in its name, and none is what a tool's name
\* begins with.
THEOREM NamesTellToolsApart == NamesSpec => []ShownNamesDiffer
<1>1. NamesInit => NamesInv
  <2> SUFFICES ASSUME NamesInit PROVE NamesInv
    OBVIOUS
  <2>1. aggregated = <<>> /\ <<>> \in Seq(ShownTool) /\ Len(aggregated) = 0
    BY EmptySeq DEF NamesInit
  <2> QED
    BY <2>1 DEF NamesInit, NamesInv
<1>2. NamesInv /\ [NamesNext]_nameVars => NamesInv'
  <2>1. NamesInv /\ UNCHANGED nameVars => NamesInv'
    BY DEF NamesInv, nameVars, ShownOK, ListsNoneTwice
  <2> QED
    BY <2>1, VisitKeepsNames DEF NamesNext
<1>3. NamesInv => ShownNamesDiffer
  <2> SUFFICES ASSUME NamesInv, ListsNoneTwice, ServersStandApart,
                      NEW i \in DOMAIN aggregated, NEW j \in DOMAIN aggregated,
                      aggregated[i].name = aggregated[j].name
               PROVE  i = j
    BY DEF ShownNamesDiffer
  <2>1. i \in 1..Len(aggregated) /\ j \in 1..Len(aggregated)
    BY LenProperties DEF NamesInv
  <2>2. PICK d, e \in ShownTool : d = aggregated[i] /\ e = aggregated[j]
    BY <2>1, ElementOfSeq DEF NamesInv
  <2>3. /\ ShownOK(d) /\ ShownOK(e) /\ d.name = e.name
        /\ d.server \in DottedName /\ d.tool \in DottedName
        /\ e.server \in DottedName /\ e.tool \in DottedName
    BY <2>1, <2>2 DEF NamesInv, ShownTool
  <2>4. /\ Len(d.server) = 1 /\ Len(e.server) = 1
        /\ d.tool[1] # e.server[1] /\ e.tool[1] # d.server[1]
    <3>1. Head(d.tool) = d.tool[1] /\ Head(e.tool) = e.tool[1]
      BY <2>3, HeadTailProperties DEF DottedName
    <3>2. d.server \in DOMAIN tools /\ e.server \in DOMAIN tools
      BY <2>3 DEF ShownOK
    <3>3. PICK k \in DOMAIN tools[d.server] : d.tool = tools[d.server][k]
      BY <2>3 DEF ShownOK
    <3>4. PICK k2 \in DOMAIN tools[e.server] : e.tool = tools[e.server][k2]
      BY <2>3 DEF ShownOK
    <3>5. Len(d.server) = 1 /\ Len(e.server) = 1
      BY <3>2 DEF ServersStandApart
    <3>6. Head(d.tool) # e.server[1] /\ Head(e.tool) # d.server[1]
      BY <3>2, <3>3, <3>4 DEF ServersStandApart
    <3> QED
      BY <3>1, <3>5, <3>6
  <2>5. d.server = e.server /\ d.tool = e.tool
    <3>1. PICK n : /\ n \in {d.server \o d.tool, d.tool \o d.server}
                   /\ n \in {e.server \o e.tool, e.tool \o e.server}
      BY <2>3 DEF ShownOK
    <3>2. PICK s1, s2, t1, t2 \in DottedName :
             s1 = d.server /\ s2 = e.server /\ t1 = d.tool /\ t2 = e.tool
      BY <2>3
    <3>3. SharedName(n, s1, t1, s2, t2)
      BY <2>4, <3>1, <3>2 DEF SharedName
    <3>4. s1 = s2 /\ t1 = t2
      BY <3>3, JoinedNames
    <3> QED
      BY <3>2, <3>4
  <2> QED
    BY <2>1, <2>2, <2>5 DEF NamesInv
<1> QED
  BY <1>1, <1>2, <1>3, PTL DEF NamesSpec
=============================================================================
