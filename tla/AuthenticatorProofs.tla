------------------------ MODULE AuthenticatorProofs ------------------------
(***************************************************************************)
(* Proofs about Authenticator, for any requests, tokens, clients and       *)
(* lifetimes.                                                              *)
(*                                                                         *)
(* WorldOK is of the cache and the store, RequestOK of one request.  What  *)
(* a request holds rests on the world it is in: NextWorld says how far     *)
(* that may change under it, so that a step of one request is no concern   *)
(* of another.                                                             *)
(*                                                                         *)
(* The second half is about TokenCache, the list and map under that cache. *)
(***************************************************************************)
EXTENDS Authenticator, TokenCache, SequenceTheorems, FiniteSetTheorems,
        WellFoundedInduction, TLAPS

\* An identity for token t, with a session of its client.
Vouched(t, i) == i \in Ident /\ IdentityOf(t, i) /\ OwnsItsSession(i)

\* Until time e the store has the session, unless a logout deleted it.
Lasts(i, e) ==
    SessionsOutliveTokens =>
        \/ i.sid \in ended
        \/ now > e
        \/ i.sid \in DOMAIN sessions /\ e <= sessions[i.sid].expiresAt

StoreOK ==
    /\ DOMAIN issued \subseteq SessionId
    /\ \A s \in DOMAIN issued : issued[s] \in Client
    /\ DOMAIN sessions \subseteq DOMAIN issued
    /\ \A s \in DOMAIN sessions : sessions[s] \in Session /\ sessions[s].client = issued[s]
    /\ now \in Nat
    /\ valid \subseteq Token
    /\ ended \subseteq DOMAIN issued

EntryOK(t, e) ==
    /\ e \in [identity : Ident, expiresAt : Nat]
    /\ Vouched(t, e.identity)
    /\ e.expiresAt <= e.identity.validatedAt + TokenTTL + MaxDelay
    /\ Lasts(e.identity, e.expiresAt)

CacheOK ==
    /\ IsFiniteSet(DOMAIN cache) /\ Cardinality(DOMAIN cache) <= MaxSize
    /\ DOMAIN cache \subseteq Token
    /\ \A t \in DOMAIN cache : EntryOK(t, cache[t])

\* An identity built from an answer that is still recent.
Resolved(t, i) ==
    /\ i \in Ident
    /\ IdentityOf(t, i)
    /\ i.validatedAt <= now /\ now <= i.validatedAt + MaxDelay

\* What a request at p may carry.
Carries(p, t, i) ==
    /\ p \in Start \cup Authenticating \cup LoggingOut \cup Answered
    /\ t \in Token \cup {None} /\ i \in Ident \cup {None}
    /\ p # "idle" => t \in Token
    /\ p \in {"resolved", "created"} => Resolved(t, i)
    /\ p \in {"created", "accepted"} => Vouched(t, i)
    /\ p = "created" => Lasts(i, i.validatedAt + TokenTTL + MaxDelay)

RequestsOK ==
    /\ pc \in [Request -> Start \cup Authenticating \cup LoggingOut \cup Answered]
    /\ token \in [Request -> Token \cup {None}]
    /\ ident \in [Request -> Ident \cup {None}]
    /\ todo \in [Request -> SUBSET DOMAIN issued]
    /\ \A r \in Request : Carries(pc[r], token[r], ident[r])

Inv == StoreOK /\ CacheOK /\ RequestsOK

-----------------------------------------------------------------------------
LEMMA InitInv == Init => Inv
<1> SUFFICES ASSUME Init PROVE Inv
  OBVIOUS
<1>1. DOMAIN cache = {} /\ DOMAIN sessions = {} /\ DOMAIN issued = {}
  BY DEF Init, EmptyCache, NoSessions
<1>2. StoreOK
  BY <1>1 DEF Init, StoreOK
<1>3. CacheOK
  BY <1>1, FS_EmptySet, SizeAssumption DEF CacheOK
<1>4. RequestsOK
  BY DEF Init, RequestsOK, Carries, Start
<1> QED
  BY <1>2, <1>3, <1>4 DEF Inv

\* The steps that touch the session store.
StoreStep ==
    \/ \E id \in SessionId, c \in Client : Create(id, c) /\ UNCHANGED <<now, valid, ended>>
    \/ \E s \in DOMAIN issued : Delete(s) /\ ended' = ended \cup {s} /\ UNCHANGED <<now, valid>>
    \/ RemoveExpired /\ UNCHANGED <<now, valid, ended>>
    \/ now' = now + 1 /\ UNCHANGED <<sessions, issued, valid, ended>>
    \/ valid' \subseteq valid /\ UNCHANGED <<sessions, issued, now, ended>>

LEMMA NextStoreStep == ASSUME Inv, [Next]_vars PROVE StoreStep
<1>1. ASSUME NEW r \in Request, CreateSession(r)
      PROVE  StoreStep
  <2>1. pc[r] = "resolved" /\ ident[r] \in Ident
    BY <1>1 DEF CreateSession, Go, Inv, RequestsOK, Carries, Resolved
  <2>2. ident[r].client \in Client
    BY <2>1 DEF Ident
  <2> QED
    BY <1>1, <2>2 DEF CreateSession, StoreStep
<1>2. ASSUME NEW r \in Request, DeleteSession(r)
      PROVE  StoreStep
  <2>1. todo[r] \subseteq DOMAIN issued
    BY DEF Inv, RequestsOK
  <2> QED
    BY <1>2, <2>1 DEF DeleteSession, StoreStep
<1>3. CASE CleanSessions
  BY <1>3 DEF CleanSessions, StoreStep
<1>4. CASE Tick
  BY <1>4 DEF Tick, StoreStep
<1>5. ASSUME UNCHANGED <<sessions, issued, now, ended>>, valid' \subseteq valid
      PROVE  StoreStep
  BY <1>5 DEF StoreStep
<1> QED
  BY <1>1, <1>2, <1>3, <1>4, <1>5 DEF Next, Handle, Arrive, CacheHit, CacheMiss, LogoutHit,
     LogoutMiss, FetchAdmitted, FetchRefused, CreateFails, CachePut, LogoutFetched,
     LogoutRefused, ListSessions, ForgetToken, Respond, CleanTokens, Revoke, vars, handler

LEMMA NextStoreOK == ASSUME StoreOK, StoreStep PROVE StoreOK'
<1> USE DEF StoreOK
<1>1. ASSUME NEW id \in SessionId, NEW c \in Client, Create(id, c), UNCHANGED <<now, valid, ended>>
      PROVE  StoreOK'
  <2>1. NewSession(c) \in Session /\ NewSession(c).client = c
    BY SessionTTLAssumption DEF NewSession, Session
  <2> QED
    BY <1>1, <2>1 DEF Create, With
<1>2. ASSUME NEW s \in DOMAIN issued, Delete(s), ended' = ended \cup {s}, UNCHANGED <<now, valid>>
      PROVE  StoreOK'
  BY <1>2 DEF Delete, Removing
<1>3. CASE RemoveExpired /\ UNCHANGED <<now, valid, ended>>
  BY <1>3 DEF RemoveExpired, Removing
<1> QED
  BY <1>1, <1>2, <1>3 DEF StoreStep

\* What was said of an identity stays true.
LEMMA OwnedStays ==
  ASSUME StoreOK, StoreStep, NEW i, OwnsItsSession(i)
  PROVE  OwnsItsSession(i)'
<1>1. DOMAIN issued \subseteq DOMAIN issued' /\ \A s \in DOMAIN issued : issued'[s] = issued[s]
  BY DEF StoreStep, Create, With, Delete, RemoveExpired
<1> QED
  BY <1>1 DEF OwnsItsSession

LEMMA LastsStays ==
  ASSUME StoreOK, StoreStep, NEW i, OwnsItsSession(i), NEW e \in Nat, Lasts(i, e)
  PROVE  Lasts(i, e)'
<1> SUFFICES ASSUME SessionsOutliveTokens
             PROVE  \/ i.sid \in ended'
                    \/ now' > e
                    \/ i.sid \in DOMAIN sessions' /\ e <= sessions'[i.sid].expiresAt
  BY DEF Lasts, SessionsOutliveTokens
<1>1. now \in Nat
  BY DEF StoreOK
<1>2. ended \subseteq ended' /\ now' \in {now, now + 1}
  BY DEF StoreStep
<1>3. CASE i.sid \in ended
  BY <1>2, <1>3
<1>4. CASE now > e
  BY <1>1, <1>2, <1>4
<1>5. CASE i.sid \in DOMAIN sessions /\ e <= sessions[i.sid].expiresAt
  <2>1. sessions[i.sid].expiresAt \in Nat
    BY <1>5 DEF StoreOK, Session
  <2>2. ASSUME NEW id \in SessionId, NEW c \in Client, Create(id, c)
        PROVE  i.sid \in DOMAIN sessions' /\ sessions'[i.sid] = sessions[i.sid]
    BY <1>5, <2>2 DEF Create, With, StoreOK
  <2>3. ASSUME NEW s, Delete(s), ended' = ended \cup {s}
        PROVE  i.sid \in ended' \/ (i.sid \in DOMAIN sessions' /\ sessions'[i.sid] = sessions[i.sid])
    BY <1>5, <2>3 DEF Delete, Removing
  <2>4. ASSUME RemoveExpired, UNCHANGED now
        PROVE  now' > e \/ (i.sid \in DOMAIN sessions' /\ sessions'[i.sid] = sessions[i.sid])
    BY <1>1, <1>5, <2>1, <2>4 DEF RemoveExpired, Removing, IsExpired
  <2> QED
    BY <1>5, <2>2, <2>3, <2>4 DEF StoreStep
<1> QED
  BY <1>3, <1>4, <1>5 DEF Lasts

-----------------------------------------------------------------------------
\* An identity that may be held stays one.
LEMMA VouchedStays ==
  ASSUME StoreOK, StoreStep, NEW t, NEW i, Vouched(t, i)
  PROVE  Vouched(t, i)'
BY OwnedStays DEF Vouched, IdentityOf

LEMMA EntryStays ==
  ASSUME StoreOK, StoreStep, NEW t, NEW e, EntryOK(t, e)
  PROVE  EntryOK(t, e)'
<1>1. e.expiresAt \in Nat /\ OwnsItsSession(e.identity)
  BY DEF EntryOK, Vouched
<1>2. Lasts(e.identity, e.expiresAt)'
  BY <1>1, LastsStays DEF EntryOK
<1> QED
  BY <1>2, VouchedStays DEF EntryOK

\* put leaves no more entries than fit, and each of those it leaves is one
\* that was there or the one put.
LEMMA PutFits ==
  ASSUME NEW old, IsFiniteSet(DOMAIN old), Cardinality(DOMAIN old) <= MaxSize,
         NEW k, NEW e, NEW new \in PutResults(old, k, e)
  PROVE  /\ IsFiniteSet(DOMAIN new) /\ Cardinality(DOMAIN new) <= MaxSize
         /\ DOMAIN new \subseteq DOMAIN old \cup {k}
         /\ \A x \in DOMAIN new : new[x] = IF x = k THEN e ELSE old[x]
<1>1. PICK kept \in KeptKeys(old, k) :
         new = [x \in kept \cup {k} |-> IF x = k THEN e ELSE old[x]]
  BY DEF PutResults
<1>2. kept \subseteq DOMAIN old
  BY DEF KeptKeys
<1>3. IsFiniteSet(kept) /\ Cardinality(DOMAIN old) \in Nat /\ Cardinality(kept) \in Nat
  BY <1>2, FS_Subset, FS_CardinalityType
<1>4. IsFiniteSet(kept \cup {k}) /\ Cardinality(kept \cup {k}) <= MaxSize
  <2>1. CASE k \in DOMAIN old
    <3>1. kept = DOMAIN old /\ kept \cup {k} = kept
      BY <2>1 DEF KeptKeys
    <3> QED
      BY <1>3, <3>1
  <2>2. CASE k \notin DOMAIN old
    <3>1. Cardinality(kept) < MaxSize
      <4>1. CASE Cardinality(DOMAIN old) < MaxSize
        BY <2>2, <4>1 DEF KeptKeys
      <4>2. CASE ~(Cardinality(DOMAIN old) < MaxSize)
        <5>1. PICK victim \in DOMAIN old : kept = DOMAIN old \ {victim}
          BY <2>2, <4>2 DEF KeptKeys
        <5>2. Cardinality(kept) = Cardinality(DOMAIN old) - 1
          BY <5>1, FS_RemoveElement
        <5> QED
          BY <1>3, <5>2, SizeAssumption
      <4> QED
        BY <4>1, <4>2
    <3>2. Cardinality(kept \cup {k}) \in {Cardinality(kept), Cardinality(kept) + 1}
      BY <1>3, FS_AddElement
    <3> QED
      BY <1>3, <3>1, <3>2, FS_AddElement, SizeAssumption
  <2> QED
    BY <2>1, <2>2
<1> QED
  BY <1>1, <1>2, <1>4

\* The steps that touch the cache: they forget, or put what a request made.
CacheStep ==
    \/ \E K \in SUBSET Token : cache' = Drop(cache, K)
    \/ UNCHANGED cache
    \/ \E r \in Request :
          /\ pc[r] = "created" /\ UNCHANGED <<sessions, now, ended, issued>>
          /\ cache' \in PutResults(cache, token[r],
                            [identity |-> ident[r], expiresAt |-> now + TokenTTL])

LEMMA NextCacheStep == ASSUME Inv, [Next]_vars PROVE CacheStep
<1>1. ASSUME NEW r \in Request, CachePut(r)
      PROVE  CacheStep
  BY <1>1 DEF CachePut, Go, CacheStep
<1>2. ASSUME NEW r \in Request, ForgetToken(r)
      PROVE  CacheStep
  <2>1. token[r] \in Token
    BY <1>2 DEF ForgetToken, Go, Inv, RequestsOK, Carries
  <2> QED
    BY <1>2, <2>1 DEF ForgetToken, CacheStep
<1>3. ASSUME NEW r \in Request, NEW t \in Token, Arrive(r, t)
      PROVE  CacheStep
  BY <1>3 DEF Arrive, CacheHit, CacheMiss, LogoutHit, LogoutMiss, CacheStep
<1>4. CASE CleanTokens
  <2>1. \A at : ExpiredKeys(cache, at) \in SUBSET Token
    BY DEF ExpiredKeys, Inv, CacheOK
  <2> QED
    BY <1>4, <2>1 DEF CleanTokens, CacheStep
<1>5. CASE UNCHANGED cache
  BY <1>5 DEF CacheStep
<1> QED
  BY <1>1, <1>2, <1>3, <1>4, <1>5 DEF Next, Handle, FetchAdmitted, FetchRefused, CreateSession,
     CreateFails, LogoutFetched, LogoutRefused, ListSessions, DeleteSession, Respond,
     CleanSessions, Revoke, Tick, vars

LEMMA NextCacheOK == ASSUME Inv, StoreStep, CacheStep PROVE CacheOK'
<1>1. StoreOK /\ CacheOK
  BY DEF Inv
<1>2. \A t, e : EntryOK(t, e) => EntryOK(t, e)'
  BY <1>1, EntryStays
<1>3. ASSUME NEW K, cache' = Drop(cache, K)
      PROVE  CacheOK'
  <2>1. DOMAIN cache' \subseteq DOMAIN cache /\ \A t \in DOMAIN cache' : cache'[t] = cache[t]
    BY <1>3 DEF Drop
  <2>2. IsFiniteSet(DOMAIN cache') /\ Cardinality(DOMAIN cache') <= Cardinality(DOMAIN cache)
    BY <1>1, <2>1, FS_Subset DEF CacheOK
  <2>3. Cardinality(DOMAIN cache') \in Nat /\ Cardinality(DOMAIN cache) \in Nat
    BY <1>1, <2>2, FS_CardinalityType DEF CacheOK
  <2> QED
    BY <1>1, <1>2, <2>1, <2>2, <2>3, SizeAssumption DEF CacheOK
<1>4. CASE UNCHANGED cache
  BY <1>1, <1>2, <1>4 DEF CacheOK
<1>5. ASSUME NEW r \in Request, pc[r] = "created", UNCHANGED <<sessions, now, ended, issued>>,
             cache' \in PutResults(cache, token[r],
                          [identity |-> ident[r], expiresAt |-> now + TokenTTL])
      PROVE  CacheOK'
  <2> DEFINE i == ident[r]
             e == [identity |-> i, expiresAt |-> now + TokenTTL]
  <2>1. /\ token[r] \in Token /\ Resolved(token[r], i) /\ Vouched(token[r], i)
        /\ Lasts(i, i.validatedAt + TokenTTL + MaxDelay)
    BY <1>5 DEF Inv, RequestsOK, Carries
  <2>2. now \in Nat /\ i.validatedAt \in Nat /\ now <= i.validatedAt + MaxDelay
    BY <1>1, <2>1 DEF StoreOK, Resolved, Ident
  <2>3. Lasts(i, now + TokenTTL)
    <3>1. ASSUME i.sid \in DOMAIN sessions
          PROVE  sessions[i.sid].expiresAt \in Nat
      BY <1>1, <3>1 DEF StoreOK, Session
    <3> QED
      BY <2>1, <2>2, <3>1, AuthAssumption DEF Lasts
  <2>4. EntryOK(token[r], e)
    BY <2>1, <2>2, <2>3, AuthAssumption DEF EntryOK, Resolved
  <2> HIDE DEF e, i
  <2>5. /\ IsFiniteSet(DOMAIN cache') /\ Cardinality(DOMAIN cache') <= MaxSize
        /\ DOMAIN cache' \subseteq DOMAIN cache \cup {token[r]}
        /\ \A x \in DOMAIN cache' : cache'[x] = IF x = token[r] THEN e ELSE cache[x]
    BY <1>1, <1>5, PutFits DEF CacheOK, e, i
  <2>6. \A t \in DOMAIN cache' : EntryOK(t, cache'[t])
    BY <1>1, <2>4, <2>5 DEF CacheOK
  <2>7. (\A t \in DOMAIN cache : EntryOK(t, cache[t]))'
    BY <1>2, <2>6
  <2> QED
    BY <1>1, <2>1, <2>5, <2>7 DEF CacheOK
<1> QED
  BY <1>3, <1>4, <1>5 DEF CacheStep

-----------------------------------------------------------------------------
\* What a request carries it may go on to carry while the clock stands still.
LEMMA CarriesStays ==
  ASSUME StoreOK, StoreStep, UNCHANGED now, NEW p, NEW t, NEW i, Carries(p, t, i)
  PROVE  Carries(p, t, i)'
<1>1. CASE p = "created"
  <2>1. i \in Ident /\ OwnsItsSession(i)
    BY <1>1 DEF Carries, Vouched
  <2>2. i.validatedAt + TokenTTL + MaxDelay \in Nat
    BY <2>1, AuthAssumption DEF Ident
  <2>3. Lasts(i, i.validatedAt + TokenTTL + MaxDelay)'
    BY <1>1, <2>1, <2>2, LastsStays DEF Carries
  <2> QED
    BY <1>1, <2>3, VouchedStays DEF Carries, Resolved, IdentityOf
<1>2. CASE p # "created"
  BY <1>2, VouchedStays DEF Carries, Resolved, IdentityOf
<1> QED
  BY <1>1, <1>2

\* Request r goes to p with token t and identity i.
MovesTo(r, p, t, i) ==
    /\ pc' = [pc EXCEPT ![r] = p]
    /\ token' = [token EXCEPT ![r] = t]
    /\ ident' = [ident EXCEPT ![r] = i]
    /\ todo' \in [Request -> SUBSET DOMAIN issued']

LEMMA MoveKeeps ==
  ASSUME Inv, StoreStep, UNCHANGED now, NEW r \in Request, NEW p, NEW t, NEW i,
         MovesTo(r, p, t, i), Carries(p, t, i)'
  PROVE  RequestsOK'
<1>1. \A x \in Request : Carries(pc[x], token[x], ident[x])
  BY DEF Inv, RequestsOK
<1>2. \A p1, t1, i1 : Carries(p1, t1, i1) => Carries(p1, t1, i1)'
  BY CarriesStays DEF Inv
<1>3. /\ p \in Start \cup Authenticating \cup LoggingOut \cup Answered
      /\ t \in Token \cup {None} /\ i \in Ident \cup {None}
  BY DEF Carries
<1>4. /\ pc' \in [Request -> Start \cup Authenticating \cup LoggingOut \cup Answered]
      /\ token' \in [Request -> Token \cup {None}]
      /\ ident' \in [Request -> Ident \cup {None}]
  BY <1>3 DEF MovesTo, Inv, RequestsOK
<1>5. ASSUME NEW x \in Request
      PROVE  Carries(pc[x], token[x], ident[x])'
  <2>1. CASE x = r
    <3>1. pc'[x] = p /\ token'[x] = t /\ ident'[x] = i
      BY <2>1 DEF MovesTo, Inv, RequestsOK
    <3> QED
      BY <3>1
  <2>2. CASE x # r
    <3>1. pc'[x] = pc[x] /\ token'[x] = token[x] /\ ident'[x] = ident[x]
      BY <2>2 DEF MovesTo, Inv, RequestsOK
    <3> QED
      BY <1>1, <1>2, <3>1
  <2> QED
    BY <2>1, <2>2
<1> QED
  BY <1>4, <1>5 DEF MovesTo, RequestsOK

LEMMA NextRequestsOK == ASSUME Inv, [Next]_vars PROVE RequestsOK'
<1> DEFINE Old(r) == Carries(pc[r], token[r], ident[r])
<1>1. StoreOK /\ CacheOK /\ RequestsOK /\ StoreStep /\ \A r \in Request : Old(r)
  BY NextStoreStep DEF Inv, RequestsOK
<1>2. ASSUME UNCHANGED issued
      PROVE  todo \in [Request -> SUBSET DOMAIN issued']
  BY <1>1, <1>2 DEF RequestsOK
<1>3. ASSUME NEW r \in Request, UNCHANGED <<now, todo>>, UNCHANGED issued,
             NEW p, NEW t, NEW i, Carries(p, t, i),
             pc' = [pc EXCEPT ![r] = p],
             token' = [token EXCEPT ![r] = t],
             ident' = [ident EXCEPT ![r] = i]
      PROVE  RequestsOK'
  <2>1. Carries(p, t, i)'
    BY <1>1, <1>3, CarriesStays
  <2> QED
    BY <1>1, <1>2, <1>3, <2>1, MoveKeeps DEF MovesTo
<1>4. ASSUME NEW r \in Request, NEW t \in Token, CacheHit(r, t) \/ LogoutHit(r, t)
      PROVE  RequestsOK'
  <2>1. EntryOK(t, cache[t])
    BY <1>1, <1>4 DEF CacheHit, LogoutHit, Live, CacheOK
  <2>2. Vouched(t, cache[t].identity)
    BY <2>1 DEF EntryOK
  <2>3. /\ Carries("accepted", t, cache[t].identity)
        /\ Carries("logoutListing", t, cache[t].identity)
    BY <2>2 DEF Carries, Vouched, Start, Authenticating, LoggingOut, Answered
  <2> QED
    BY <1>3, <1>4, <2>3 DEF CacheHit, LogoutHit, Go
<1>5. ASSUME NEW r \in Request, FetchAdmitted(r) \/ LogoutFetched(r)
      PROVE  RequestsOK'
  <2> DEFINE i == [client |-> Owner[token[r]], sid |-> None, validatedAt |-> now]
  <2>1. token[r] \in Token /\ now \in Nat
    BY <1>1, <1>5 DEF FetchAdmitted, LogoutFetched, Go, Carries, StoreOK
  <2>2. i \in Ident /\ now <= i.validatedAt + MaxDelay
    BY <2>1, AuthAssumption DEF Ident
  <2>3. CASE FetchAdmitted(r)
    <3>1. Carries("resolved", token[r], i)
      BY <2>1, <2>2, <2>3 DEF FetchAdmitted, Carries, Resolved, IdentityOf, Start,
         Authenticating, LoggingOut, Answered
    <3>2. token' = [token EXCEPT ![r] = token[r]]
      BY <1>1, <2>3 DEF FetchAdmitted, RequestsOK
    <3> QED
      BY <1>3, <2>3, <3>1, <3>2 DEF FetchAdmitted, Go
  <2>4. CASE LogoutFetched(r)
    <3>1. Carries("logoutListing", token[r], i)
      BY <2>1, <2>2 DEF Carries, Start, Authenticating, LoggingOut, Answered
    <3>2. token' = [token EXCEPT ![r] = token[r]]
      BY <1>1, <2>4 DEF LogoutFetched, RequestsOK
    <3> QED
      BY <1>3, <2>4, <3>1, <3>2 DEF LogoutFetched, Go
  <2> QED
    BY <1>5, <2>3, <2>4
<1>6. ASSUME NEW r \in Request, CreateSession(r)
      PROVE  RequestsOK'
  <2>1. PICK id \in SessionId : /\ Create(id, ident[r].client)
                                /\ ident' = [ident EXCEPT ![r].sid = id]
    BY <1>6 DEF CreateSession
  <2>2. PICK t, old, i : t = token[r] /\ old = ident[r] /\ i = [old EXCEPT !.sid = id]
    OBVIOUS
  <2>3. pc[r] = "resolved" /\ t \in Token /\ Resolved(t, old)
    BY <1>1, <1>6, <2>2 DEF CreateSession, Go, Carries
  <2>4. /\ i \in Ident /\ i.sid = id
        /\ i.client = old.client /\ i.validatedAt = old.validatedAt
    BY <2>2, <2>3 DEF Resolved, Ident
  <2>5. /\ id \in DOMAIN issued' /\ issued'[id] = i.client
        /\ id \in DOMAIN sessions' /\ sessions'[id].expiresAt = now + SessionTTL
    BY <2>1, <2>2, <2>4 DEF Create, With, NewSession
  <2>6. now \in Nat /\ i.validatedAt \in Nat /\ now' = now
    BY <1>1, <1>6, <2>4 DEF StoreOK, Ident, CreateSession
  <2>7. Resolved(t, i)'
    BY <2>3, <2>4, <2>6 DEF Resolved, IdentityOf
  <2>8. Lasts(i, i.validatedAt + TokenTTL + MaxDelay)'
    BY <2>4, <2>5, <2>6, <2>7, AuthAssumption, SessionTTLAssumption
       DEF Lasts, SessionsOutliveTokens, Resolved
  <2>9. Vouched(t, i)'
    BY <2>4, <2>5, <2>7 DEF Vouched, Resolved, IdentityOf, OwnsItsSession
  <2>10. Carries("created", t, i)'
    BY <2>3, <2>4, <2>7, <2>8, <2>9 DEF Carries, Start, Authenticating, LoggingOut, Answered
  <2>11. MovesTo(r, "created", t, i)
    <3>1. DOMAIN issued \subseteq DOMAIN issued'
      BY <2>1 DEF Create, With
    <3>2. todo' \in [Request -> SUBSET DOMAIN issued']
      BY <1>1, <1>6, <3>1 DEF CreateSession, RequestsOK
    <3>3. ident' = [ident EXCEPT ![r] = i]
      BY <1>1, <2>1, <2>2 DEF RequestsOK
    <3> QED
      BY <1>1, <1>6, <2>2, <3>2, <3>3 DEF CreateSession, Go, MovesTo, RequestsOK
  <2> QED
    BY <1>1, <2>6, <2>10, <2>11, MoveKeeps
<1>7. ASSUME NEW r \in Request, NEW t \in Token, CacheMiss(r, t) \/ LogoutMiss(r, t)
      PROVE  RequestsOK'
  <2>1. Carries("fetching", t, ident[r]) /\ Carries("logoutFetching", t, ident[r])
    BY <1>1 DEF RequestsOK, Carries, Start, Authenticating, LoggingOut, Answered
  <2>2. ident' = [ident EXCEPT ![r] = ident[r]]
    BY <1>1, <1>7 DEF RequestsOK, CacheMiss, LogoutMiss
  <2> QED
    BY <1>3, <1>7, <2>1, <2>2 DEF CacheMiss, LogoutMiss, Go
<1>8. ASSUME NEW r \in Request, UNCHANGED <<now, issued, todo, token, ident>>,
             \/ pc[r] # "idle" /\ pc' = [pc EXCEPT ![r] = "rejected"]
             \/ pc[r] = "created" /\ pc' = [pc EXCEPT ![r] = "accepted"]
             \/ pc[r] # "idle" /\ pc' = [pc EXCEPT ![r] = "loggedOut"]
      PROVE  RequestsOK'
  <2>1. token' = [token EXCEPT ![r] = token[r]] /\ ident' = [ident EXCEPT ![r] = ident[r]]
    BY <1>1, <1>8 DEF RequestsOK
  <2>2. Old(r)
    BY <1>1
  <2>3. PICK p : Carries(p, token[r], ident[r]) /\ pc' = [pc EXCEPT ![r] = p]
    BY <1>8, <2>2 DEF Carries, Start, Authenticating, LoggingOut, Answered
  <2> QED
    BY <1>3, <1>8, <2>1, <2>3
<1>9. ASSUME NEW r \in Request, Respond(r)
      PROVE  RequestsOK'
  <2>1. Carries("idle", None, None)
    BY DEF Carries, Start
  <2> QED
    BY <1>3, <1>9, <2>1 DEF Respond
<1>10. ASSUME NEW r \in Request, ListSessions(r) \/ DeleteSession(r)
       PROVE  RequestsOK'
  <2>1. PICK p : p \in {"logoutDeleting", pc[r]} /\ pc' = [pc EXCEPT ![r] = p]
    BY <1>1, <1>10 DEF ListSessions, DeleteSession, Go, RequestsOK
  <2>2. pc[r] # "idle"
    BY <1>10 DEF ListSessions, DeleteSession, Go
  <2>3. Carries(p, token[r], ident[r])'
    <3>1. Old(r)
      BY <1>1
    <3>2. Carries(p, token[r], ident[r])
      BY <2>1, <2>2, <3>1 DEF Carries, Start, Authenticating, LoggingOut, Answered
    <3> QED
      BY <1>1, <1>10, <3>2, CarriesStays DEF ListSessions, DeleteSession
  <2>4. todo' \in [Request -> SUBSET DOMAIN issued']
    <3>1. issued' = issued
      BY <1>10 DEF ListSessions, DeleteSession, Delete
    <3>2. ActiveSessions(ident[r].client) \subseteq DOMAIN issued
      BY <1>1 DEF ActiveSessions, StoreOK
    <3> QED
      BY <1>1, <1>10, <3>1, <3>2 DEF ListSessions, DeleteSession, RequestsOK
  <2>5. MovesTo(r, p, token[r], ident[r])
    BY <1>1, <1>10, <2>1, <2>4 DEF ListSessions, DeleteSession, MovesTo, RequestsOK
  <2> QED
    BY <1>1, <1>10, <2>3, <2>5, MoveKeeps DEF ListSessions, DeleteSession
<1>11. ASSUME UNCHANGED <<now, issued, handler>>
       PROVE  RequestsOK'
  <2>1. ASSUME NEW r \in Request
        PROVE  Carries(pc[r], token[r], ident[r])'
    <3>1. Old(r)
      BY <1>1
    <3>2. PICK p, t, i : p = pc[r] /\ t = token[r] /\ i = ident[r]
      OBVIOUS
    <3>3. Carries(p, t, i)'
      BY <1>1, <1>11, <3>1, <3>2, CarriesStays
    <3> QED
      BY <1>11, <3>2, <3>3 DEF handler
  <2> QED
    BY <1>1, <1>11, <2>1 DEF RequestsOK, handler
<1>12. ASSUME Tick
       PROVE  RequestsOK'
  <2>1. now \in Nat /\ now' = now + 1 /\ UNCHANGED <<pc, token, ident, todo, issued>>
    BY <1>1, <1>12 DEF Tick, StoreOK, handler
  <2>2. ASSUME NEW r \in Request
        PROVE  Carries(pc[r], token[r], ident[r])'
    <3>1. Old(r)
      BY <1>1
    <3>2. CASE pc[r] \in {"resolved", "created"}
      <4>1. ident[r] \in Ident /\ now < ident[r].validatedAt + MaxDelay
        BY <1>12, <3>1, <3>2 DEF Tick, Carries, Resolved
      <4>2. ident[r].validatedAt \in Nat /\ ident[r].validatedAt <= now
        BY <3>1, <3>2 DEF Carries, Resolved, Ident
      <4>3. Resolved(token[r], ident[r])'
        BY <2>1, <3>1, <3>2, <4>1, <4>2, AuthAssumption DEF Carries, Resolved, IdentityOf
      <4>4. CASE pc[r] = "created"
        <5>1. OwnsItsSession(ident[r]) /\ Vouched(token[r], ident[r])
          BY <3>1, <4>4 DEF Carries, Vouched
        <5>2. ident[r].validatedAt + TokenTTL + MaxDelay \in Nat
          BY <4>2, AuthAssumption
        <5>3. PICK i, e : i = ident[r] /\ e = i.validatedAt + TokenTTL + MaxDelay
          OBVIOUS
        <5>4. Lasts(i, e)'
          BY <1>1, <3>1, <4>4, <5>1, <5>2, <5>3, LastsStays DEF Carries
        <5>5. Vouched(token[r], ident[r])'
          BY <2>1, <5>1 DEF Vouched, IdentityOf, OwnsItsSession
        <5> QED
          BY <2>1, <3>1, <4>3, <4>4, <5>3, <5>4, <5>5 DEF Carries, Lasts
      <4> QED
        BY <2>1, <3>1, <3>2, <4>3, <4>4 DEF Carries
    <3>3. CASE pc[r] \notin {"resolved", "created"}
      BY <2>1, <3>1, <3>3 DEF Carries, Vouched, IdentityOf, OwnsItsSession
    <3> QED
      BY <3>2, <3>3
  <2> QED
    BY <1>1, <2>1, <2>2 DEF RequestsOK
<1> QED
  BY <1>4, <1>5, <1>6, <1>7, <1>8, <1>9, <1>10, <1>11, <1>12
     DEF Next, Handle, Arrive, FetchRefused, CreateFails, CachePut, LogoutRefused, ForgetToken,
         Go, CleanSessions, RemoveExpired, CleanTokens, Revoke, vars, handler

LEMMA NextInv == ASSUME Inv, [Next]_vars PROVE Inv'
<1>1. StoreStep /\ CacheStep /\ StoreOK
  BY NextStoreStep, NextCacheStep DEF Inv
<1> QED
  BY <1>1, NextStoreOK, NextCacheOK, NextRequestsOK DEF Inv

-----------------------------------------------------------------------------
(* Whoever is accepted is the owner of the token, is not turned away by    *)
(* the restrictions, and has a session of their own; and while sessions    *)
(* outlive cached tokens the store still has the session of every token    *)
(* that the cache accepts.                                                 *)
THEOREM OwnersAreAccepted == Spec => []AcceptedIsTheClient
<1>1. Inv /\ [Next]_vars => Inv'
  BY NextInv
<1>2. Inv => AcceptedIsTheClient
  <2> SUFFICES ASSUME Inv PROVE AcceptedIsTheClient
    OBVIOUS
  <2> USE DEF Inv
  <2>1. TypeOK
    BY DEF StoreOK, CacheOK, RequestsOK, EntryOK, TypeOK
  <2>2. AcceptedAsTheOwner
    BY DEF CacheOK, EntryOK, RequestsOK, Carries, Vouched, AcceptedAsTheOwner
  <2>3. SessionIsTheClients
    BY DEF StoreOK, CacheOK, EntryOK, RequestsOK, Carries, Vouched, SessionIsTheClients
  <2>4. CachedSessionsExist
    <3>1. ASSUME SessionsOutliveTokens, NEW t \in Token, Live(cache, t, now)
          PROVE  cache[t].identity.sid \in DOMAIN sessions \cup ended
      <4>1. Lasts(cache[t].identity, cache[t].expiresAt) /\ cache[t].expiresAt \in Nat
        BY <3>1 DEF Live, CacheOK, EntryOK
      <4> QED
        BY <3>1, <4>1 DEF Live, Lasts, StoreOK
    <3> QED
      BY <3>1 DEF CachedSessionsExist
  <2> QED
    BY <2>1, <2>2, <2>3, <2>4 DEF AcceptedIsTheClient
<1> QED
  BY InitInv, <1>1, <1>2, PTL DEF Spec

(* A token is accepted on an answer of the provider no older than the      *)
(* token's lifetime and the delay of one request, revoked or not.          *)
THEOREM AnswersAreRecent == Spec => AcceptedOnRecentAnswer
<1>1. Inv /\ [Next]_vars => Inv'
  BY NextInv
<1>2. Inv /\ [Next]_vars =>
        [\A r \in Request :
            pc[r] # "accepted" /\ pc'[r] = "accepted" =>
                now <= ident'[r].validatedAt + TokenTTL + MaxDelay]_vars
  <2>1. ASSUME Inv, Next, NEW r \in Request, pc[r] # "accepted", pc'[r] = "accepted"
        PROVE  now <= ident'[r].validatedAt + TokenTTL + MaxDelay
    <3>1. (\E t \in Token : CacheHit(r, t)) \/ CachePut(r)
      <4>1. pc'[r] # pc[r] /\ pc \in [Request -> Start \cup Authenticating \cup LoggingOut \cup Answered]
        BY <2>1 DEF Inv, RequestsOK
      <4>2. ASSUME NEW x \in Request, Handle(x)
            PROVE  CachePut(r)
        BY <2>1, <4>1, <4>2 DEF Handle, FetchAdmitted, FetchRefused, CreateSession, CreateFails,
           CachePut, LogoutFetched, LogoutRefused, ListSessions, DeleteSession, ForgetToken,
           Respond, Go
      <4>3. ASSUME NEW x \in Request, NEW t \in Token, Arrive(x, t)
            PROVE  CacheHit(r, t)
        BY <2>1, <4>1, <4>3 DEF Arrive, CacheHit, CacheMiss, LogoutHit, LogoutMiss, Go
      <4>4. ~UNCHANGED pc
        BY <4>1
      <4> QED
        BY <2>1, <4>2, <4>3, <4>4 DEF Next, Revoke, Tick, CleanSessions, CleanTokens, handler
    <3>2. ASSUME NEW t \in Token, CacheHit(r, t)
          PROVE  now <= ident'[r].validatedAt + TokenTTL + MaxDelay
      <4>1. EntryOK(t, cache[t]) /\ now <= cache[t].expiresAt /\ now \in Nat
        BY <2>1, <3>2 DEF CacheHit, Live, Inv, CacheOK, StoreOK
      <4>2. ident'[r] = cache[t].identity
        BY <2>1, <3>2 DEF CacheHit, Inv, RequestsOK
      <4>3. cache[t].identity.validatedAt \in Nat /\ cache[t].expiresAt \in Nat
        BY <4>1 DEF EntryOK, Ident
      <4> QED
        BY <4>1, <4>2, <4>3, AuthAssumption DEF EntryOK
    <3>3. CASE CachePut(r)
      <4>1. Resolved(token[r], ident[r]) /\ ident'[r] = ident[r] /\ now \in Nat
        BY <2>1, <3>3 DEF CachePut, Go, Inv, RequestsOK, Carries, StoreOK
      <4> QED
        BY <4>1, AuthAssumption DEF Resolved, Ident
    <3> QED
      BY <3>1, <3>2, <3>3
  <2> QED
    BY <2>1
<1> QED
  BY InitInv, <1>1, <1>2, PTL DEF Spec, AcceptedOnRecentAnswer

-----------------------------------------------------------------------------
(* TokenCache, for any tokens, identities, size and lifetime.              *)
(*                                                                         *)
(* Filter is a recursive function: what it returns is proved by induction  *)
(* over the prefixes of the list, and induction from there being a least   *)
(* natural number among those that are an exception.                       *)

LEMMA LeastNatural ==
  ASSUME NEW T, T \subseteq Nat, T # {}
  PROVE  \E n \in T : \A m \in T : n <= m
<1>1. PICK n \in T : \A m \in T : ~(<<m, n>> \in OpToRel(<, Nat))
  BY NatLessThanWellFounded, WFMin
<1>2. \A m \in T : m < n => <<m, n>> \in OpToRel(<, Nat)
  BY DEF OpToRel
<1>3. \A m \in T : ~(m < n)
  BY <1>1, <1>2, Zenon
<1> QED
  BY <1>3

LEMMA Induction ==
  ASSUME NEW S, 0 \in S, \A n \in Nat : n \in S => n + 1 \in S
  PROVE  Nat \subseteq S
<1> SUFFICES ASSUME Nat \ S # {} PROVE FALSE
  OBVIOUS
<1>1. PICK n \in Nat \ S : \A m \in Nat \ S : n <= m
  BY LeastNatural
<1>2. n - 1 \in Nat
  BY <1>1
<1> QED
  BY <1>1, <1>2

KeptStep(s, T, f, i) ==
    IF i = 0 THEN <<>>
    ELSE IF s[i] \in T THEN Append(f[i - 1], s[i])
    ELSE f[i - 1]

\* f[i] is what is kept of the first i nodes, for i up to n.
KeepsTo(s, T, n, f) == f = [i \in 0..n |-> KeptStep(s, T, f, i)]

LEMMA FilterIsDefined ==
  ASSUME NEW s, NEW T, Len(s) \in Nat
  PROVE  \E f : KeepsTo(s, T, Len(s), f) /\ Filter(s, T) = f[Len(s)]
<1> DEFINE S == {n \in Nat : \E f : KeepsTo(s, T, n, f)}
<1>1. 0 \in S
  <2>1. KeepsTo(s, T, 0, [i \in 0..0 |-> <<>>])
    BY DEF KeepsTo, KeptStep
  <2> QED
    BY <2>1
<1>2. ASSUME NEW n \in Nat, n \in S PROVE n + 1 \in S
  <2>1. PICK f : KeepsTo(s, T, n, f)
    BY <1>2
  <2> DEFINE x == KeptStep(s, T, f, n + 1)
             g == [i \in 0..n + 1 |-> IF i = n + 1 THEN x ELSE f[i]]
  <2>2. \A i \in 0..n : f[i] = KeptStep(s, T, f, i)
    BY <2>1 DEF KeepsTo
  <2>3. \A i \in 0..n + 1 : i # 0 => i - 1 \in 0..n /\ g[i - 1] = f[i - 1]
    OBVIOUS
  <2>4. \A i \in 0..n + 1 : KeptStep(s, T, g, i) = KeptStep(s, T, f, i)
    BY <2>3 DEF KeptStep
  <2>5. \A i \in 0..n + 1 : g[i] = KeptStep(s, T, g, i)
    BY <2>2, <2>4
  <2> HIDE DEF x
  <2>6. KeepsTo(s, T, n + 1, g)
    BY <2>5 DEF KeepsTo
  <2> QED
    BY <2>6
<1> HIDE DEF S
<1>3. Len(s) \in S
  BY <1>1, <1>2, Induction
<1>4. \E f : KeepsTo(s, T, Len(s), f)
  BY <1>3 DEF S
<1>5. Filter(s, T) = (CHOOSE f : KeepsTo(s, T, Len(s), f))[Len(s)]
  BY DEF Filter, KeepsTo, KeptStep
<1> QED
  BY <1>4, <1>5, Zenon

\* r is the elements of T among the first n of s, in their order.
Picks(r, s, T, n) ==
    \E e \in [1..Len(r) -> 1..n] :
        /\ \A i, j \in 1..Len(r) : i < j => e[i] < e[j]
        /\ \A j \in 1..Len(r) : r[j] = s[e[j]] /\ s[e[j]] \in T
        /\ \A i \in 1..n : s[i] \in T => \E j \in 1..Len(r) : e[j] = i

LEMMA FilterPicks ==
  ASSUME NEW S, NEW s \in Seq(S), NEW T
  PROVE  LET r == Filter(s, T)
         IN  /\ r \in Seq(S) /\ Len(r) <= Len(s) /\ Picks(r, s, T, Len(s))
             /\ (\E i \in 1..Len(s) : s[i] \notin T) => Len(r) < Len(s)
<1>0. Len(s) \in Nat
  BY LenProperties
<1>1. PICK f : KeepsTo(s, T, Len(s), f) /\ Filter(s, T) = f[Len(s)]
  BY <1>0, FilterIsDefined
<1>2. \A i \in 0..Len(s) : f[i] = KeptStep(s, T, f, i)
  BY <1>1 DEF KeepsTo
<1> DEFINE Good(r, n) ==
             /\ r \in Seq(S) /\ Len(r) <= n /\ Picks(r, s, T, n)
             /\ (\E i \in 1..n : s[i] \notin T) => Len(r) < n
           N == {n \in Nat : n <= Len(s) => Good(f[n], n)}
<1>3. 0 \in N
  <2>1. f[0] = <<>>
    BY <1>0, <1>2 DEF KeptStep
  <2>2. PICK r \in Seq(S) : r = <<>> /\ Len(r) = 0
    BY EmptySeq
  <2>3. Picks(r, s, T, 0)
    <3>1. 1..Len(r) = {} /\ 1..0 = {}
      BY <2>2
    <3>2. [j \in 1..Len(r) |-> 0] \in [1..Len(r) -> 1..0]
      BY <3>1
    <3> QED
      BY <3>1, <3>2, Zenon DEF Picks
  <2>4. Good(r, 0)
    BY <2>2, <2>3
  <2> QED
    BY <2>1, <2>2, <2>4
<1>4. ASSUME NEW n \in Nat, n \in N PROVE n + 1 \in N
  <2> SUFFICES ASSUME n + 1 <= Len(s) PROVE Good(f[n + 1], n + 1)
    OBVIOUS
  <2>1. PICK r \in Seq(S) : r = f[n] /\ Good(r, n)
    BY <1>0, <1>4
  <2>2. Len(r) \in Nat /\ Len(r) <= n /\ s[n + 1] \in S
    BY <1>0, <2>1, LenProperties, ElementOfSeq
  <2>3. PICK e \in [1..Len(r) -> 1..n] :
              /\ \A i, j \in 1..Len(r) : i < j => e[i] < e[j]
              /\ \A j \in 1..Len(r) : r[j] = s[e[j]] /\ s[e[j]] \in T
              /\ \A i \in 1..n : s[i] \in T => \E j \in 1..Len(r) : e[j] = i
    BY <2>1 DEF Picks
  <2>4. f[n + 1] = IF s[n + 1] \in T THEN Append(r, s[n + 1]) ELSE r
    BY <1>0, <1>2, <2>1 DEF KeptStep
  <2>5. CASE s[n + 1] \notin T
    <3>1. e \in [1..Len(r) -> 1..n + 1]
      BY <2>2
    <3>2. \A i \in 1..n + 1 : s[i] \in T => i \in 1..n
      BY <2>5
    <3>3. Picks(r, s, T, n + 1)
      BY <2>3, <3>1, <3>2 DEF Picks
    <3> QED
      BY <2>1, <2>2, <2>4, <2>5, <3>3
  <2>6. CASE s[n + 1] \in T
    <3>1. PICK q \in Seq(S) : q = Append(r, s[n + 1])
      BY <2>1, <2>2, AppendProperties
    <3>2. /\ Len(q) = Len(r) + 1 /\ q[Len(r) + 1] = s[n + 1]
          /\ \A j \in 1..Len(r) : q[j] = r[j]
      BY <2>2, <3>1, AppendProperties
    <3> DEFINE d == [j \in 1..Len(q) |-> IF j = Len(r) + 1 THEN n + 1 ELSE e[j]]
    <3>5. 1..Len(q) = 1..Len(r) \cup {Len(r) + 1} /\ Len(r) + 1 \notin 1..Len(r)
      BY <2>2, <3>2
    <3>4. d[Len(r) + 1] = n + 1 /\ \A j \in 1..Len(r) : d[j] = e[j] /\ d[j] \in 1..n
      BY <2>2, <2>3, <3>5
    <3>3. d \in [1..Len(q) -> 1..n + 1]
      <4>1. \A j \in 1..Len(q) : d[j] \in 1..n + 1
        BY <3>4, <3>5
      <4> QED
        BY <4>1
    <3> HIDE DEF d
    <3>6. \A i, j \in 1..Len(q) : i < j => d[i] < d[j]
      <4> SUFFICES ASSUME NEW i \in 1..Len(q), NEW j \in 1..Len(q), i < j PROVE d[i] < d[j]
        OBVIOUS
      <4>1. i \in 1..Len(r) /\ (j \in 1..Len(r) \/ j = Len(r) + 1)
        BY <2>2, <3>2
      <4>2. CASE j \in 1..Len(r)
        BY <2>3, <3>4, <4>1, <4>2
      <4>3. CASE j = Len(r) + 1
        BY <3>4, <4>1, <4>3
      <4> QED
        BY <4>1, <4>2, <4>3
    <3>7. \A j \in 1..Len(q) : q[j] = s[d[j]] /\ s[d[j]] \in T
      BY <2>3, <2>6, <3>2, <3>4, <3>5
    <3>8. \A i \in 1..n + 1 : s[i] \in T => \E j \in 1..Len(q) : d[j] = i
      <4>1. \A i \in 1..n + 1 : i = n + 1 \/ i \in 1..n
        OBVIOUS
      <4> QED
        BY <2>3, <3>4, <3>5, <4>1
    <3>9. Picks(q, s, T, n + 1)
      BY <3>3, <3>6, <3>7, <3>8 DEF Picks
    <3>10. (\E i \in 1..n + 1 : s[i] \notin T) => \E i \in 1..n : s[i] \notin T
      BY <2>6
    <3> QED
      BY <2>1, <2>2, <2>4, <2>6, <3>1, <3>2, <3>9, <3>10
  <2> QED
    BY <2>5, <2>6
<1> HIDE DEF N
<1>5. Len(s) \in N
  BY <1>0, <1>3, <1>4, Induction
<1> QED
  BY <1>0, <1>1, <1>5 DEF N

\* The nodes are in order of their keys' last use; so no key is there twice.
Ordered(nodes, at) ==
    \A i, j \in 1..Len(nodes) : i < j => at[nodes[i].key] > at[nodes[j].key]

\* Some of the nodes, in the same order.
SomeOf(r, nodes, at) ==
    /\ r \in Seq(Node) /\ Len(r) <= Len(nodes) /\ Ordered(r, at)
    /\ \A j \in 1..Len(r) : \E i \in 1..Len(nodes) : r[j] = nodes[i]

LEMMA FilterIsSome ==
  ASSUME NEW nodes \in Seq(Node), NEW at, Ordered(nodes, at), NEW T
  PROVE  \E r \in Seq(Node) :
             /\ r = Filter(nodes, T) /\ SomeOf(r, nodes, at)
             /\ \A n \in Node : (\E j \in 1..Len(r) : r[j] = n)
                                   <=> n \in T /\ \E i \in 1..Len(nodes) : nodes[i] = n
             /\ (\E i \in 1..Len(nodes) : nodes[i] \notin T) => Len(r) < Len(nodes)
<1>1. PICK r \in Seq(Node) :
         /\ r = Filter(nodes, T) /\ Len(r) <= Len(nodes) /\ Picks(r, nodes, T, Len(nodes))
         /\ (\E i \in 1..Len(nodes) : nodes[i] \notin T) => Len(r) < Len(nodes)
  BY FilterPicks
<1>2. PICK e \in [1..Len(r) -> 1..Len(nodes)] :
         /\ \A i, j \in 1..Len(r) : i < j => e[i] < e[j]
         /\ \A j \in 1..Len(r) : r[j] = nodes[e[j]] /\ nodes[e[j]] \in T
         /\ \A i \in 1..Len(nodes) : nodes[i] \in T => \E j \in 1..Len(r) : e[j] = i
  BY <1>1 DEF Picks
<1>3. Ordered(r, at)
  <2> SUFFICES ASSUME NEW i \in 1..Len(r), NEW j \in 1..Len(r), i < j
               PROVE  at[r[i].key] > at[r[j].key]
    BY DEF Ordered
  <2>1. e[i] \in 1..Len(nodes) /\ e[j] \in 1..Len(nodes) /\ e[i] < e[j]
    BY <1>2
  <2>2. r[i] = nodes[e[i]] /\ r[j] = nodes[e[j]]
    BY <1>2
  <2>3. at[nodes[e[i]].key] > at[nodes[e[j]].key]
    BY <2>1 DEF Ordered
  <2> QED
    BY <2>2, <2>3
<1>4. \A j \in 1..Len(r) : \E i \in 1..Len(nodes) : r[j] = nodes[i] /\ r[j] \in T
  BY <1>2
<1>5. \A i \in 1..Len(nodes) : nodes[i] \in T => \E j \in 1..Len(r) : r[j] = nodes[i]
  BY <1>2
<1>6. SomeOf(r, nodes, at)
  BY <1>1, <1>3, <1>4 DEF SomeOf
<1>7. \A n \in Node : (\E j \in 1..Len(r) : r[j] = n)
                          <=> n \in T /\ \E i \in 1..Len(nodes) : nodes[i] = n
  BY <1>4, <1>5
<1> QED
  BY <1>1, <1>6, <1>7

LEMMA FrontIsSome ==
  ASSUME NEW nodes \in Seq(Node), NEW at, Ordered(nodes, at), nodes # <<>>
  PROVE  /\ SomeOf(Front(nodes), nodes, at) /\ Len(Front(nodes)) = Len(nodes) - 1
         /\ \A i \in 1..Len(nodes) - 1 : Front(nodes)[i] = nodes[i]
         /\ Last(nodes) = nodes[Len(nodes)] /\ Len(nodes) \in Nat \ {0}
<1>1. Len(nodes) \in Nat \ {0}
  BY EmptySeq, LenProperties
<1>2. PICK r : r = Front(nodes)
  OBVIOUS
<1>3. r \in Seq(Node) /\ Len(r) = Len(nodes) - 1 /\ \A i \in 1..Len(nodes) - 1 : r[i] = nodes[i]
  <2>1. \A i \in 1..Len(nodes) - 1 : nodes[i] \in Node
    BY <1>1, ElementOfSeq
  <2>2. PICK m \in Nat : m = Len(nodes) - 1
    BY <1>1
  <2>3. /\ SubSeq(nodes, 1, m) \in Seq(Node) /\ Len(SubSeq(nodes, 1, m)) = m
        /\ \A i \in 1..m : SubSeq(nodes, 1, m)[i] = nodes[i]
    <3>1. /\ SubSeq(nodes, 1, m) \in Seq(Node)
          /\ Len(SubSeq(nodes, 1, m)) = IF 1 <= m THEN m - 1 + 1 ELSE 0
          /\ \A i \in 1..m - 1 + 1 : SubSeq(nodes, 1, m)[i] = nodes[1 + i - 1]
      BY <2>1, <2>2, SubSeqProperties
    <3> QED
      BY <3>1
  <2>4. r = SubSeq(nodes, 1, m)
    BY <1>2, <2>2 DEF Front
  <2> QED
    BY <2>2, <2>3, <2>4
<1>4. Ordered(r, at)
  BY <1>1, <1>3 DEF Ordered
<1>5. \A j \in 1..Len(r) : \E i \in 1..Len(nodes) : r[j] = nodes[i]
  BY <1>1, <1>3
<1> QED
  BY <1>1, <1>2, <1>3, <1>4, <1>5 DEF SomeOf, Last

LEMMA PushFront ==
  ASSUME NEW n \in Node, NEW r \in Seq(Node), NEW at \in [Token -> Int], NEW u \in Int,
         Ordered(r, at), \A k \in Token : at[k] < u,
         \A j \in 1..Len(r) : r[j].key # n.key
  PROVE  LET q == <<n>> \o r
         IN  /\ q \in Seq(Node) /\ Len(q) = Len(r) + 1 /\ Len(r) \in Nat
             /\ \A j \in 1..Len(q) : q[j] = IF j = 1 THEN n ELSE r[j - 1]
             /\ Ordered(q, [at EXCEPT ![n.key] = u])
             /\ Keys(q) = Keys(r) \cup {n.key}
<1>1. <<n>> \in Seq(Node) /\ Len(<<n>>) = 1 /\ <<n>>[1] = n /\ Len(r) \in Nat
  BY LenProperties
<1>2. PICK q : q = <<n>> \o r
  OBVIOUS
<1>3. /\ q \in Seq(Node) /\ Len(q) = Len(r) + 1
      /\ \A j \in 1..Len(q) : q[j] = IF j = 1 THEN n ELSE r[j - 1]
  BY <1>1, <1>2, ConcatProperties
<1>4. \A j \in 1..Len(r) : r[j] \in Node /\ q[j + 1] = r[j]
  BY <1>1, <1>3, ElementOfSeq
<1>5. DOMAIN q = 1..Len(q) /\ DOMAIN r = 1..Len(r)
  BY <1>3, LenProperties
<1>6. Ordered(q, [at EXCEPT ![n.key] = u])
  <2> DEFINE bt == [at EXCEPT ![n.key] = u]
  <2>1. /\ n.key \in Token /\ bt[n.key] = u
        /\ \A j \in 1..Len(r) : r[j].key \in Token /\ bt[r[j].key] = at[r[j].key]
    BY <1>4 DEF Node
  <2> HIDE DEF bt
  <2> SUFFICES ASSUME NEW i \in 1..Len(q), NEW j \in 1..Len(q), i < j
               PROVE  bt[q[i].key] > bt[q[j].key]
    BY DEF Ordered, bt
  <2>2. j - 1 \in 1..Len(r) /\ q[j] = r[j - 1]
    BY <1>1, <1>3
  <2>3. CASE i = 1
    <3>1. at[r[j - 1].key] < u
      BY <2>1, <2>2
    <3> QED
      BY <1>3, <2>1, <2>2, <2>3, <3>1
  <2>4. CASE i # 1
    <3>1. i - 1 \in 1..Len(r) /\ q[i] = r[i - 1] /\ i - 1 < j - 1
      BY <1>1, <1>3, <2>4
    <3> QED
      BY <2>1, <2>2, <3>1 DEF Ordered
  <2> QED
    BY <2>3, <2>4
<1>7. Keys(q) = Keys(r) \cup {n.key}
  <2>1. \A j \in 1..Len(q) : j = 1 \/ j - 1 \in 1..Len(r)
    BY <1>1, <1>3
  <2>2. 1 \in 1..Len(q) /\ q[1] = n /\ \A j \in 1..Len(r) : j + 1 \in 1..Len(q)
    BY <1>1, <1>3
  <2>3. \A j \in 1..Len(q) : q[j].key \in Keys(r) \cup {n.key}
    BY <1>3, <1>5, <2>1 DEF Keys
  <2>4. n.key \in Keys(q) /\ \A j \in 1..Len(r) : r[j].key \in Keys(q)
    BY <1>4, <1>5, <2>2 DEF Keys
  <2> QED
    BY <1>5, <2>3, <2>4 DEF Keys
<1> QED
  BY <1>1, <1>2, <1>3, <1>6, <1>7

\* The entry that a node is for its key.
Entry(n) == [identity |-> n.identity, expiresAt |-> n.expiresAt]

NodeIn(nodes, k) == CHOOSE n \in ToSet(nodes) : n.key = k

Content(nodes) == [k \in Keys(nodes) |-> Entry(NodeIn(nodes, k))]

LEMMA OneNodePerKey ==
  ASSUME NEW nodes \in Seq(Node), NEW at \in [Token -> Int], Ordered(nodes, at)
  PROVE  /\ \A i, j \in 1..Len(nodes) : nodes[i].key = nodes[j].key => i = j
         /\ \A i \in 1..Len(nodes) : NodeIn(nodes, nodes[i].key) = nodes[i]
         /\ \A i \in 1..Len(nodes) : nodes[i].key \in Keys(nodes) /\ nodes[i].key \in Token
         /\ \A k \in Keys(nodes) : \E i \in 1..Len(nodes) : nodes[i].key = k
         /\ \A n : n \in ToSet(nodes) <=> \E i \in 1..Len(nodes) : nodes[i] = n
<1>1. DOMAIN nodes = 1..Len(nodes) /\ Len(nodes) \in Nat
  BY LenProperties
<1>2. \A i \in 1..Len(nodes) : nodes[i].key \in Token /\ at[nodes[i].key] \in Int
  <2>1. \A i \in 1..Len(nodes) : nodes[i] \in Node
    BY ElementOfSeq
  <2> QED
    BY <2>1 DEF Node
<1>3. \A i, j \in 1..Len(nodes) : nodes[i].key = nodes[j].key => i = j
  <2> SUFFICES ASSUME NEW i \in 1..Len(nodes), NEW j \in 1..Len(nodes), i # j
               PROVE  nodes[i].key # nodes[j].key
    OBVIOUS
  <2>1. at[nodes[i].key] # at[nodes[j].key]
    <3>1. i < j \/ j < i
      BY <1>1
    <3> QED
      BY <1>2, <3>1 DEF Ordered
  <2> QED
    BY <2>1
<1>4. \A n : n \in ToSet(nodes) <=> \E i \in 1..Len(nodes) : nodes[i] = n
  BY <1>1 DEF ToSet
<1>5. ASSUME NEW i \in 1..Len(nodes) PROVE NodeIn(nodes, nodes[i].key) = nodes[i]
  <2>1. nodes[i] \in ToSet(nodes)
    BY <1>4
  <2>2. \A n \in ToSet(nodes) : n.key = nodes[i].key => n = nodes[i]
    BY <1>3, <1>4
  <2> QED
    BY <2>1, <2>2 DEF NodeIn
<1> QED
  BY <1>1, <1>2, <1>3, <1>4, <1>5 DEF Keys

LEMMA ContentOfSome ==
  ASSUME NEW nodes \in Seq(Node), NEW at \in [Token -> Int], Ordered(nodes, at),
         NEW r, SomeOf(r, nodes, at)
  PROVE  /\ Keys(r) \subseteq Keys(nodes)
         /\ Content(r) = [k \in Keys(r) |-> Content(nodes)[k]]
<1>1. /\ \A i \in 1..Len(nodes) : NodeIn(nodes, nodes[i].key) = nodes[i]
      /\ \A i \in 1..Len(nodes) : nodes[i].key \in Keys(nodes)
  BY OneNodePerKey
<1>2. r \in Seq(Node) /\ Ordered(r, at)
  BY DEF SomeOf
<1>3. /\ \A j \in 1..Len(r) : NodeIn(r, r[j].key) = r[j]
      /\ \A k \in Keys(r) : \E j \in 1..Len(r) : r[j].key = k
  BY <1>2, OneNodePerKey
<1>4. ASSUME NEW k \in Keys(r)
      PROVE  k \in Keys(nodes) /\ NodeIn(r, k) = NodeIn(nodes, k)
  <2>1. PICK j \in 1..Len(r) : r[j].key = k
    BY <1>3
  <2>2. PICK i \in 1..Len(nodes) : r[j] = nodes[i]
    BY DEF SomeOf
  <2> QED
    BY <1>1, <1>3, <2>1, <2>2
<1> QED
  BY <1>4 DEF Content

LEMMA ContentOfPush ==
  ASSUME NEW n \in Node, NEW r \in Seq(Node), NEW at \in [Token -> Int], NEW u \in Int,
         Ordered(r, at), \A k \in Token : at[k] < u,
         \A j \in 1..Len(r) : r[j].key # n.key
  PROVE  Content(<<n>> \o r) = [k \in Keys(r) \cup {n.key} |->
                                   IF k = n.key THEN Entry(n) ELSE Content(r)[k]]
<1>1. PICK q \in Seq(Node) :
         /\ q = <<n>> \o r /\ Len(q) = Len(r) + 1 /\ Len(r) \in Nat
         /\ \A j \in 1..Len(q) : q[j] = IF j = 1 THEN n ELSE r[j - 1]
         /\ Ordered(q, [at EXCEPT ![n.key] = u])
         /\ Keys(q) = Keys(r) \cup {n.key}
  BY PushFront
<1>2. PICK bt \in [Token -> Int] : bt = [at EXCEPT ![n.key] = u]
  OBVIOUS
<1>3. \A j \in 1..Len(q) : NodeIn(q, q[j].key) = q[j]
  BY <1>1, <1>2, OneNodePerKey
<1>4. /\ \A j \in 1..Len(r) : NodeIn(r, r[j].key) = r[j]
      /\ \A k \in Keys(r) : \E j \in 1..Len(r) : r[j].key = k
  BY OneNodePerKey
<1>5. NodeIn(q, n.key) = n
  <2>1. 1 \in 1..Len(q) /\ q[1] = n
    BY <1>1
  <2> QED
    BY <1>3, <2>1
<1>6. ASSUME NEW k \in Keys(r) PROVE NodeIn(q, k) = NodeIn(r, k)
  <2>1. PICK j \in 1..Len(r) : r[j].key = k
    BY <1>4
  <2>2. j + 1 \in 1..Len(q) /\ q[j + 1] = r[j]
    BY <1>1
  <2> QED
    BY <1>3, <1>4, <2>1, <2>2
<1>7. Content(q) = [k \in Keys(r) \cup {n.key} |->
                       IF k = n.key THEN Entry(n) ELSE Content(r)[k]]
  BY <1>1, <1>5, <1>6 DEF Content
<1> QED
  BY <1>1, <1>7

LEMMA CountKeys ==
  ASSUME NEW nodes \in Seq(Node), NEW at \in [Token -> Int], Ordered(nodes, at)
  PROVE  IsFiniteSet(Keys(nodes)) /\ Cardinality(Keys(nodes)) = Len(nodes)
<1>1. /\ \A i, j \in 1..Len(nodes) : nodes[i].key = nodes[j].key => i = j
      /\ \A i \in 1..Len(nodes) : nodes[i].key \in Keys(nodes)
      /\ \A k \in Keys(nodes) : \E i \in 1..Len(nodes) : nodes[i].key = k
  BY OneNodePerKey
<1>2. Len(nodes) \in Nat
  BY LenProperties
<1> DEFINE f == [i \in 1..Len(nodes) |-> nodes[i].key]
<1>3. f \in Bijection(1..Len(nodes), Keys(nodes))
  BY <1>1 DEF Bijection, Injection, Surjection, IsInjective
<1>4. ExistsBijection(1..Len(nodes), Keys(nodes))
  BY <1>3 DEF ExistsBijection
<1> QED
  BY <1>2, <1>4, FS_CountingElements, FS_NatBijection

-----------------------------------------------------------------------------
(* The steps of TokenCache.                                                *)

CacheInv ==
    /\ CacheTypeOK
    /\ Keys(list) = items /\ Len(list) <= MaxSize
    /\ Ordered(list, usedAt)
    /\ EntriesAreCurrent
    /\ \A k \in Token : usedAt[k] <= uses
    /\ sweep <= clock

LEMMA CacheFacts ==
  CacheInv =>
      /\ list \in Seq(Node) /\ usedAt \in [Token -> Int] /\ Ordered(list, usedAt)
      /\ Len(list) \in Nat /\ MaxSize \in Nat \ {0} /\ DOMAIN list = 1..Len(list)
      /\ uses + 1 \in Nat /\ \A k \in Token : usedAt[k] \in Nat /\ usedAt[k] < uses + 1
      /\ \A i \in 1..Len(list) : list[i] \in Node /\ list[i].identity = lastPut[list[i].key]
<1> SUFFICES ASSUME CacheInv
             PROVE  /\ list \in Seq(Node) /\ usedAt \in [Token -> Int] /\ Ordered(list, usedAt)
                    /\ Len(list) \in Nat /\ MaxSize \in Nat \ {0} /\ DOMAIN list = 1..Len(list)
                    /\ uses + 1 \in Nat
                    /\ \A k \in Token : usedAt[k] \in Nat /\ usedAt[k] < uses + 1
                    /\ \A i \in 1..Len(list) :
                          list[i] \in Node /\ list[i].identity = lastPut[list[i].key]
  OBVIOUS
<1>1. /\ list \in Seq(Node) /\ usedAt \in [Token -> 0..MaxUses] /\ uses \in 0..MaxUses
      /\ \A k \in Token : usedAt[k] <= uses
  BY DEF CacheInv, CacheTypeOK
<1>2. Len(list) \in Nat /\ DOMAIN list = 1..Len(list)
  BY <1>1, LenProperties
<1>3. uses \in Nat /\ \A k \in Token : usedAt[k] \in Nat
  BY <1>1, TimesAssumption
<1>4. \A i \in 1..Len(list) : list[i] \in Node
  BY <1>1, ElementOfSeq
<1>5. usedAt \in [Token -> Int]
  BY <1>1, <1>3
<1>6. \A i \in 1..Len(list) : list[i].identity = lastPut[list[i].key]
  BY <1>2 DEF CacheInv, EntriesAreCurrent
<1> QED
  BY <1>1, <1>2, <1>3, <1>4, <1>5, <1>6, SizeAssumption DEF CacheInv

\* get, delete and cleanup: some nodes go, the others stay as they are.
LEMMA DroppingKeepsInv ==
  ASSUME CacheInv, NEW r, SomeOf(r, list, usedAt), list' = r, items' = Keys(r),
         UNCHANGED history, clock' \in clock..MaxClock,
         answer' \in Identity \cup {NoIdentity}, sweep' \in {NoSweep, sweep, clock}
  PROVE  CacheInv'
<1>0. /\ CacheTypeOK /\ Len(list) <= MaxSize /\ \A k \in Token : usedAt[k] <= uses
      /\ sweep <= clock
  BY DEF CacheInv
<1>1. /\ Len(list) \in Nat /\ MaxSize \in Nat
      /\ \A i \in 1..Len(list) : list[i] \in Node /\ list[i].identity = lastPut[list[i].key]
  BY CacheFacts
<1>2. /\ r \in Seq(Node) /\ Len(r) <= Len(list) /\ Ordered(r, usedAt)
      /\ \A j \in 1..Len(r) : \E i \in 1..Len(list) : r[j] = list[i]
  BY DEF SomeOf
<1>3. Len(r) \in Nat /\ DOMAIN r = 1..Len(r)
  BY <1>2, LenProperties
<1>4. \A j \in 1..Len(r) : r[j].identity = lastPut[r[j].key] /\ r[j] \in Node
  BY <1>1, <1>2
<1>5. Keys(r) \subseteq Token
  BY <1>3, <1>4 DEF Keys, Node
<1>6. uses' = uses /\ usedAt' = usedAt /\ lastPut' = lastPut
  BY DEF history
<1>7. CacheTypeOK'
  <2>1. clock \in 0..MaxClock /\ sweep \in {NoSweep} \cup 0..MaxClock /\ MaxClock \in Nat
    BY <1>0, TimesAssumption DEF CacheTypeOK
  <2>2. clock' \in 0..MaxClock /\ sweep' \in {NoSweep} \cup 0..MaxClock
    BY <2>1
  <2> QED
    BY <1>0, <1>2, <1>5, <1>6, <2>2 DEF CacheTypeOK
<1>8. sweep' <= clock'
  BY <1>0, TimesAssumption DEF CacheTypeOK, NoSweep
<1>9. EntriesAreCurrent'
  BY <1>3, <1>4, <1>6 DEF EntriesAreCurrent
<1>10. Len(list') <= MaxSize /\ Ordered(list', usedAt')
  BY <1>0, <1>1, <1>2, <1>3, <1>6
<1> QED
  BY <1>0, <1>6, <1>7, <1>8, <1>9, <1>10 DEF CacheInv

\* put and a hit: a node goes to the front, before some of the others.
LEMMA PushingKeepsInv ==
  ASSUME CacheInv, NEW k \in Token, NEW n \in Node, n.key = k,
         NEW r, SomeOf(r, list, usedAt), Len(r) < MaxSize, k \notin Keys(r),
         list' = <<n>> \o r, items' = Keys(r) \cup {k}, RecordUse(k),
         n.identity = lastPut'[k], lastPut' \in [Token -> Identity \cup {NoIdentity}],
         \A t \in Token \ {k} : lastPut'[t] = lastPut[t],
         UNCHANGED <<clock, sweep>>, answer' \in Identity \cup {NoIdentity}
  PROVE  CacheInv'
<1>0. CacheTypeOK /\ (\A t \in Token : usedAt[t] <= uses) /\ sweep <= clock
  BY DEF CacheInv
<1>1. /\ Len(list) \in Nat /\ MaxSize \in Nat /\ usedAt \in [Token -> Int]
      /\ uses + 1 \in Nat /\ \A t \in Token : usedAt[t] \in Nat /\ usedAt[t] < uses + 1
      /\ \A i \in 1..Len(list) : list[i] \in Node /\ list[i].identity = lastPut[list[i].key]
  BY CacheFacts
<1>2. /\ r \in Seq(Node) /\ Ordered(r, usedAt)
      /\ \A j \in 1..Len(r) : \E i \in 1..Len(list) : r[j] = list[i]
  BY DEF SomeOf
<1>3. Len(r) \in Nat /\ DOMAIN r = 1..Len(r)
  BY <1>2, LenProperties
<1>4. \A j \in 1..Len(r) : /\ r[j].identity = lastPut[r[j].key] /\ r[j].key \in Token
                           /\ r[j].key # k
  <2> SUFFICES ASSUME NEW j \in 1..Len(r)
               PROVE  /\ r[j].identity = lastPut[r[j].key] /\ r[j].key \in Token
                      /\ r[j].key # k
    OBVIOUS
  <2>1. PICK i \in 1..Len(list) : r[j] = list[i]
    BY <1>2
  <2>2. r[j] \in Node /\ r[j].identity = lastPut[r[j].key]
    BY <1>1, <2>1
  <2>3. r[j].key \in Keys(r)
    BY <1>3 DEF Keys
  <2> QED
    BY <2>2, <2>3 DEF Node
<1>5. PICK q \in Seq(Node) :
         /\ q = list' /\ Len(q) = Len(r) + 1
         /\ \A j \in 1..Len(q) : q[j] = IF j = 1 THEN n ELSE r[j - 1]
         /\ Ordered(q, [usedAt EXCEPT ![k] = uses + 1])
         /\ Keys(q) = Keys(r) \cup {k}
  <2>1. PICK u \in Int, at \in [Token -> Int] : u = uses + 1 /\ at = usedAt
    BY <1>1
  <2>2. r \in Seq(Node) /\ Ordered(r, at) /\ \A t \in Token : at[t] < u
    BY <1>1, <1>2, <2>1
  <2>3. \A j \in 1..Len(r) : r[j].key # n.key
    BY <1>4
  <2>4. LET q == <<n>> \o r
        IN  /\ q \in Seq(Node) /\ Len(q) = Len(r) + 1 /\ Len(r) \in Nat
            /\ \A j \in 1..Len(q) : q[j] = IF j = 1 THEN n ELSE r[j - 1]
            /\ Ordered(q, [at EXCEPT ![n.key] = u])
            /\ Keys(q) = Keys(r) \cup {n.key}
    BY <2>2, <2>3, PushFront
  <2> QED
    BY <2>1, <2>4
<1>6. uses' = uses + 1 /\ usedAt' = [usedAt EXCEPT ![k] = uses + 1] /\ uses < MaxUses
  BY DEF RecordUse
<1>7. DOMAIN q = 1..Len(q) /\ \A j \in 1..Len(q) : q[j].key \in Token
  <2>1. \A j \in 1..Len(q) : q[j] \in Node
    BY ElementOfSeq
  <2> QED
    BY <2>1, LenProperties DEF Node
<1>8. Keys(q) \subseteq Token
  BY <1>7 DEF Keys
<1>9. CacheTypeOK'
  <2>1. uses' \in 0..MaxUses /\ usedAt' \in [Token -> 0..MaxUses]
    <3>1. uses + 1 \in 0..MaxUses
      BY <1>0, <1>6, TimesAssumption DEF CacheTypeOK
    <3> QED
      BY <1>0, <1>6, <3>1 DEF CacheTypeOK
  <2> QED
    BY <1>0, <1>5, <1>8, <2>1 DEF CacheTypeOK
<1>10. \A j \in 1..Len(q) : q[j].identity = lastPut'[q[j].key]
  <2>1. \A j \in 1..Len(q) : j = 1 \/ j - 1 \in 1..Len(r)
    BY <1>3, <1>5
  <2>2. \A j \in 1..Len(r) : r[j].identity = lastPut'[r[j].key]
    BY <1>4
  <2>3. ASSUME NEW j \in 1..Len(q) PROVE q[j].identity = lastPut'[q[j].key]
    <3>1. CASE j = 1
      BY <1>5, <3>1
    <3>2. CASE j # 1
      BY <1>5, <2>1, <2>2, <3>2
    <3> QED
      BY <3>1, <3>2
  <2> QED
    BY <2>3
<1>11. EntriesAreCurrent'
  BY <1>5, <1>7, <1>10 DEF EntriesAreCurrent
<1>12. \A t \in Token : usedAt'[t] <= uses'
  BY <1>1, <1>6
<1>13. Len(list') <= MaxSize
  BY <1>1, <1>3, <1>5
<1> QED
  BY <1>0, <1>5, <1>6, <1>9, <1>11, <1>12, <1>13 DEF CacheInv

LEMMA WithoutIs ==
  ASSUME CacheInv, NEW k
  PROVE  /\ SomeOf(Without(k), list, usedAt)
         /\ Keys(Without(k)) = items \ {k}
         /\ k \in items => Len(Without(k)) < Len(list)
<1>1. /\ list \in Seq(Node) /\ usedAt \in [Token -> Int] /\ Ordered(list, usedAt)
      /\ DOMAIN list = 1..Len(list)
  BY CacheFacts
<1>2. Keys(list) = items
  BY DEF CacheInv
<1> DEFINE T == {n \in ToSet(list) : n.key # k}
<1>3. PICK l \in Seq(Node), at \in [Token -> Int], S \in SUBSET T :
         l = list /\ at = usedAt /\ S = T
  BY <1>1
<1>4. PICK r :
      /\ r = Without(k) /\ SomeOf(r, list, usedAt)
      /\ \A n \in Node : (\E j \in 1..Len(r) : r[j] = n)
                            <=> n \in T /\ \E i \in 1..Len(list) : list[i] = n
      /\ (\E i \in 1..Len(list) : list[i] \notin T) => Len(r) < Len(list)
  <2>1. \E r \in Seq(Node) :
           /\ r = Filter(l, S) /\ SomeOf(r, l, at)
           /\ \A n \in Node : (\E j \in 1..Len(r) : r[j] = n)
                                 <=> n \in S /\ \E i \in 1..Len(l) : l[i] = n
           /\ (\E i \in 1..Len(l) : l[i] \notin S) => Len(r) < Len(l)
    <3>1. Ordered(l, at)
      BY <1>1, <1>3
    <3> QED
      BY <3>1, FilterIsSome
  <2>2. Without(k) = Filter(list, T)
    BY DEF Without
  <2> HIDE DEF T
  <2>3. Without(k) = Filter(l, S)
    BY <1>3, <2>2
  <2> QED
    BY <1>3, <2>1, <2>3
<1>5. \A i \in 1..Len(list) : list[i] \in Node /\ (list[i] \in T <=> list[i].key # k)
  BY <1>1, ElementOfSeq DEF ToSet
<1>6. r \in Seq(Node) /\ DOMAIN r = 1..Len(r)
  BY <1>4, LenProperties DEF SomeOf
<1>7. \A j \in 1..Len(r) : \E i \in 1..Len(list) : r[j] = list[i] /\ list[i].key # k
  <2> SUFFICES ASSUME NEW j \in 1..Len(r)
               PROVE  \E i \in 1..Len(list) : r[j] = list[i] /\ list[i].key # k
    OBVIOUS
  <2>1. r[j] \in Node
    BY <1>6, ElementOfSeq
  <2> QED
    BY <1>4, <1>5, <2>1
<1>8. \A i \in 1..Len(list) : list[i].key # k => \E j \in 1..Len(r) : r[j] = list[i]
  BY <1>4, <1>5
<1>9. Keys(r) = items \ {k}
  <2>1. Keys(r) = {r[j].key : j \in 1..Len(r)} /\ items = {list[i].key : i \in 1..Len(list)}
    BY <1>1, <1>2, <1>6 DEF Keys
  <2>2. \A j \in 1..Len(r) : r[j].key \in items \ {k}
    BY <1>7, <2>1
  <2>3. \A i \in 1..Len(list) : list[i].key # k => list[i].key \in Keys(r)
    BY <1>8, <2>1
  <2> QED
    BY <2>1, <2>2, <2>3
<1>10. k \in items => Len(r) < Len(list)
  BY <1>1, <1>2, <1>4, <1>5 DEF Keys
<1> QED
  BY <1>4, <1>9, <1>10

LEMMA NodeOfIs ==
  ASSUME CacheInv, NEW k \in items
  PROVE  /\ NodeOf(k) \in Node /\ NodeOf(k).key = k /\ NodeOf(k) \in ToSet(list)
         /\ NodeOf(k).identity = lastPut[k] /\ NodeOf(k) = NodeIn(list, k)
<1>1. /\ list \in Seq(Node) /\ usedAt \in [Token -> Int] /\ Ordered(list, usedAt)
      /\ \A i \in 1..Len(list) : list[i] \in Node /\ list[i].identity = lastPut[list[i].key]
  BY CacheFacts
<1>2. k \in Keys(list)
  BY DEF CacheInv
<1>3. PICK i \in 1..Len(list) : list[i].key = k
  BY <1>1, <1>2, OneNodePerKey
<1>4. NodeIn(list, k) = list[i] /\ list[i] \in ToSet(list)
  BY <1>1, <1>3, OneNodePerKey
<1>5. NodeOf(k) = NodeIn(list, k)
  BY DEF NodeOf, NodeIn
<1> QED
  BY <1>1, <1>3, <1>4, <1>5

Expired == {n \in ToSet(list) : sweep > n.expiresAt}

SweptList == Filter(list, {n \in ToSet(list) : sweep <= n.expiresAt})

LEMMA SweptIs ==
  ASSUME CacheInv
  PROVE  /\ SomeOf(SweptList, list, usedAt)
         /\ Keys(SweptList) = items \ {n.key : n \in Expired}
         /\ Keys(SweptList) = {k \in items : sweep <= NodeOf(k).expiresAt}
<1>1. /\ list \in Seq(Node) /\ usedAt \in [Token -> Int] /\ Ordered(list, usedAt)
      /\ DOMAIN list = 1..Len(list) /\ \A i \in 1..Len(list) : list[i] \in Node
  BY CacheFacts
<1>2. Keys(list) = items /\ sweep \in Int
  BY TimesAssumption DEF CacheInv, CacheTypeOK, NoSweep
<1> DEFINE T == {n \in ToSet(list) : sweep <= n.expiresAt}
<1>3. PICK l \in Seq(Node), at \in [Token -> Int], S \in SUBSET T :
         l = list /\ at = usedAt /\ S = T
  BY <1>1
<1>4. PICK r :
      /\ r = SweptList /\ SomeOf(r, list, usedAt)
      /\ \A n \in Node : (\E j \in 1..Len(r) : r[j] = n)
                            <=> n \in T /\ \E i \in 1..Len(list) : list[i] = n
  <2>1. \E r \in Seq(Node) :
           /\ r = Filter(l, S) /\ SomeOf(r, l, at)
           /\ \A n \in Node : (\E j \in 1..Len(r) : r[j] = n)
                                 <=> n \in S /\ \E i \in 1..Len(l) : l[i] = n
           /\ (\E i \in 1..Len(l) : l[i] \notin S) => Len(r) < Len(l)
    <3>1. Ordered(l, at)
      BY <1>1, <1>3
    <3> QED
      BY <3>1, FilterIsSome
  <2>2. SweptList = Filter(list, T)
    BY DEF SweptList
  <2> HIDE DEF T
  <2>3. SweptList = Filter(l, S)
    BY <1>3, <2>2
  <2> QED
    BY <1>3, <2>1, <2>3
<1>5. \A n : n \in ToSet(list) <=> \E i \in 1..Len(list) : list[i] = n
  BY <1>1, OneNodePerKey
<1>6. r \in Seq(Node) /\ DOMAIN r = 1..Len(r)
  BY <1>4, LenProperties DEF SomeOf
<1>7. \A n \in Node : (\E j \in 1..Len(r) : r[j] = n)
                          <=> n \in ToSet(list) /\ sweep <= n.expiresAt
  BY <1>4, <1>5
<1>8. \A k : k \in Keys(r) <=> \E n \in ToSet(list) : n.key = k /\ sweep <= n.expiresAt
  <2>1. \A j \in 1..Len(r) : r[j] \in Node
    BY <1>6, ElementOfSeq
  <2>2. \A n \in ToSet(list) : n \in Node
    BY <1>1, <1>5
  <2> QED
    BY <1>6, <1>7, <2>1, <2>2 DEF Keys
<1>9. \A k : k \in items <=> \E n \in ToSet(list) : n.key = k
  BY <1>1, <1>2, <1>5 DEF Keys
<1>10. \A m, n \in ToSet(list) : m.key = n.key => m = n
  <2>1. \A i, j \in 1..Len(list) : list[i].key = list[j].key => i = j
    BY <1>1, OneNodePerKey
  <2> QED
    BY <1>5, <2>1
<1>11. \A n \in ToSet(list) : ~(sweep <= n.expiresAt) <=> sweep > n.expiresAt
  <2>1. \A n \in ToSet(list) : n.expiresAt \in Int
    BY <1>1, <1>5, TimesAssumption DEF Node
  <2> QED
    BY <1>2, <2>1
<1>12. Keys(r) = items \ {n.key : n \in Expired}
  BY <1>8, <1>9, <1>10, <1>11 DEF Expired
<1>13. Keys(r) = {k \in items : sweep <= NodeOf(k).expiresAt}
  <2>1. \A k \in items : NodeOf(k) \in ToSet(list) /\ NodeOf(k).key = k
    BY NodeOfIs
  <2> QED
    BY <1>8, <1>9, <1>10, <2>1
<1> QED
  BY <1>4, <1>12, <1>13

\* What Insert puts the new node in front of: a list with room for it.
Room == IF Len(list) >= MaxSize THEN Front(list) ELSE list

LEMMA RoomIs ==
  ASSUME CacheInv
  PROVE  /\ SomeOf(Room, list, usedAt) /\ Len(Room) < MaxSize
         /\ Len(list) < MaxSize => Room = list /\ Keys(Room) = items
         /\ Len(list) >= MaxSize =>
               /\ Room = Front(list) /\ Len(list) = MaxSize /\ Last(list).key \in items
               /\ Keys(Room) = items \ {Last(list).key}
               /\ \A k \in items \ {Last(list).key} : usedAt[Last(list).key] < usedAt[k]
<1>1. /\ list \in Seq(Node) /\ usedAt \in [Token -> Int] /\ Ordered(list, usedAt)
      /\ Len(list) \in Nat /\ MaxSize \in Nat \ {0} /\ DOMAIN list = 1..Len(list)
  BY CacheFacts
<1>2. Keys(list) = items /\ Len(list) <= MaxSize
  BY DEF CacheInv
<1>3. CASE Len(list) < MaxSize
  <2>1. Room = list
    BY <1>1, <1>3 DEF Room
  <2>2. SomeOf(list, list, usedAt)
    BY <1>1 DEF SomeOf
  <2>3. ~(Len(list) >= MaxSize) /\ Len(Room) < MaxSize
    BY <1>1, <1>3, <2>1
  <2> QED
    BY <1>2, <2>1, <2>2, <2>3, Zenon
<1>4. CASE Len(list) >= MaxSize
  <2>a. Len(list) \in Nat /\ MaxSize \in Nat \ {0} /\ Len(list) <= MaxSize
    BY <1>1, <1>2
  <2>0. Len(list) = MaxSize /\ Len(list) # 0
    BY <1>4, <2>a
  <2>1. Len(list) = MaxSize /\ list # <<>>
    BY <1>1, <2>0, EmptySeq
  <2>2. PICK r, n : r = Front(list) /\ n = Len(list)
    OBVIOUS
  <2>3. /\ SomeOf(r, list, usedAt) /\ Len(r) = n - 1 /\ n \in Nat \ {0}
        /\ \A i \in 1..n - 1 : r[i] = list[i]
        /\ Last(list) = list[n]
    BY <1>1, <2>1, <2>2, FrontIsSome
  <2>4. DOMAIN r = 1..n - 1
    BY <2>3, LenProperties DEF SomeOf
  <2>5. \A i \in 1..n - 1 : list[i].key # list[n].key /\ usedAt[list[n].key] < usedAt[list[i].key]
    <3> SUFFICES ASSUME NEW i \in 1..n - 1
                 PROVE  list[i].key # list[n].key /\ usedAt[list[n].key] < usedAt[list[i].key]
      OBVIOUS
    <3>1. i \in 1..n /\ n \in 1..n /\ i < n
      BY <2>3
    <3>2. usedAt[list[i].key] > usedAt[list[n].key]
      BY <1>1, <2>2, <3>1 DEF Ordered
    <3>3. usedAt[list[i].key] \in Int /\ usedAt[list[n].key] \in Int
      BY <1>1, <2>2, <3>1, OneNodePerKey
    <3> QED
      BY <3>2, <3>3
  <2>6. Keys(r) = {list[i].key : i \in 1..n - 1}
    BY <2>3, <2>4 DEF Keys
  <2>7. items = {list[i].key : i \in 1..n - 1} \cup {list[n].key}
    <3>1. 1..n = 1..n - 1 \cup {n}
      BY <2>3
    <3> QED
      BY <1>1, <1>2, <2>2, <3>1 DEF Keys
  <2>8. Keys(r) = items \ {list[n].key} /\ list[n].key \in items
    BY <2>5, <2>6, <2>7
  <2>9. \A k \in items \ {list[n].key} : usedAt[list[n].key] < usedAt[k]
    BY <2>5, <2>7
  <2>10. Room = r /\ Len(r) < MaxSize
    BY <1>1, <1>4, <2>1, <2>2, <2>3 DEF Room
  <2> QED
    BY <1>1, <1>4, <2>1, <2>2, <2>3, <2>8, <2>9, <2>10
<1>5. Len(list) < MaxSize \/ Len(list) >= MaxSize
  BY <1>1
<1> QED
  BY <1>3, <1>4, <1>5, Zenon

LEMMA CacheStepKeepsInv == CacheInv /\ [CacheNext]_cacheVars => CacheInv'
<1> SUFFICES ASSUME CacheInv, [CacheNext]_cacheVars PROVE CacheInv'
  OBVIOUS
<1>a. /\ CacheTypeOK /\ Keys(list) = items /\ items \subseteq Token /\ answer \in Identity \cup {NoIdentity}
      /\ clock \in 0..MaxClock /\ lastPut \in [Token -> Identity \cup {NoIdentity}]
      /\ Len(list) <= MaxSize
  BY DEF CacheInv, CacheTypeOK
<1>b. /\ list \in Seq(Node) /\ usedAt \in [Token -> Int] /\ Ordered(list, usedAt)
      /\ Len(list) \in Nat /\ MaxSize \in Nat \ {0}
  BY CacheFacts
<1>c. SomeOf(list, list, usedAt)
  BY <1>b DEF SomeOf
<1>d. clock \in clock..MaxClock
  BY <1>a
<1>1. CASE UNCHANGED <<list, items, history>> /\ clock' \in clock..MaxClock
           /\ answer' \in Identity \cup {NoIdentity} /\ sweep' \in {NoSweep, sweep, clock}
  BY <1>a, <1>c, <1>1, DroppingKeepsInv
<1>2. ASSUME NEW k \in Token, NEW v \in Identity, Update(k, v) PROVE CacheInv'
  <2>1. k \in items /\ SomeOf(Without(k), list, usedAt) /\ Keys(Without(k)) = items \ {k}
        /\ Len(Without(k)) < Len(list)
    BY <1>2, WithoutIs DEF Update
  <2>2. PICK n \in Node : n = NewNode(k, v) /\ n.key = k /\ n.identity = v
    <3>1. clock + TTL \in 0..(MaxClock + TTL)
      BY <1>a, TimesAssumption
    <3>2. NewNode(k, v) \in Node
      BY <3>1 DEF NewNode, Node
    <3>3. NewNode(k, v).key = k /\ NewNode(k, v).identity = v
      BY DEF NewNode
    <3> QED
      BY <3>2, <3>3, Zenon
  <2>3. PICK r \in Seq(Node) : r = Without(k) /\ SomeOf(r, list, usedAt)
    BY <2>1 DEF SomeOf
  <2>4. Len(r) < MaxSize /\ k \notin Keys(r) /\ items = Keys(r) \cup {k}
    <3>1. Len(r) \in Nat
      BY LenProperties
    <3> QED
      BY <1>a, <1>b, <2>1, <2>3, <3>1
  <2>5. /\ list' = <<n>> \o r /\ items' = Keys(r) \cup {k} /\ RecordUse(k)
        /\ lastPut' = [lastPut EXCEPT ![k] = v] /\ UNCHANGED <<answer, clock, sweep>>
    BY <1>2, <2>2, <2>3, <2>4 DEF Update, RecordPut
  <2>6. /\ n.identity = lastPut'[k] /\ lastPut' \in [Token -> Identity \cup {NoIdentity}]
        /\ \A t \in Token \ {k} : lastPut'[t] = lastPut[t]
    BY <1>a, <2>2, <2>5
  <2> QED
    BY <1>a, <2>2, <2>3, <2>4, <2>5, <2>6, PushingKeepsInv
<1>3. ASSUME NEW k \in Token, NEW v \in Identity, Insert(k, v) PROVE CacheInv'
  <2>1. /\ SomeOf(Room, list, usedAt) /\ Len(Room) < MaxSize
        /\ Len(list) < MaxSize => Room = list /\ Keys(Room) = items
        /\ Len(list) >= MaxSize =>
              Room = Front(list) /\ Keys(Room) = items \ {Last(list).key}
    BY RoomIs
  <2>2. PICK n \in Node : n = NewNode(k, v) /\ n.key = k /\ n.identity = v
    <3>1. clock + TTL \in 0..(MaxClock + TTL)
      BY <1>a, TimesAssumption
    <3>2. NewNode(k, v) \in Node
      BY <3>1 DEF NewNode, Node
    <3>3. NewNode(k, v).key = k /\ NewNode(k, v).identity = v
      BY DEF NewNode
    <3> QED
      BY <3>2, <3>3, Zenon
  <2>3. PICK r \in Seq(Node) : r = Room /\ SomeOf(r, list, usedAt)
    BY <2>1 DEF SomeOf
  <2>4. k \notin items /\ RecordUse(k) /\ lastPut' = [lastPut EXCEPT ![k] = v]
        /\ UNCHANGED <<answer, clock, sweep>>
    BY <1>3 DEF Insert, RecordPut
  <2>5. list' = <<n>> \o r /\ items' = Keys(r) \cup {k} /\ k \notin Keys(r)
    <3>1. CASE Len(list) >= MaxSize
      BY <1>3, <2>1, <2>2, <2>3, <2>4, <3>1 DEF Insert
    <3>2. CASE ~(Len(list) >= MaxSize)
      <4>1. Len(list) < MaxSize
        BY <1>b, <3>2
      <4> QED
        BY <1>3, <2>1, <2>2, <2>3, <2>4, <3>2, <4>1 DEF Insert
    <3> QED
      BY <3>1, <3>2
  <2>6. /\ n.identity = lastPut'[k] /\ lastPut' \in [Token -> Identity \cup {NoIdentity}]
        /\ \A t \in Token \ {k} : lastPut'[t] = lastPut[t]
    BY <1>a, <2>2, <2>4
  <2> QED
    BY <1>a, <2>1, <2>2, <2>3, <2>4, <2>5, <2>6, PushingKeepsInv
<1>4. ASSUME NEW k \in Token, GetHit(k) PROVE CacheInv'
  <2>1. k \in items /\ SomeOf(Without(k), list, usedAt) /\ Keys(Without(k)) = items \ {k}
        /\ Len(Without(k)) < Len(list)
    BY <1>4, WithoutIs DEF GetHit
  <2>2. PICK n \in Node : n = NodeOf(k) /\ n.key = k /\ n.identity = lastPut[k]
                          /\ n.identity \in Identity
    BY <2>1, NodeOfIs DEF Node
  <2>3. PICK r \in Seq(Node) : r = Without(k) /\ SomeOf(r, list, usedAt)
    BY <2>1 DEF SomeOf
  <2>4. Len(r) < MaxSize /\ k \notin Keys(r) /\ items = Keys(r) \cup {k}
    <3>1. Len(r) \in Nat
      BY LenProperties
    <3> QED
      BY <1>a, <1>b, <2>1, <2>3, <3>1
  <2>5. /\ list' = <<n>> \o r /\ items' = Keys(r) \cup {k} /\ RecordUse(k)
        /\ answer' = n.identity /\ UNCHANGED <<lastPut, clock, sweep>>
    BY <1>4, <2>2, <2>3, <2>4 DEF GetHit
  <2> QED
    BY <1>a, <2>2, <2>3, <2>4, <2>5, PushingKeepsInv
<1>5. ASSUME NEW k \in Token, GetExpiredEntry(k) \/ DeleteEntry(k) PROVE CacheInv'
  <2>1. PICK r : r = Without(k) /\ SomeOf(r, list, usedAt) /\ Keys(r) = items \ {k}
    BY WithoutIs
  <2>2. list' = r /\ items' = Keys(r) /\ UNCHANGED <<clock, sweep, history>>
        /\ answer' \in Identity \cup {NoIdentity}
    BY <1>a, <1>5, <2>1 DEF GetExpiredEntry, DeleteEntry
  <2> QED
    BY <1>d, <2>1, <2>2, DroppingKeepsInv
<1>6. CASE Sweep
  <2>1. PICK r : r = SweptList /\ SomeOf(r, list, usedAt)
                 /\ Keys(r) = items \ {n.key : n \in Expired}
    BY SweptIs
  <2>2. list' = r /\ items' = Keys(r) /\ UNCHANGED <<clock, answer, history>> /\ sweep' = NoSweep
    BY <1>6, <2>1 DEF Sweep, SweptList, Expired
  <2> QED
    BY <1>a, <1>d, <2>1, <2>2, DroppingKeepsInv
<1>7. CASE (\E k \in Token : GetAbsent(k)) \/ StartSweep \/ CacheTick \/ UNCHANGED cacheVars
  <2>1. CASE CacheTick
    <3>1. clock' \in clock..MaxClock
      BY <1>a, <2>1, TimesAssumption DEF CacheTick
    <3> QED
      BY <1>a, <1>1, <2>1, <3>1 DEF CacheTick
  <2>2. ASSUME NEW k \in Token, GetAbsent(k) PROVE CacheInv'
    BY <1>d, <1>1, <2>2 DEF GetAbsent
  <2>3. CASE StartSweep
    BY <1>a, <1>d, <1>1, <2>3 DEF StartSweep
  <2>4. CASE UNCHANGED cacheVars
    BY <1>a, <1>d, <1>1, <2>4 DEF cacheVars
  <2> QED
    BY <1>7, <2>1, <2>2, <2>3, <2>4
<1> QED
  BY <1>2, <1>3, <1>4, <1>5, <1>6, <1>7 DEF CacheNext

LEMMA CacheInvariant == CacheSpec => []CacheInv
<1>1. CacheInit => CacheInv
  <2> SUFFICES ASSUME CacheInit PROVE CacheInv
    OBVIOUS
  <2>1. list = <<>> /\ <<>> \in Seq(Node) /\ Len(list) = 0 /\ DOMAIN list = {}
    BY EmptySeq, LenProperties DEF CacheInit
  <2>2. Keys(list) = {} /\ Ordered(list, usedAt) /\ EntriesAreCurrent
    BY <2>1 DEF Keys, Ordered, EntriesAreCurrent
  <2>3. CacheTypeOK
    BY <2>1, TimesAssumption DEF CacheInit, CacheTypeOK
  <2> QED
    BY <2>1, <2>2, <2>3, SizeAssumption DEF CacheInit, CacheInv, NoSweep
<1> QED
  BY <1>1, CacheStepKeepsInv, PTL DEF CacheSpec

\* lruCache, for any tokens, identities and size: whatever mix of put, get,
\* delete and cleanup ran, the map and the list hold the same keys, no more
\* than maxSize, in order of use, each with the identity last put under it.
THEOREM MapAndListStayTogether == CacheSpec => []CacheIsConsistent
<1>1. CacheInv => CacheIsConsistent
  <2> SUFFICES ASSUME CacheInv PROVE CacheIsConsistent
    OBVIOUS
  <2>1. /\ list \in Seq(Node) /\ usedAt \in [Token -> Int] /\ Ordered(list, usedAt)
        /\ DOMAIN list = 1..Len(list)
    BY CacheFacts
  <2>2. \A i, j \in 1..Len(list) : list[i].key = list[j].key => i = j
    BY <2>1, OneNodePerKey
  <2>3. MapAndListAgree
    BY <2>1, <2>2 DEF CacheInv, MapAndListAgree
  <2>4. ListIsInOrderOfUse
    BY <2>1 DEF ListIsInOrderOfUse, Ordered
  <2> QED
    BY <2>3, <2>4 DEF CacheInv, CacheIsConsistent
<1> QED
  BY <1>1, CacheInvariant, PTL

\* put, get, delete and cleanup: an entry that has not expired goes only when
\* it is deleted, or when a new key needs its place and it was used least
\* recently of all.
THEOREM EvictionIsLeastRecentlyUsed == CacheSpec => OnlyTheOldestIsEvicted
<1> DEFINE Step == \A k \in items \ items' :
                      \/ \E n \in ToSet(list) : n.key = k /\ n.expiresAt < clock
                      \/ DeleteEntry(k)
                      \/ /\ Len(list) = MaxSize
                         /\ \A other \in items \ {k} : usedAt[k] < usedAt[other]
<1>1. CacheInv /\ [CacheNext]_cacheVars => [Step]_cacheVars
  <2> SUFFICES ASSUME CacheInv, CacheNext, NEW k \in items, k \notin items'
               PROVE  \/ \E n \in ToSet(list) : n.key = k /\ n.expiresAt < clock
                      \/ DeleteEntry(k)
                      \/ /\ Len(list) = MaxSize
                         /\ \A other \in items \ {k} : usedAt[k] < usedAt[other]
    OBVIOUS
  <2>1. ASSUME NEW t \in Token, NEW v \in Identity, Insert(t, v)
        PROVE  Len(list) = MaxSize /\ \A other \in items \ {k} : usedAt[k] < usedAt[other]
    <3>1. Len(list) >= MaxSize /\ k = Last(list).key
      BY <2>1 DEF Insert
    <3> QED
      BY <3>1, RoomIs
  <2>2. ASSUME NEW t \in Token, GetExpiredEntry(t)
        PROVE  \E n \in ToSet(list) : n.key = k /\ n.expiresAt < clock
    <3>1. k = t /\ NodeOf(k).expiresAt < clock
      <4>1. NodeOf(k) \in Node /\ clock \in Int
        BY NodeOfIs DEF CacheInv, CacheTypeOK
      <4>2. k = t /\ clock > NodeOf(k).expiresAt
        BY <2>2 DEF GetExpiredEntry
      <4> QED
        BY <4>1, <4>2, TimesAssumption DEF Node
    <3> QED
      BY <3>1, NodeOfIs
  <2>3. ASSUME Sweep PROVE \E n \in ToSet(list) : n.key = k /\ n.expiresAt < clock
    <3>1. PICK n \in ToSet(list) : n.key = k /\ sweep > n.expiresAt
      BY <2>3 DEF Sweep
    <3>2. n \in Node
      <4>1. list \in Seq(Node) /\ DOMAIN list = 1..Len(list)
        BY CacheFacts
      <4> QED
        BY <4>1, ElementOfSeq DEF ToSet
    <3>3. sweep \in Int /\ clock \in Int /\ sweep <= clock /\ n.expiresAt \in Int
      BY <3>2, TimesAssumption DEF CacheInv, CacheTypeOK, NoSweep, Node
    <3> QED
      BY <3>1, <3>3
  <2>4. ASSUME NEW t \in Token, DeleteEntry(t) PROVE DeleteEntry(k)
    <3>1. k = t
      BY <2>4 DEF DeleteEntry
    <3> QED
      BY <2>4, <3>1
  <2> QED
    BY <2>1, <2>2, <2>3, <2>4 DEF CacheNext, Update, GetAbsent, GetHit, StartSweep, CacheTick
<1> QED
  BY <1>1, CacheInvariant, PTL DEF CacheSpec, OnlyTheOldestIsEvicted

\* The map that the list stands for.
Mapped == [k \in Keys(list) |-> [identity |-> NodeOf(k).identity,
                                 expiresAt |-> NodeOf(k).expiresAt]]

LEMMA MappedIs ==
  ASSUME CacheInv
  PROVE  /\ Mapped = Content(list) /\ DOMAIN Mapped = items
         /\ \A k \in items : Mapped[k] = Entry(NodeOf(k))
         /\ \A k \in items : Mapped[k].identity = NodeOf(k).identity
         /\ \A k \in items : /\ Mapped[k].expiresAt = NodeOf(k).expiresAt
                             /\ Mapped[k].expiresAt \in Int
<1>1. Mapped = Content(list)
  BY DEF Mapped, Content, Entry, NodeOf, NodeIn
<1>2. Keys(list) = items
  BY DEF CacheInv
<1>3. DOMAIN Mapped = items /\ \A k \in items : Mapped[k] = Entry(NodeOf(k))
  BY <1>2 DEF Mapped, Entry
<1>4. \A k \in items : NodeOf(k).expiresAt \in Int
  BY NodeOfIs, TimesAssumption DEF Node
<1> QED
  BY <1>1, <1>3, <1>4 DEF Entry

LEMMA MappedNext == Mapped' = Content(list')
BY DEF Mapped, Content, Entry, NodeOf, NodeIn

LEMMA DropMaps ==
  ASSUME CacheInv, NEW r, SomeOf(r, list, usedAt), list' = r
  PROVE  Mapped' = [k \in Keys(r) |-> Mapped[k]]
<1>1. list \in Seq(Node) /\ usedAt \in [Token -> Int] /\ Ordered(list, usedAt)
  BY CacheFacts
<1>2. PICK l \in Seq(Node), at \in [Token -> Int] : l = list /\ at = usedAt
  BY <1>1
<1>3. Ordered(l, at) /\ SomeOf(r, l, at)
  BY <1>1, <1>2
<1>4. Content(r) = [k \in Keys(r) |-> Content(l)[k]]
  BY <1>3, ContentOfSome
<1> QED
  BY <1>2, <1>4, MappedIs, MappedNext

LEMMA PushMaps ==
  ASSUME CacheInv, NEW n \in Node, NEW r, SomeOf(r, list, usedAt), n.key \notin Keys(r),
         list' = <<n>> \o r
  PROVE  Mapped' = [x \in Keys(r) \cup {n.key} |-> IF x = n.key THEN Entry(n) ELSE Mapped[x]]
<1>1. /\ list \in Seq(Node) /\ usedAt \in [Token -> Int] /\ Ordered(list, usedAt)
      /\ uses + 1 \in Nat /\ \A k \in Token : usedAt[k] \in Nat /\ usedAt[k] < uses + 1
  BY CacheFacts
<1>2. PICK l \in Seq(Node), at \in [Token -> Int], u \in Int : l = list /\ at = usedAt /\ u = uses + 1
  BY <1>1
<1>3. /\ Ordered(l, at) /\ SomeOf(r, l, at) /\ \A k \in Token : at[k] < u
      /\ r \in Seq(Node) /\ Ordered(r, at)
  BY <1>1, <1>2 DEF SomeOf
<1>4. \A j \in 1..Len(r) : r[j].key # n.key
  BY <1>3, LenProperties DEF Keys
<1>5. Content(r) = [k \in Keys(r) |-> Content(l)[k]]
  BY <1>3, ContentOfSome
<1>6. Content(<<n>> \o r) = [k \in Keys(r) \cup {n.key} |->
                                IF k = n.key THEN Entry(n) ELSE Content(r)[k]]
  BY <1>3, <1>4, ContentOfPush
<1>7. Content(<<n>> \o r) = [k \in Keys(r) \cup {n.key} |->
                                IF k = n.key THEN Entry(n) ELSE Content(l)[k]]
  BY <1>5, <1>6
<1> QED
  BY <1>2, <1>7, MappedIs, MappedNext

LEMMA PutWhenKept ==
  ASSUME NEW k, NEW v, NEW kept, kept \in Abstract!KeptKeys(Mapped, k),
         Mapped' = [x \in kept \cup {k} |->
                       IF x = k THEN [identity |-> v, expiresAt |-> clock + TTL] ELSE Mapped[x]],
         UNCHANGED <<answer, clock, sweep>>
  PROVE  Abstract!Put(k, v)
<1>1. Mapped' \in Abstract!PutResults(Mapped, k, [identity |-> v, expiresAt |-> clock + TTL])
  BY DEF Abstract!PutResults
<1> QED
  BY <1>1 DEF Abstract!Put, Mapped

\* Which keys the abstract cache may keep.
LEMMA KeptIs ==
  ASSUME NEW S, S = DOMAIN Mapped, NEW k
  PROVE  /\ k \in S \/ Cardinality(S) < MaxSize => S \in Abstract!KeptKeys(Mapped, k)
         /\ k \notin S /\ ~(Cardinality(S) < MaxSize) =>
               \A w \in S : S \ {w} \in Abstract!KeptKeys(Mapped, k)
<1>0. Abstract!Cardinality(S) = Cardinality(S)
  BY DEF Abstract!Cardinality, Cardinality
<1>1. Abstract!KeptKeys(Mapped, k) =
         IF k \in S \/ Cardinality(S) < MaxSize THEN {S} ELSE {S \ {w} : w \in S}
  BY <1>0 DEF Abstract!KeptKeys
<1> QED
  BY <1>1

LEMMA PutRefines ==
  ASSUME CacheInv, NEW k \in Token, NEW v \in Identity, Update(k, v) \/ Insert(k, v)
  PROVE  Abstract!Put(k, v)
<1>0. clock \in 0..MaxClock
  BY DEF CacheInv, CacheTypeOK
<1>1. PICK n \in Node :
         n = NewNode(k, v) /\ n.key = k
         /\ Entry(n) = [identity |-> v, expiresAt |-> clock + TTL]
  <2>1. clock + TTL \in 0..(MaxClock + TTL)
    BY <1>0, TimesAssumption
  <2>2. NewNode(k, v) \in Node
    BY <2>1 DEF NewNode, Node
  <2>3. NewNode(k, v).key = k
        /\ Entry(NewNode(k, v)) = [identity |-> v, expiresAt |-> clock + TTL]
    BY DEF NewNode, Entry
  <2> QED
    BY <2>2, <2>3, Zenon
<1>2. PICK S : S = items /\ S = DOMAIN Mapped
  BY MappedIs
<1>3. UNCHANGED <<answer, clock, sweep>>
  BY DEF Update, Insert
<1>4. CASE Update(k, v)
  <2>1. PICK r : r = Without(k) /\ SomeOf(r, list, usedAt) /\ Keys(r) = items \ {k}
    BY WithoutIs
  <2>2. k \in items /\ list' = <<n>> \o r
    BY <1>1, <1>4, <2>1 DEF Update
  <2>3. n.key \notin Keys(r)
    BY <1>1, <2>1
  <2>4. Mapped' = [x \in Keys(r) \cup {n.key} |-> IF x = n.key THEN Entry(n) ELSE Mapped[x]]
    BY <2>1, <2>2, <2>3, PushMaps
  <2>5. S \in Abstract!KeptKeys(Mapped, k) /\ Keys(r) \cup {n.key} = S \cup {k}
    BY <1>1, <1>2, <2>1, <2>2, KeptIs
  <2>6. Mapped' = [x \in S \cup {k} |->
                      IF x = k THEN [identity |-> v, expiresAt |-> clock + TTL] ELSE Mapped[x]]
    BY <1>1, <2>4, <2>5
  <2> QED
    BY <1>3, <2>5, <2>6, PutWhenKept
<1>5. CASE Insert(k, v)
  <2>1. PICK r :
           /\ r = Room /\ SomeOf(r, list, usedAt)
           /\ Len(list) < MaxSize => r = list /\ Keys(r) = items
           /\ Len(list) >= MaxSize =>
                 /\ r = Front(list) /\ Last(list).key \in items
                 /\ Keys(r) = items \ {Last(list).key}
    BY RoomIs
  <2>2. Len(list) \in Nat /\ MaxSize \in Nat
    BY CacheFacts
  <2>3. k \notin items
    BY <1>5 DEF Insert
  <2>4. Cardinality(S) = Len(list)
    <3>1. /\ list \in Seq(Node) /\ usedAt \in [Token -> Int] /\ Ordered(list, usedAt)
          /\ Keys(list) = items
      BY CacheFacts DEF CacheInv
    <3>2. PICK l \in Seq(Node), at \in [Token -> Int] : l = list /\ at = usedAt
      BY <3>1
    <3>3. Ordered(l, at)
      BY <3>1, <3>2
    <3>4. Cardinality(Keys(l)) = Len(l)
      BY <3>3, CountKeys
    <3> QED
      BY <1>2, <3>1, <3>2, <3>4
  <2>5. list' = <<n>> \o r
    <3>1. CASE Len(list) >= MaxSize
      BY <1>1, <1>5, <2>1, <3>1 DEF Insert
    <3>2. CASE ~(Len(list) >= MaxSize)
      <4>1. Len(list) < MaxSize
        BY <2>2, <3>2
      <4> QED
        BY <1>1, <1>5, <2>1, <3>2, <4>1 DEF Insert
    <3> QED
      BY <3>1, <3>2
  <2>6. Len(list) < MaxSize \/ (Len(list) >= MaxSize /\ ~(Len(list) < MaxSize))
    BY <2>2
  <2>7. n.key \notin Keys(r)
    BY <1>1, <2>1, <2>3, <2>6
  <2>8. Mapped' = [x \in Keys(r) \cup {n.key} |-> IF x = n.key THEN Entry(n) ELSE Mapped[x]]
    BY <2>1, <2>5, <2>7, PushMaps
  <2>9. Keys(r) \in Abstract!KeptKeys(Mapped, k)
    <3>1. CASE Len(list) < MaxSize
      <4>1. Cardinality(S) < MaxSize /\ Keys(r) = S
        BY <1>2, <2>1, <2>4, <3>1
      <4> QED
        BY <1>2, <4>1, KeptIs
    <3>2. CASE Len(list) >= MaxSize /\ ~(Len(list) < MaxSize)
      <4>1. ~(Cardinality(S) < MaxSize)
        BY <2>4, <3>2
      <4>2. PICK w : w = Last(list).key
        OBVIOUS
      <4>3. w \in S /\ Keys(r) = S \ {w}
        BY <1>2, <2>1, <3>2, <4>2
      <4> QED
        BY <1>2, <2>3, <4>1, <4>3, KeptIs
    <3> QED
      BY <2>6, <3>1, <3>2
  <2>10. Mapped' = [x \in Keys(r) \cup {k} |->
                       IF x = k THEN [identity |-> v, expiresAt |-> clock + TTL] ELSE Mapped[x]]
    BY <1>1, <2>8
  <2> QED
    BY <1>3, <2>9, <2>10, PutWhenKept
<1> QED
  BY <1>4, <1>5

LEMMA HitRefines ==
  ASSUME CacheInv, NEW k \in Token, GetHit(k)
  PROVE  Abstract!GetHit(k)
<1>1. /\ k \in items /\ list' = <<NodeOf(k)>> \o Without(k) /\ answer' = NodeOf(k).identity
      /\ UNCHANGED <<clock, sweep>> /\ clock <= NodeOf(k).expiresAt
  BY DEF GetHit
<1>2. PICK r : r = Without(k) /\ SomeOf(r, list, usedAt) /\ Keys(r) = items \ {k}
  BY WithoutIs
<1>3. PICK n \in Node : n = NodeOf(k) /\ n.key = k
  BY <1>1, NodeOfIs
<1>4. list' = <<n>> \o r /\ n.key \notin Keys(r)
  BY <1>1, <1>2, <1>3
<1>5. Mapped' = [x \in Keys(r) \cup {n.key} |-> IF x = n.key THEN Entry(n) ELSE Mapped[x]]
  BY <1>2, <1>4, PushMaps
<1>6. DOMAIN Mapped = items /\ Mapped[k] = Entry(n)
  BY <1>1, <1>3, MappedIs
<1>7. Mapped = [x \in items |-> Mapped[x]]
  BY <1>6 DEF Mapped
<1>8. Keys(r) \cup {n.key} = items
  BY <1>1, <1>2, <1>3
<1>9. Mapped' = Mapped
  BY <1>3, <1>5, <1>6, <1>7, <1>8
<1>10. Abstract!Live(Mapped, k, clock) /\ answer' = Mapped[k].identity
  BY <1>1, MappedIs DEF Abstract!Live
<1> QED
  BY <1>1, <1>9, <1>10 DEF Abstract!GetHit, Mapped

LEMMA DropRefines ==
  ASSUME CacheInv, NEW k \in Token, GetAbsent(k) \/ GetExpiredEntry(k) \/ DeleteEntry(k)
  PROVE  Abstract!GetMiss(k) \/ Abstract!Delete(k)
<1>1. DOMAIN Mapped = items /\ \A x \in items : Mapped[x].expiresAt = NodeOf(x).expiresAt
                                                /\ Mapped[x].expiresAt \in Int
  BY MappedIs
<1>2. Mapped = [x \in items |-> Mapped[x]]
  BY <1>1 DEF Mapped
<1>3. clock \in Int
  BY TimesAssumption DEF CacheInv, CacheTypeOK
<1>4. CASE GetAbsent(k)
  <2>1. k \notin items /\ list' = list /\ answer' = NoIdentity /\ UNCHANGED <<clock, sweep>>
    BY <1>4 DEF GetAbsent
  <2>2. Mapped' = Mapped
    BY <2>1, MappedIs, MappedNext
  <2>3. Abstract!Drop(Mapped, {k}) = Mapped /\ ~Abstract!Live(Mapped, k, clock)
    BY <1>1, <1>2, <2>1 DEF Abstract!Drop, Abstract!Live
  <2> QED
    BY <2>1, <2>2, <2>3 DEF Abstract!GetMiss, Mapped
<1>5. CASE GetExpiredEntry(k) \/ DeleteEntry(k)
  <2>1. PICK r : r = Without(k) /\ SomeOf(r, list, usedAt) /\ Keys(r) = items \ {k}
    BY WithoutIs
  <2>2. k \in items /\ list' = r /\ UNCHANGED <<clock, sweep>>
    BY <1>5, <2>1 DEF GetExpiredEntry, DeleteEntry
  <2>3. Mapped' = Abstract!Drop(Mapped, {k})
    BY <1>1, <2>1, <2>2, DropMaps DEF Abstract!Drop
  <2>4. CASE DeleteEntry(k)
    BY <2>2, <2>3, <2>4 DEF DeleteEntry, Abstract!Delete, Mapped
  <2>5. CASE GetExpiredEntry(k)
    <3>1. ~Abstract!Live(Mapped, k, clock) /\ answer' = NoIdentity
      BY <1>1, <1>3, <2>2, <2>5 DEF GetExpiredEntry, Abstract!Live
    <3> QED
      BY <2>2, <2>3, <3>1 DEF Abstract!GetMiss, Mapped
  <2> QED
    BY <1>5, <2>4, <2>5
<1> QED
  BY <1>4, <1>5

LEMMA SweepRefines == ASSUME CacheInv, Sweep PROVE Abstract!Sweep
<1>1. DOMAIN Mapped = items /\ \A x \in items : Mapped[x].expiresAt = NodeOf(x).expiresAt
                                                /\ Mapped[x].expiresAt \in Int
  BY MappedIs
<1>2. sweep \in Int
  BY TimesAssumption DEF CacheInv, CacheTypeOK, NoSweep
<1>3. PICK r : r = SweptList /\ SomeOf(r, list, usedAt)
               /\ Keys(r) = {k \in items : sweep <= NodeOf(k).expiresAt}
  BY SweptIs
<1>4. list' = r /\ sweep # NoSweep /\ sweep' = NoSweep /\ UNCHANGED <<answer, clock>>
  BY <1>3 DEF Sweep, SweptList
<1>5. Keys(r) = DOMAIN Mapped \ Abstract!ExpiredKeys(Mapped, sweep)
  BY <1>1, <1>2, <1>3 DEF Abstract!ExpiredKeys
<1>6. Mapped' = Abstract!Drop(Mapped, Abstract!ExpiredKeys(Mapped, sweep))
  BY <1>3, <1>4, <1>5, DropMaps DEF Abstract!Drop
<1> QED
  BY <1>4, <1>6 DEF Abstract!Sweep, Abstract!NoSweep, NoSweep, Mapped

LEMMA CacheStepRefines ==
  CacheInv /\ [CacheNext]_cacheVars => [Abstract!Next]_(Abstract!vars)
<1> SUFFICES ASSUME CacheInv, [CacheNext]_cacheVars PROVE [Abstract!Next]_(Abstract!vars)
  OBVIOUS
<1>1. ASSUME NEW k \in Token, NEW v \in Identity, Update(k, v) \/ Insert(k, v)
      PROVE  Abstract!Next
  BY <1>1, PutRefines DEF Abstract!Next
<1>2. ASSUME NEW k \in Token, GetHit(k) PROVE Abstract!Next
  BY <1>2, HitRefines DEF Abstract!Next
<1>3. ASSUME NEW k \in Token, GetAbsent(k) \/ GetExpiredEntry(k) \/ DeleteEntry(k)
      PROVE  Abstract!Next
  BY <1>3, DropRefines DEF Abstract!Next
<1>4. CASE Sweep
  BY <1>4, SweepRefines DEF Abstract!Next
<1>5. ASSUME list' = list PROVE Mapped' = Mapped
  BY <1>5, MappedIs, MappedNext
<1>6. CASE StartSweep
  BY <1>5, <1>6 DEF StartSweep, Abstract!Next, Abstract!StartSweep, Abstract!NoSweep, NoSweep,
                    Mapped
<1>7. CASE CacheTick
  BY <1>5, <1>7 DEF CacheTick, Abstract!Next, Abstract!Tick, Mapped
<1>8. CASE UNCHANGED cacheVars
  BY <1>5, <1>8 DEF cacheVars, Abstract!vars, Mapped
<1> QED
  BY <1>1, <1>2, <1>3, <1>4, <1>6, <1>7, <1>8 DEF CacheNext

\* lruCache is a cache of at most maxSize entries as the authenticator's model
\* takes it to be, for any tokens, identities, size and lifetime.
THEOREM TokenCacheImplementsBoundedCache == CacheSpec => ImplementsBoundedCache
<1>1. CacheInit => Abstract!Init
  <2> SUFFICES ASSUME CacheInit PROVE Abstract!Init
    OBVIOUS
  <2>1. DOMAIN list = {} /\ answer = NoIdentity /\ clock = 0 /\ sweep = NoSweep
    BY EmptySeq, LenProperties DEF CacheInit
  <2>2. Mapped = Abstract!EmptyCache
    BY <2>1 DEF Mapped, Keys, Abstract!EmptyCache
  <2> QED
    BY <2>1, <2>2 DEF Abstract!Init, Abstract!NoSweep, NoSweep, Mapped
<1> QED
  BY <1>1, CacheInvariant, CacheStepRefines, PTL
     DEF CacheSpec, ImplementsBoundedCache, Abstract!Spec
=============================================================================
