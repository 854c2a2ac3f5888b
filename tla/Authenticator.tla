--------------------------- MODULE Authenticator ---------------------------
(***************************************************************************)
(* Authenticate and HandleLogout of internal/auth/oauth.go, run by any     *)
(* number of requests at once over the token cache (BoundedCache), the     *)
(* session store (Sessions) and the OAuth provider.  The cache and the     *)
(* store have a mutex each, and neither is held across the call to the     *)
(* provider or from one call to the next: every such call is a step, and   *)
(* other requests run in between.                                          *)
(***************************************************************************)
EXTENDS CacheOps, Sessions

CONSTANTS Request,     \* the requests that can be in flight together
          Owner,       \* the client the provider names for each token
          Denied,      \* clients isDenied or ~isAllowed turns away
          TokenTTL,    \* five minutes, in ticks of the clock
          MaxDelay,    \* a request caches an identity at most this long after
                       \* the provider answered
          MaxTime,     \* bound: the clock stops here
          None         \* no identity, no token, no client

ASSUME AuthAssumption ==
    /\ Owner \in [Token -> Client]
    /\ Denied \subseteq Client
    /\ TokenTTL \in Nat
    /\ MaxDelay \in Nat
    /\ MaxTime \in Nat
    /\ None \notin SessionId \cup Token \cup Client

VARIABLES cache,       \* a.tokenCache
          valid,       \* the tokens the provider accepts
          pc,          \* where each request is
          token,       \* the token it carries
          ident,       \* the identity Authenticate has built or found
          todo,        \* HandleLogout: the sessions still to delete
          ended        \* history: sessions deleted by a logout

handler == <<pc, token, ident, todo>>
vars == <<cache, sessions, issued, now, valid, handler, ended>>

\* validatedAt is the time of the provider's answer the identity rests on.
Ident == [client : Client, sid : SessionId \cup {None}, validatedAt : Nat]

Start == {"idle"}
Authenticating == {"fetching", "resolved", "created"}
LoggingOut == {"logoutFetching", "logoutListing", "logoutDeleting"}
Answered == {"accepted", "rejected", "loggedOut"}

Init ==
    /\ cache = EmptyCache
    /\ sessions = NoSessions
    /\ issued = NoSessions
    /\ now = 0
    /\ valid = Token
    /\ pc = [r \in Request |-> "idle"]
    /\ token = [r \in Request |-> None]
    /\ ident = [r \in Request |-> None]
    /\ todo = [r \in Request |-> {}]
    /\ ended = {}

Go(r, from, to) == pc[r] = from /\ pc' = [pc EXCEPT ![r] = to]

-----------------------------------------------------------------------------
(* Authenticate                                                            *)

\* Wrong: each hit extends the entry, the way SessionStore.Get extends a session.
CacheHitSliding(r, t) ==
    /\ Live(cache, t, now)
    /\ Go(r, "idle", "accepted")
    /\ token' = [token EXCEPT ![r] = t]
    /\ ident' = [ident EXCEPT ![r] = cache[t].identity]
    /\ cache' = [cache EXCEPT ![t].expiresAt = now + TokenTTL]
    /\ UNCHANGED <<sessions, issued, now, valid, todo, ended>>

\* A token in the cache: nothing else is consulted.
CacheHit(r, t) ==
    /\ Live(cache, t, now)
    /\ Go(r, "idle", "accepted")
    /\ token' = [token EXCEPT ![r] = t]
    /\ ident' = [ident EXCEPT ![r] = cache[t].identity]
    /\ UNCHANGED <<cache, sessions, issued, now, valid, todo, ended>>

CacheMiss(r, t) ==
    /\ ~Live(cache, t, now)
    /\ Go(r, "idle", "fetching")
    /\ cache' = Drop(cache, {t})
    /\ token' = [token EXCEPT ![r] = t]
    /\ UNCHANGED <<sessions, issued, now, valid, ident, todo, ended>>

\* fetchUserIdentity succeeds, and the user restrictions let the client in.
FetchAdmitted(r) ==
    /\ token[r] \in valid
    /\ Owner[token[r]] \notin Denied
    /\ Go(r, "fetching", "resolved")
    /\ ident' = [ident EXCEPT ![r] = [client |-> Owner[token[r]],
                                      sid |-> None, validatedAt |-> now]]
    /\ UNCHANGED <<cache, sessions, issued, now, valid, token, todo, ended>>

\* The restrictions turn the client away, the provider does not accept the
\* token, or the call fails or times out.
FetchRefused(r) ==
    /\ Go(r, "fetching", "rejected")
    /\ UNCHANGED <<cache, sessions, issued, now, valid, token, ident, todo, ended>>

\* Wrong: any session is reused, the client's or not.
CreateSessionShared(r) ==
    /\ Go(r, "resolved", "created")
    /\ \E id \in SessionId :
          /\ \/ id \in DOMAIN sessions /\ UNCHANGED <<sessions, issued>>
             \/ sessions = NoSessions /\ Create(id, ident[r].client)
          /\ ident' = [ident EXCEPT ![r].sid = id]
    /\ UNCHANGED <<cache, now, valid, token, todo, ended>>

CreateSession(r) ==
    /\ Go(r, "resolved", "created")
    /\ \E id \in SessionId :
          /\ Create(id, ident[r].client)
          /\ ident' = [ident EXCEPT ![r].sid = id]
    /\ UNCHANGED <<cache, now, valid, token, todo, ended>>

\* generateUUID fails.
CreateFails(r) ==
    /\ Go(r, "resolved", "rejected")
    /\ UNCHANGED <<cache, sessions, issued, now, valid, token, ident, todo, ended>>

CachePut(r) ==
    /\ Go(r, "created", "accepted")
    /\ cache' \in PutResults(cache, token[r],
                    [identity |-> ident[r], expiresAt |-> now + TokenTTL])
    /\ UNCHANGED <<sessions, issued, now, valid, token, ident, todo, ended>>

-----------------------------------------------------------------------------
(* HandleLogout                                                            *)

LogoutHit(r, t) ==
    /\ Live(cache, t, now)
    /\ Go(r, "idle", "logoutListing")
    /\ token' = [token EXCEPT ![r] = t]
    /\ ident' = [ident EXCEPT ![r] = cache[t].identity]
    /\ UNCHANGED <<cache, sessions, issued, now, valid, todo, ended>>

LogoutMiss(r, t) ==
    /\ ~Live(cache, t, now)
    /\ Go(r, "idle", "logoutFetching")
    /\ cache' = Drop(cache, {t})
    /\ token' = [token EXCEPT ![r] = t]
    /\ UNCHANGED <<sessions, issued, now, valid, ident, todo, ended>>

\* A logout does not look at the user restrictions.
LogoutFetched(r) ==
    /\ token[r] \in valid
    /\ Go(r, "logoutFetching", "logoutListing")
    /\ ident' = [ident EXCEPT ![r] = [client |-> Owner[token[r]],
                                      sid |-> None, validatedAt |-> now]]
    /\ UNCHANGED <<cache, sessions, issued, now, valid, token, todo, ended>>

LogoutRefused(r) ==
    /\ Go(r, "logoutFetching", "rejected")
    /\ UNCHANGED <<cache, sessions, issued, now, valid, token, ident, todo, ended>>

ListSessions(r) ==
    /\ Go(r, "logoutListing", "logoutDeleting")
    /\ todo' = [todo EXCEPT ![r] = ActiveSessions(ident[r].client)]
    /\ UNCHANGED <<cache, sessions, issued, now, valid, token, ident, ended>>

DeleteSession(r) ==
    /\ pc[r] = "logoutDeleting"
    /\ \E s \in todo[r] :
          /\ Delete(s)
          /\ todo' = [todo EXCEPT ![r] = @ \ {s}]
          /\ ended' = ended \cup {s}
    /\ UNCHANGED <<cache, now, valid, pc, token, ident>>

\* Only the token of this request leaves the cache.
ForgetToken(r) ==
    /\ todo[r] = {}
    /\ Go(r, "logoutDeleting", "loggedOut")
    /\ cache' = Drop(cache, {token[r]})
    /\ UNCHANGED <<sessions, issued, now, valid, token, ident, todo, ended>>

-----------------------------------------------------------------------------
(* The response is written and the request is gone.                        *)
Respond(r) ==
    /\ pc[r] \in Answered
    /\ pc' = [pc EXCEPT ![r] = "idle"]
    /\ token' = [token EXCEPT ![r] = None]
    /\ ident' = [ident EXCEPT ![r] = None]
    /\ UNCHANGED <<cache, sessions, issued, now, valid, todo, ended>>

(* The two cleanup goroutines.  runCleanup reads the clock before the      *)
(* cache is locked: the time it uses may be past.                          *)
CleanSessions ==
    /\ RemoveExpired
    /\ UNCHANGED <<cache, now, valid, handler, ended>>

CleanTokens ==
    /\ \E at \in 0..now : cache' = Drop(cache, ExpiredKeys(cache, at))
    /\ UNCHANGED <<sessions, issued, now, valid, handler, ended>>

(* The provider stops accepting a token.                                   *)
Revoke(t) ==
    /\ valid' = valid \ {t}
    /\ UNCHANGED <<cache, sessions, issued, now, handler, ended>>

(* Time passes, but not so much that a request overstays MaxDelay between  *)
(* the provider's answer and the put: no call that can wait is in between. *)
Tick ==
    /\ now < MaxTime
    /\ \A r \in Request :
          pc[r] \in {"resolved", "created"} => now < ident[r].validatedAt + MaxDelay
    /\ now' = now + 1
    /\ UNCHANGED <<cache, sessions, issued, valid, handler, ended>>

Handle(r) ==
    \/ FetchAdmitted(r) \/ FetchRefused(r)
    \/ CreateSession(r) \/ CreateFails(r) \/ CachePut(r)
    \/ LogoutFetched(r) \/ LogoutRefused(r)
    \/ ListSessions(r) \/ DeleteSession(r) \/ ForgetToken(r)
    \/ Respond(r)

Arrive(r, t) ==
    CacheHit(r, t) \/ CacheMiss(r, t) \/ LogoutHit(r, t) \/ LogoutMiss(r, t)

Next ==
    \/ \E r \in Request : Handle(r) \/ \E t \in Token : Arrive(r, t)
    \/ CleanSessions
    \/ CleanTokens
    \/ \E t \in Token : Revoke(t)
    \/ Tick

Spec == Init /\ [][Next]_vars
-----------------------------------------------------------------------------
(* Type invariant. *)
TypeOK ==
    /\ DOMAIN cache \subseteq Token
    /\ \A t \in DOMAIN cache : cache[t] \in [identity : Ident, expiresAt : Nat]
    /\ Cardinality(DOMAIN cache) <= MaxSize
    /\ DOMAIN issued \subseteq SessionId
    /\ \A s \in DOMAIN issued : issued[s] \in Client
    /\ DOMAIN sessions \subseteq DOMAIN issued
    /\ \A s \in DOMAIN sessions : sessions[s] \in Session
    /\ now \in Nat
    /\ valid \subseteq Token
    /\ pc \in [Request -> Start \cup Authenticating \cup LoggingOut \cup Answered]
    /\ token \in [Request -> Token \cup {None}]
    /\ ident \in [Request -> Ident \cup {None}]
    /\ todo \in [Request -> SUBSET DOMAIN issued]
    /\ ended \subseteq DOMAIN issued

(* An identity belongs to the token it is held for, and its client is      *)
(* not one the restrictions turn away.                                     *)
IdentityOf(t, i) == i.client = Owner[t] /\ i.client \notin Denied

(* Whatever requests run at once and whatever the cache evicts, a request  *)
(* is accepted as the owner of the token it carries, never as the owner of *)
(* another token, and a client that the deny and allow patterns turn away  *)
(* is neither accepted nor cached.                                         *)
AcceptedAsTheOwner ==
    /\ \A t \in DOMAIN cache : IdentityOf(t, cache[t].identity)
    /\ \A r \in Request : pc[r] = "accepted" => IdentityOf(token[r], ident[r])

\* The session an identity names was created for its client.
OwnsItsSession(i) == i.sid \in DOMAIN issued /\ issued[i.sid] = i.client

(* An accepted identity carries a session, and the session was created for *)
(* the same client: the classification floor, which is kept by session, is *)
(* never shared by two clients.                                            *)
SessionIsTheClients ==
    /\ \A s \in DOMAIN sessions : sessions[s].client = issued[s]
    /\ \A t \in DOMAIN cache : OwnsItsSession(cache[t].identity)
    /\ \A r \in Request : pc[r] = "accepted" => OwnsItsSession(ident[r])

(* A token is accepted on an answer of the provider that is at most a      *)
(* token lifetime (and the delay of the request that asked) old, even when *)
(* the provider has revoked it since: hits do not prolong an entry.        *)
AcceptedOnRecentAnswer ==
    [][\A r \in Request :
          pc[r] # "accepted" /\ pc'[r] = "accepted" =>
              now <= ident'[r].validatedAt + TokenTTL + MaxDelay]_vars

SessionsOutliveTokens == SessionTTL >= TokenTTL + MaxDelay

(* When sessions are configured to live longer than cached tokens, the     *)
(* store still has the session of every token the cache accepts, unless a  *)
(* logout deleted it: cleanup never takes it away first.                   *)
CachedSessionsExist ==
    SessionsOutliveTokens =>
        \A t \in Token :
            Live(cache, t, now) =>
                cache[t].identity.sid \in DOMAIN sessions \cup ended

(* Together: the client that RBAC, the rate limiter and the audit are told *)
(* of is the one who asks, and the session theirs.                         *)
AcceptedIsTheClient ==
    TypeOK /\ AcceptedAsTheOwner /\ SessionIsTheClients /\ CachedSessionsExist
=============================================================================
