------------------------------ MODULE Sessions ------------------------------
(***************************************************************************)
(* The session map of internal/auth/session.go and what the methods of     *)
(* SessionStore do to it.  Each method holds the store's lock throughout,  *)
(* so each is one step.  The module has no next-state relation of its own: *)
(* SessionStore adds the persistence loop and restarts, Authenticator the  *)
(* requests that create and delete sessions.                               *)
(***************************************************************************)
EXTENDS Integers

CONSTANTS SessionId,   \* the UUIDs generateUUID returns, never twice the same
          Client,      \* provider-assigned user identifiers
          SessionTTL   \* ttl, in ticks of the clock

ASSUME SessionTTLAssumption == SessionTTL \in Nat \ {0}

VARIABLES sessions,    \* s.sessions
          issued,      \* the client each identifier was ever issued for
          now          \* the clock

Session == [client : Client, expiresAt : Nat]

NoSessions == [s \in {} |-> s]

With(map, id, value) ==
    [s \in DOMAIN map \cup {id} |-> IF s = id THEN value ELSE map[s]]

Removing(ids) == [s \in DOMAIN sessions \ ids |-> sessions[s]]

IsExpired(s) == now > sessions[s].expiresAt

NewSession(c) == [client |-> c, expiresAt |-> now + SessionTTL]

\* Create: a fresh identifier, stored under the lock.
Create(id, c) ==
    /\ id \notin DOMAIN issued
    /\ issued' = With(issued, id, c)
    /\ sessions' = With(sessions, id, NewSession(c))

\* Get on a session that has not expired extends it by the whole TTL.
GetLive(id) ==
    /\ id \in DOMAIN sessions
    /\ ~IsExpired(id)
    /\ sessions' = [sessions EXCEPT ![id].expiresAt = now + SessionTTL]
    /\ UNCHANGED issued

\* Get on an expired session removes it and fails.
GetExpired(id) ==
    /\ id \in DOMAIN sessions
    /\ IsExpired(id)
    /\ sessions' = Removing({id})
    /\ UNCHANGED issued

\* Delete does nothing when the session is not there.
Delete(id) ==
    /\ sessions' = Removing({id})
    /\ UNCHANGED issued

\* GetByClientID: strictly before the expiry, where Get and cleanup still
\* count the instant of expiry as alive.
ActiveSessions(c) ==
    {s \in DOMAIN sessions : sessions[s].client = c /\ now < sessions[s].expiresAt}

\* cleanup
RemoveExpired ==
    /\ sessions' = Removing({s \in DOMAIN sessions : IsExpired(s)})
    /\ UNCHANGED issued
=============================================================================
