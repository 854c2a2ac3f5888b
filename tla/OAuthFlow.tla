----------------------------- MODULE OAuthFlow -----------------------------
(***************************************************************************)
(* The authorization code flow of internal/auth/oauth.go: HandleAuthStart, *)
(* HandleCallback and the part of runCleanup that ages the state cache.    *)
(* Browsers start flows, the provider redirects them back, and callbacks   *)
(* are handled concurrently, possibly several times for one flow (a        *)
(* reload) and from a browser that did not start it (a copied address).    *)
(***************************************************************************)
EXTENDS Integers

CONSTANTS Browser,     \* the browsers
          State,       \* values of the state parameter, never twice the same
          Handler,     \* callbacks that can be in progress together
          Lifetime,    \* ten minutes, in ticks of the clock
          MaxTime,     \* bound: the clock stops here
          None         \* no cookie, no state, no browser

ASSUME FlowAssumption ==
    /\ None \notin Browser \cup State
    /\ Lifetime \in Nat
    /\ MaxTime \in Nat

VARIABLES stateCache,  \* a.stateCache: when each stored state was created; the
                       \* verifier stored with it is the state's own
          cookie,      \* the oauth_state cookie of each browser
          starter,     \* the browser each state was created for
          authorized,  \* the states the provider has sent back a code for
          pc,          \* where each callback handler is
          from,        \* the browser whose callback it handles
          state,       \* the state parameter of that callback
          sweep,       \* the time runCleanup has read, until Range is done
          now,         \* the clock
          exchanges,   \* history: token requests made for each state
          tokens       \* history: <<browser, state>> for each token handed out

handler == <<pc, from, state>>
history == <<exchanges, tokens>>
vars == <<stateCache, cookie, starter, authorized, handler, sweep, now, history>>

NoSweep == -1

Forgetting(S) == [s \in DOMAIN stateCache \ S |-> stateCache[s]]

Init ==
    /\ stateCache = [s \in {} |-> 0]
    /\ cookie = [b \in Browser |-> None]
    /\ starter = [s \in State |-> None]
    /\ authorized = {}
    /\ pc = [h \in Handler |-> "idle"]
    /\ from = [h \in Handler |-> None]
    /\ state = [h \in Handler |-> None]
    /\ sweep = NoSweep
    /\ now = 0
    /\ exchanges = [s \in State |-> 0]
    /\ tokens = {}

-----------------------------------------------------------------------------
\* HandleAuthStart: a fresh state (and verifier) is stored, and the response
\* sets the browser's cookie, over that of a flow started before.
Start(b, s) ==
    /\ starter[s] = None
    /\ starter' = [starter EXCEPT ![s] = b]
    /\ stateCache' = [x \in DOMAIN stateCache \cup {s} |->
                         IF x = s THEN now ELSE stateCache[x]]
    /\ cookie' = [cookie EXCEPT ![b] = s]
    /\ UNCHANGED <<authorized, handler, sweep, now, history>>

\* The user consents and the provider redirects to the callback address.
Authorize(s) ==
    /\ starter[s] # None
    /\ authorized' = authorized \cup {s}
    /\ UNCHANGED <<stateCache, cookie, starter, handler, sweep, now, history>>

\* The cookie's MaxAge, or the user, removes it.
LoseCookie(b) ==
    /\ cookie' = [cookie EXCEPT ![b] = None]
    /\ UNCHANGED <<stateCache, starter, authorized, handler, sweep, now, history>>

-----------------------------------------------------------------------------
(* HandleCallback. A callback without code or state, or whose cookie is    *)
(* missing or is not its state, gets an error and changes nothing.         *)

\* Wrong: the cookie is not compared.
ReceiveAnyCookie(h, b, s) ==
    /\ pc[h] = "idle"
    /\ s \in authorized
    /\ pc' = [pc EXCEPT ![h] = "matched"]
    /\ from' = [from EXCEPT ![h] = b]
    /\ state' = [state EXCEPT ![h] = s]
    /\ cookie' = [cookie EXCEPT ![b] = None]
    /\ UNCHANGED <<stateCache, starter, authorized, sweep, now, history>>

\* The cookie matches and is cleared.
Receive(h, b, s) ==
    /\ pc[h] = "idle"
    /\ s \in authorized
    /\ cookie[b] = s
    /\ pc' = [pc EXCEPT ![h] = "matched"]
    /\ from' = [from EXCEPT ![h] = b]
    /\ state' = [state EXCEPT ![h] = s]
    /\ cookie' = [cookie EXCEPT ![b] = None]
    /\ UNCHANGED <<stateCache, starter, authorized, sweep, now, history>>

\* A copy of a callback that was sent with the same cookie, before the
\* response to the first one cleared it; it may arrive at any later time.
ReceiveCopy(h, g) ==
    /\ pc[h] = "idle"
    /\ state[g] # None
    /\ pc' = [pc EXCEPT ![h] = "matched"]
    /\ from' = [from EXCEPT ![h] = from[g]]
    /\ state' = [state EXCEPT ![h] = state[g]]
    /\ UNCHANGED <<stateCache, cookie, starter, authorized, sweep, now, history>>

\* Wrong: Load instead of LoadAndDelete, and the entry left to the cleanup.
ConsumeKeeping(h) ==
    /\ pc[h] = "matched"
    /\ state[h] \in DOMAIN stateCache
    /\ now - stateCache[state[h]] <= Lifetime
    /\ pc' = [pc EXCEPT ![h] = "exchanging"]
    /\ exchanges' = [exchanges EXCEPT ![state[h]] = @ + 1]
    /\ UNCHANGED <<stateCache, cookie, starter, authorized, from, state, sweep, now, tokens>>

\* LoadAndDelete finds the entry, still young enough: the token is asked for.
Consume(h) ==
    /\ pc[h] = "matched"
    /\ state[h] \in DOMAIN stateCache
    /\ now - stateCache[state[h]] <= Lifetime
    /\ stateCache' = Forgetting({state[h]})
    /\ pc' = [pc EXCEPT ![h] = "exchanging"]
    /\ exchanges' = [exchanges EXCEPT ![state[h]] = @ + 1]
    /\ UNCHANGED <<cookie, starter, authorized, from, state, sweep, now, tokens>>

\* The entry is not there, or is there and too old: it is gone afterwards.
Refuse(h) ==
    /\ pc[h] = "matched"
    /\ state[h] \in DOMAIN stateCache => now - stateCache[state[h]] > Lifetime
    /\ stateCache' = Forgetting({state[h]})
    /\ pc' = [pc EXCEPT ![h] = "idle"]
    /\ UNCHANGED <<cookie, starter, authorized, from, state, sweep, now, history>>

\* exchangeCode returns a token, which is the response to the browser.
Exchanged(h) ==
    /\ pc[h] = "exchanging"
    /\ tokens' = tokens \cup {<<from[h], state[h]>>}
    /\ pc' = [pc EXCEPT ![h] = "idle"]
    /\ UNCHANGED <<stateCache, cookie, starter, authorized, from, state, sweep, now, exchanges>>

ExchangeFails(h) ==
    /\ pc[h] = "exchanging"
    /\ pc' = [pc EXCEPT ![h] = "idle"]
    /\ UNCHANGED <<stateCache, cookie, starter, authorized, from, state, sweep, now, history>>

-----------------------------------------------------------------------------
(* runCleanup reads the clock once and then visits the state cache.        *)

StartSweep ==
    /\ sweep = NoSweep
    /\ sweep' = now
    /\ UNCHANGED <<stateCache, cookie, starter, authorized, handler, now, history>>

\* Wrong: an entry is removed when it reaches the lifetime, one tick early.
SweepEarly ==
    /\ sweep # NoSweep
    /\ stateCache' = Forgetting({s \in DOMAIN stateCache : sweep - stateCache[s] >= Lifetime})
    /\ sweep' = NoSweep
    /\ UNCHANGED <<cookie, starter, authorized, handler, now, history>>

Sweep ==
    /\ sweep # NoSweep
    /\ stateCache' = Forgetting({s \in DOMAIN stateCache : sweep - stateCache[s] > Lifetime})
    /\ sweep' = NoSweep
    /\ UNCHANGED <<cookie, starter, authorized, handler, now, history>>

Tick ==
    /\ now < MaxTime
    /\ now' = now + 1
    /\ UNCHANGED <<stateCache, cookie, starter, authorized, handler, sweep, history>>

Next ==
    \/ \E b \in Browser, s \in State : Start(b, s)
    \/ \E s \in State : Authorize(s)
    \/ \E b \in Browser : LoseCookie(b)
    \/ \E h \in Handler :
          \/ \E b \in Browser, s \in State : Receive(h, b, s)
          \/ \E g \in Handler : ReceiveCopy(h, g)
          \/ Consume(h) \/ Refuse(h) \/ Exchanged(h) \/ ExchangeFails(h)
    \/ StartSweep \/ Sweep
    \/ Tick

Spec == Init /\ [][Next]_vars

-----------------------------------------------------------------------------
(* Type invariant. *)
TypeOK ==
    /\ DOMAIN stateCache \subseteq State
    /\ \A s \in DOMAIN stateCache : stateCache[s] \in 0..now
    /\ cookie \in [Browser -> State \cup {None}]
    /\ starter \in [State -> Browser \cup {None}]
    /\ authorized \subseteq State
    /\ pc \in [Handler -> {"idle", "matched", "exchanging"}]
    /\ from \in [Handler -> Browser \cup {None}]
    /\ state \in [Handler -> State \cup {None}]
    /\ sweep \in {NoSweep} \cup 0..now
    /\ now \in 0..MaxTime
    /\ exchanges \in [State -> Nat]
    /\ tokens \subseteq Browser \X State

(* A state (and the PKCE verifier stored with it) serves for one token     *)
(* request, however many copies of its callback are handled at once:       *)
(* "Retrieve and consume PKCE entry (one-time use)".                       *)
OneExchangePerState == \A s \in State : exchanges[s] <= 1

(* A token is handed only to the browser that started the flow: "only the  *)
(* browser that initiated the flow can complete it".                       *)
TokenToTheStarter == \A d \in tokens : d[1] = starter[d[2]]

(* A state is kept for its whole lifetime unless a callback consumes it:   *)
(* a cleanup running beside HandleAuthStart never removes a younger one.   *)
ForgetsOnlyUsedOrOld ==
    \A s \in DOMAIN stateCache \ DOMAIN stateCache' :
        \/ now - stateCache[s] > Lifetime
        \/ \E h \in Handler : state[h] = s /\ pc[h] = "matched" /\ pc'[h] = "exchanging"

KeptForItsLifetime == [][ForgetsOnlyUsedOrOld]_vars
=============================================================================
