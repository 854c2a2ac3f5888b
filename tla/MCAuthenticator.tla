---------------------------- MODULE MCAuthenticator ----------------------------
(* Three clients with a token each, of which the restrictions turn the     *)
(* third away.                                                              *)
EXTENDS Authenticator, TLC

CONSTANTS t1, t2, t3, alice, bob, carol

ClientsOwner == (t1 :> alice) @@ (t2 :> bob) @@ (t3 :> carol)

\* Requests, sessions, and the first two clients together
\* with their tokens can be exchanged.
ExchangeClients == (t1 :> t2) @@ (t2 :> t1) @@ (alice :> bob) @@ (bob :> alice)
Symmetry == Permutations(Request) \cup Permutations(SessionId) \cup {ExchangeClients}
=============================================================================
