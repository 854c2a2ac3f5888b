---------------------------- MODULE MCOAuthFlow ----------------------------
(* Two browsers, three flows between them, two callbacks at a time.        *)
EXTENDS OAuthFlow, TLC

Symmetry == Permutations(Browser) \cup Permutations(State) \cup Permutations(Handler)
=============================================================================
