----------------------------- MODULE MCToolLists -----------------------------
(***************************************************************************)
(* The tools cache and the tool catalog over the same servers, each of     *)
(* which offers in turn a list, one that repeats a name and a short one.   *)
(* Neither reads the other's state, so it is enough to run either.         *)
(***************************************************************************)
EXTENDS ToolCatalog, ToolsCache

VARIABLE part          \* which of the two runs

vars == <<offer, catalogVars, cacheVars, part>>

MCLists == << <<"a", "b">>, <<"b", "b">>, <<"b">> >>

Init ==
    /\ OffersFirst
    /\ CatalogInit
    /\ CacheInit
    /\ part \in {"catalog", "cache"}

Next ==
    \/ \E s \in Server : ListChanges(s) /\ UNCHANGED <<catalogVars, cacheVars, part>>
    \/ part = "catalog" /\ CatalogNext /\ UNCHANGED <<offer, cacheVars, part>>
    \/ part = "cache" /\ CacheNext /\ UNCHANGED <<offer, catalogVars, part>>

Spec == Init /\ [][Next]_vars /\ CacheFairness
=============================================================================
