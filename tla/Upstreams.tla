------------------------------ MODULE Upstreams ------------------------------
(***************************************************************************)
(* The MCP servers behind the proxy, as far as their tools/list goes: each *)
(* changes the list it offers from one of Lists to the next.  External:    *)
(* the router's tools cache and the tool catalog fetch these lists.        *)
(***************************************************************************)
EXTENDS Integers, Sequences

CONSTANTS Server,      \* the names of the enabled servers
          Name,        \* tool names
          Lists        \* the lists that a server offers one after the other

ASSUME ListsAssumption == Lists \in Seq(Seq(Name)) /\ Lists # <<>>

VARIABLE offer         \* which of Lists each server offers

Version == 1..Len(Lists)

OffersFirst == offer = [s \in Server |-> 1]

ListChanges(s) ==
    /\ offer[s] < Len(Lists)
    /\ offer' = [offer EXCEPT ![s] = @ + 1]
=============================================================================
