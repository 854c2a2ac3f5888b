------------------------------ MODULE ToolNames ------------------------------
(***************************************************************************)
(* The names that GetAggregatedTools gives to the tools of all servers, in *)
(* internal/proxy/server_router.go and internal/catalog.  The router takes *)
(* the servers from a map, in an order that changes from call to call.     *)
(*                                                                         *)
(* A name is the sequence of its parts between the dots.                   *)
(***************************************************************************)
EXTENDS Integers, Sequences, FiniteSets

CONSTANTS Part,        \* what names are made of
          Listing      \* what the servers list: functions from their names
                       \* to sequences of tool names

DottedName == Seq(Part) \ {<<>>}

ASSUME ListingAssumption ==
    \A l \in Listing : \A s \in DOMAIN l : s \in DottedName /\ l[s] \in Seq(DottedName)

VARIABLES tools,       \* the lists of the servers that have a fresh one
          waiting,     \* those not visited yet
          globalNames, \* tool names seen
          aggregated   \* the answer: each tool, with the name it was given

nameVars == <<tools, waiting, globalNames, aggregated>>

NamesInit ==
    /\ tools \in Listing
    /\ waiting = DOMAIN tools
    /\ globalNames = {}
    /\ aggregated = <<>>

\* Wrong: of a name that is taken, the tool goes without its server's.
NewNameBare(s, name, taken) == IF taken THEN name ELSE s \o name

\* "files.read", or "read.files" if there is a "read" already.
NewName(s, name, taken) == IF taken THEN name \o s ELSE s \o name

VisitServer(s) ==
    LET list == tools[s]
        Taken(i) == list[i] \in globalNames \cup {list[j] : j \in 1..(i - 1)}
    IN  /\ s \in waiting
        /\ waiting' = waiting \ {s}
        /\ globalNames' = globalNames \cup {list[i] : i \in DOMAIN list}
        /\ aggregated' = aggregated \o
             [i \in DOMAIN list |-> [server |-> s, tool |-> list[i],
                                     name |-> NewName(s, list[i], Taken(i))]]
        /\ UNCHANGED tools

NamesNext == \E s \in DOMAIN tools : VisitServer(s)

NamesSpec == NamesInit /\ [][NamesNext]_nameVars
-----------------------------------------------------------------------------
ListsNoneTwice ==
    \A s \in DOMAIN tools : \A i, j \in DOMAIN tools[s] : tools[s][i] = tools[s][j] => i = j

\* No server's name has a dot, or is what some tool's name begins with.
ServersStandApart ==
    /\ \A s \in DOMAIN tools : Len(s) = 1
    /\ \A s, t \in DOMAIN tools : \A i \in DOMAIN tools[t] : Head(tools[t][i]) # s[1]

(* In whatever order the servers come, a client can tell all tools by the  *)
(* names it is shown, if no server lists a name twice and none is named    *)
(* like a tool or its first part.                                          *)
ShownNamesDiffer ==
    (ListsNoneTwice /\ ServersStandApart) =>
        \A i, j \in DOMAIN aggregated :
            aggregated[i].name = aggregated[j].name => i = j
=============================================================================
