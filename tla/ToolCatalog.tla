----------------------------- MODULE ToolCatalog -----------------------------
(***************************************************************************)
(* ToolCatalog of internal/catalog/catalog.go: a loop that fetches the     *)
(* tools/list of all servers in parallel, and writes each answer to a      *)
(* SQLite table in a transaction of its own.  The table outlives the       *)
(* process.  The loop is modelled with the refresh interval it is meant to *)
(* have, and the writing of a transaction call by call: Stop closes the    *)
(* database and the process may end between any two calls.                 *)
(***************************************************************************)
EXTENDS Upstreams, FiniteSets

CONSTANT Restarts      \* bound: how often the process is started again

ASSUME CatalogAssumption == IsFiniteSet(Server) /\ Restarts \in Nat

VARIABLES rows,        \* the committed rows of each server: name and version
          draft,       \* the rows as the open transaction sees them
          tasks,       \* the goroutines that run syncServer, where each is,
                       \* and the version that its server answered
          loop,        \* updateLoop: waiting for its ticker, syncing, or ended
          stopped,     \* Stop was called: context and database are gone
          starts       \* how often the process was started again

catalogVars == <<rows, draft, tasks, loop, stopped, starts>>

Asking == {[server |-> s, at |-> "asked", got |-> 1] : s \in Server}

CatalogInit ==
    /\ rows = [s \in Server |-> {}]
    /\ draft = {}
    /\ tasks = Asking
    /\ loop = "syncing"
    /\ stopped = FALSE
    /\ starts = 0

Becomes(t, t2) == tasks' = (tasks \ {t}) \cup {t2}

\* syncServer returns, with or without an error.
Ends(t) == tasks' = tasks \ {t}

\* The ticker fires: syncAllServers starts a goroutine for every server.
SyncAll ==
    /\ loop = "waiting"
    /\ loop' = "syncing"
    /\ tasks' = tasks \cup Asking
    /\ UNCHANGED <<rows, draft, stopped, starts>>

\* The list the server offers at some time while it is asked.
Answered(t) ==
    /\ t.at = "asked"
    /\ ~stopped
    /\ Becomes(t, [t EXCEPT !.at = "answered", !.got = offer[t.server]])
    /\ UNCHANGED <<rows, draft, loop, stopped, starts>>

\* No answer, an error, something else than a list, or a cancelled context.
AskFails(t) ==
    /\ t.at = "asked"
    /\ Ends(t)
    /\ UNCHANGED <<rows, draft, loop, stopped, starts>>

\* upsertTools has the catalog's lock from here to its end.  The transaction
\* begins by deleting the server's rows.
Lock(t) == t.at = "answered" /\ \A u \in tasks : u.at # "writing"

BeginTx(t) ==
    /\ Lock(t)
    /\ ~stopped
    /\ Becomes(t, [t EXCEPT !.at = "writing"])
    /\ draft' = {}
    /\ UNCHANGED <<rows, loop, stopped, starts>>

\* BeginTx fails, in any case once the context is cancelled.
BeginFails(t) ==
    /\ Lock(t)
    /\ Ends(t)
    /\ UNCHANGED <<rows, draft, loop, stopped, starts>>

Inserted(t) == Cardinality(draft) = Len(Lists[t.got])

\* The tool to be inserted next.
NextRow(t) == [name |-> Lists[t.got][Cardinality(draft) + 1], version |-> t.got]

Insert(t) ==
    /\ t.at = "writing"
    /\ ~stopped
    /\ ~Inserted(t)
    /\ NextRow(t) \notin draft
    /\ draft' = draft \cup {NextRow(t)}
    /\ UNCHANGED <<rows, tasks, loop, stopped, starts>>

\* Wrong: the error of a failed insert is passed over.
CommitIncomplete(t) ==
    /\ t.at = "writing"
    /\ ~stopped
    /\ Inserted(t) \/ NextRow(t) \in draft
    /\ rows' = [rows EXCEPT ![t.server] = draft]
    /\ Ends(t)
    /\ UNCHANGED <<draft, loop, stopped, starts>>

Commit(t) ==
    /\ t.at = "writing"
    /\ ~stopped
    /\ Inserted(t)
    /\ rows' = [rows EXCEPT ![t.server] = draft]
    /\ Ends(t)
    /\ UNCHANGED <<draft, loop, stopped, starts>>

\* A statement fails - always for a name that is there already, because of
\* UNIQUE(server_name, name), and once the context is cancelled - and the
\* deferred Rollback leaves the rows as they were.
Rollback(t) ==
    /\ t.at = "writing"
    /\ Ends(t)
    /\ UNCHANGED <<rows, draft, loop, stopped, starts>>

\* Wrong: syncAllServers does not wait for its goroutines.
SyncDoneEarly ==
    /\ loop = "syncing"
    /\ loop' = IF stopped THEN "ended" ELSE "waiting"
    /\ UNCHANGED <<rows, draft, tasks, stopped, starts>>

\* All goroutines are done; the loop returns when it finds the stop.
SyncDone ==
    /\ loop = "syncing"
    /\ tasks = {}
    /\ loop' = IF stopped THEN "ended" ELSE "waiting"
    /\ UNCHANGED <<rows, draft, tasks, stopped, starts>>

Stop ==
    /\ ~stopped
    /\ stopped' = TRUE
    /\ loop' = IF loop = "waiting" THEN "ended" ELSE loop
    /\ UNCHANGED <<rows, draft, tasks, starts>>

\* The process ends, wherever it is, and the next one's Start syncs at once,
\* over the rows that were committed.
Restart ==
    /\ starts < Restarts
    /\ starts' = starts + 1
    /\ draft' = {}
    /\ tasks' = Asking
    /\ loop' = "syncing"
    /\ stopped' = FALSE
    /\ UNCHANGED rows

SyncServer(t) ==
    \/ Answered(t) \/ AskFails(t)
    \/ BeginTx(t) \/ BeginFails(t) \/ Insert(t) \/ Commit(t) \/ Rollback(t)

CatalogNext ==
    \/ \E t \in tasks : SyncServer(t)
    \/ SyncAll \/ SyncDone \/ Stop \/ Restart
-----------------------------------------------------------------------------
Versions(s) == {row.version : row \in rows[s]}

\* The rows that the v-th list gives.
AllOf(v) == {[name |-> Lists[v][i], version |-> v] : i \in DOMAIN Lists[v]}

Storable(v) == Cardinality(AllOf(v)) = Len(Lists[v])

(* Type invariant. *)
CatalogTypeOK ==
    /\ rows \in [Server -> SUBSET [name : Name, version : Version]]
    /\ draft \subseteq [name : Name, version : Version]
    /\ tasks \subseteq [server : Server, at : {"asked", "answered", "writing"}, got : Version]
    /\ Cardinality(tasks) <= Cardinality(Server)
    /\ loop \in {"waiting", "syncing", "ended"}
    /\ stopped \in BOOLEAN
    /\ starts \in 0..Restarts

(* The rows of a server are one whole answer of it, whatever failed, was   *)
(* cut off by Stop or by the end of the process: never a mix of two, never *)
(* the first tools of a list that could not be stored.                     *)
CatalogIsOneAnswer ==
    /\ CatalogTypeOK
    /\ \A s \in Server : rows[s] = {} \/ \E v \in 1..offer[s] : rows[s] = AllOf(v) /\ Storable(v)

(* A list is never replaced by one the server offered before it: the syncs *)
(* of a server do not overlap.                                             *)
CatalogNeverGoesBack ==
    [][\A s \in Server : \A v \in Versions(s), w \in Versions(s)' : v <= w]_rows
=============================================================================
