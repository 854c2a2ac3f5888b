------------------------------ MODULE Lifecycle ------------------------------
(***************************************************************************)
(* The life of the process as main of cmd/mcpproxy/main.go runs it, around *)
(* the session store: requests are served until a signal arrives; main     *)
(* then stops the background goroutines, shuts the server down for at most *)
(* ten seconds and returns through its deferred calls, the last of which   *)
(* stops the session store a second time.                                  *)
(*                                                                         *)
(* A request's handler touches the session store, works, and logs its      *)
(* audit entry before it returns; net/http is external.  The registry of   *)
(* one server without a tool catalog is modelled.                          *)
(***************************************************************************)
EXTENDS SessionStore

CONSTANT Request       \* bound: connections served at the same time

VARIABLES main,        \* where main is
          handler,     \* where the handler of each connection is
          audit,       \* the audit engine: open, closing or closed
          closed,      \* the stop channels other than s.stop that are closed
          forced,      \* history: Shutdown ran out of time
          late,        \* history: a request was logged to a closed engine
          panicked     \* history: the process ended by a panic of main

processVars == <<main, handler, audit, closed, forced, late, panicked>>
lifeVars == <<vars, processVars>>

AllIdle == [r \in Request |-> "idle"]

LifeInit ==
    /\ Init
    /\ main = "serving"
    /\ handler = AllIdle
    /\ audit = "open"
    /\ closed = {}
    /\ forced = FALSE
    /\ late = FALSE
    /\ panicked = FALSE

-----------------------------------------------------------------------------
(* Requests.  net/http accepts until Shutdown closes the listener.         *)

Accept(r) ==
    /\ up
    /\ main \in {"serving", "signalled"}
    /\ handler[r] = "idle"
    /\ handler' = [handler EXCEPT ![r] = "begun"]
    /\ UNCHANGED <<vars, main, audit, closed, forced, late, panicked>>

\* The authenticator finds, creates or deletes a session, or leaves the
\* store alone (a cached identity, a refusal).
UseSession(r) ==
    /\ up
    /\ handler[r] = "begun"
    /\ handler' = [handler EXCEPT ![r] = "working"]
    /\ \/ \E id \in SessionId :
            \/ \E c \in Client : HandleCreate(id, c)
            \/ HandleGet(id)
            \/ HandleDelete(id)
       \/ UNCHANGED vars
    /\ UNCHANGED <<main, audit, closed, forced, late, panicked>>

\* Log waits for the engine's read lock while Close has the write lock, and
\* gives the entry to sinks that nobody reads any more once it is closed.
LogAndReturn(r) ==
    /\ up
    /\ handler[r] = "working"
    /\ audit # "closing"
    /\ handler' = [handler EXCEPT ![r] = "idle"]
    /\ late' = (late \/ audit = "closed")
    /\ UNCHANGED <<vars, main, audit, closed, forced, panicked>>

-----------------------------------------------------------------------------
(* The end of the process, by main or in spite of it.                      *)

Ends ==
    /\ up
    /\ Crash \/ Exit
    /\ main' = "ended"
    /\ handler' = AllIdle
    /\ UNCHANGED <<audit, closed, forced, late>>

\* Killed, a fatal error of the runtime, or log.Fatal when serving fails.
Killed == Ends /\ UNCHANGED panicked

\* close of a closed channel.
Panic == Ends /\ panicked' = TRUE

Signal ==
    /\ up
    /\ main = "serving"
    /\ main' = "signalled"
    /\ UNCHANGED <<vars, handler, audit, closed, forced, late, panicked>>

\* Wrong: Stop empties the store as well.
StopBackgroundClearing ==
    /\ main = "signalled"
    /\ main' = "shutting"
    /\ closed' = {"rlStop", "stopCleanup"}
    /\ stopping' = TRUE
    /\ sessions' = NoSessions
    /\ UNCHANGED <<issued, now, disk, up, loop, saving, history>>
    /\ UNCHANGED <<handler, audit, forced, late, panicked>>

\* close(rlStop), StopCleanup and sessionStore.Stop, which makes cleanupLoop
\* save once more; nothing waits for that.
StopBackground ==
    /\ main = "signalled"
    /\ main' = "shutting"
    /\ closed' = {"rlStop", "stopCleanup"}
    /\ Stop
    /\ UNCHANGED <<handler, audit, forced, late, panicked>>

\* Wrong: Shutdown does not wait for the handlers.
ShutdownReturnsAtOnce ==
    /\ main = "shutting"
    /\ main' = "returning"
    /\ UNCHANGED <<vars, handler, audit, closed, forced, late, panicked>>

\* Shutdown returns when no connection is active.
ShutdownReturns ==
    /\ main = "shutting"
    /\ handler = AllIdle
    /\ main' = "returning"
    /\ UNCHANGED <<vars, handler, audit, closed, forced, late, panicked>>

\* Wrong: Shutdown is called with a context that has no deadline.
ShutdownTimesOutNever ==
    /\ FALSE
    /\ UNCHANGED lifeVars

\* The ten seconds are over: Close closes the connections, not the handlers.
ShutdownTimesOut ==
    /\ main = "shutting"
    /\ main' = "returning"
    /\ forced' = TRUE
    /\ UNCHANGED <<vars, handler, audit, closed, late, panicked>>

-----------------------------------------------------------------------------
(* The deferred calls, last deferred first: cancel, auditLogger.Close,     *)
(* StopCleanup, sessionStore.Stop.                                         *)

CloseAudit ==
    /\ main = "returning"
    /\ main' = "closing"
    /\ audit' = "closing"
    /\ UNCHANGED <<vars, handler, closed, forced, late, panicked>>

\* Each sink's goroutine posts its batch and returns.
AuditClosed ==
    /\ main = "closing"
    /\ main' = "closed"
    /\ audit' = "closed"
    /\ UNCHANGED <<vars, handler, closed, forced, late, panicked>>

\* Wrong: StopCleanup closes without looking.
StopCleanupAgainClosing ==
    /\ main = "closed"
    /\ IF "stopCleanup" \in closed
       THEN Panic
       ELSE /\ main' = "last"
            /\ closed' = closed \cup {"stopCleanup"}
            /\ UNCHANGED <<vars, handler, audit, forced, late, panicked>>

\* StopCleanup finds its channel closed.
StopCleanupAgain ==
    /\ main = "closed"
    /\ main' = "last"
    /\ closed' = closed \cup {"stopCleanup"}
    /\ UNCHANGED <<vars, handler, audit, forced, late, panicked>>

\* The second sessionStore.Stop.
StopSessionsAgain == main = "last" /\ stopping /\ Panic

-----------------------------------------------------------------------------
\* The next process has everything of its own but the session file.
Start ==
    /\ Restart
    /\ main' = "serving"
    /\ handler' = AllIdle
    /\ audit' = "open"
    /\ closed' = {}
    /\ forced' = FALSE
    /\ late' = FALSE
    /\ panicked' = FALSE

\* cleanupLoop and the clock run beside all this.
Background ==
    /\ \/ OnTick \/ BeginSave \/ Commit \/ SaveFails
       \/ \E id \in SessionId : ReadOne(id)
       \/ Tick
    /\ UNCHANGED processVars

MainReturns ==
    \/ StopBackground
    \/ ShutdownReturns \/ ShutdownTimesOut
    \/ CloseAudit \/ AuditClosed
    \/ StopCleanupAgain \/ StopSessionsAgain

LifeNext ==
    \/ \E r \in Request : Accept(r) \/ UseSession(r) \/ LogAndReturn(r)
    \/ Signal \/ MainReturns \/ Killed \/ Start
    \/ Background

\* main is scheduled, its ten-second timer fires and the posts that Close
\* waits for end (their client has a timeout).  Nothing makes a handler
\* return.
LifeSpec == LifeInit /\ [][LifeNext]_lifeVars /\ WF_lifeVars(MainReturns)
-----------------------------------------------------------------------------
(* Type invariant: the store is told to stop before Shutdown begins, and a *)
(* process that has ended has no handlers.                                 *)
LifeTypeOK ==
    /\ main \in {"serving", "signalled", "shutting", "returning",
                 "closing", "closed", "last", "ended"}
    /\ handler \in [Request -> {"idle", "begun", "working"}]
    /\ audit \in {"open", "closing", "closed"}
    /\ closed \subseteq {"rlStop", "stopCleanup"}
    /\ forced \in BOOLEAN /\ late \in BOOLEAN /\ panicked \in BOOLEAN
    /\ up <=> main # "ended"
    /\ ~up => handler = AllIdle
    /\ up => (stopping <=> main \notin {"serving", "signalled"})

(* Every request that was answered is in the audit trail when the engine   *)
(* closes: Log comes after Close only when Shutdown ran out of its time.   *)
LoggedBeforeClose == TypeOK /\ LifeTypeOK /\ (late => forced)

(* Every shutdown ends in the panic of the second Stop (session.go:222),   *)
(* but only when nothing can be lost by it any more: the handlers have     *)
(* returned, unless Shutdown ran out of time, and the audit is closed.     *)
PanicsLast == [][panicked' # panicked /\ panicked' =>
                    /\ main = "last" /\ audit = "closed"
                    /\ forced \/ handler = AllIdle]_lifeVars

(* After a signal the process ends, whatever its handlers wait for and     *)
(* although Close waits for the sinks while it holds the engine's lock.    *)
SignalEndsTheProcess == main = "signalled" ~> main = "ended"

(* Main and the handlers use the session store as its own specification    *)
(* says its environment does: what is shown of SessionStore holds here.    *)
UsesTheSessionStore == Spec
=============================================================================
