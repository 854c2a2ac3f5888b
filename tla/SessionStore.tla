---------------------------- MODULE SessionStore ----------------------------
(***************************************************************************)
(* SessionStore of internal/auth/session.go with the file backend: request *)
(* handlers use the map under its lock, while cleanupLoop writes it to a   *)
(* file without the lock, once a minute and when Stop is called.  The      *)
(* process can end at any time; the next one starts from the file.         *)
(*                                                                         *)
(* Save reads a map that handlers may be writing.  The runtime may stop    *)
(* the process for that (Crash covers it); when it does not, the file gets *)
(* each session as it was when the encoder reached it.                     *)
(***************************************************************************)
EXTENDS Sessions

CONSTANT MaxTime       \* bound: the clock stops here

ASSUME MaxTimeAssumption == MaxTime \in Nat

VARIABLES disk,        \* the content of the session file; none: no sessions
          up,          \* the process runs
          stopping,    \* s.stop is closed
          loop,        \* where cleanupLoop is
          unread,      \* Save: the sessions its encoder has not reached
          copy,        \* Save: what it has encoded
          deleted,     \* history: sessions removed and not restored since
          settled,     \* history: those of deleted when the save began
          gone,        \* history: those of settled when a save was completed
          steady       \* history: sessions in the map since the save began

saving == <<unread, copy>>
history == <<deleted, settled, gone, steady>>
vars == <<sessions, issued, now, disk, up, stopping, loop, saving, history>>

Saving == {"reading", "readingLast"}

Init ==
    /\ sessions = NoSessions
    /\ issued = NoSessions
    /\ now = 0
    /\ disk = NoSessions
    /\ up = TRUE
    /\ stopping = FALSE
    /\ loop = "waiting"
    /\ unread = {}
    /\ copy = NoSessions
    /\ deleted = {}
    /\ settled = {}
    /\ gone = {}
    /\ steady = {}

\* What leaves the map has been deleted, and was not there all along.
RecordRemoved ==
    LET removed == DOMAIN sessions \ DOMAIN sessions'
    IN  /\ deleted' = deleted \cup removed
        /\ steady' = steady \ removed
        /\ UNCHANGED <<settled, gone>>

-----------------------------------------------------------------------------
(* Request handlers.                                                       *)

\* A session stored while the encoder is at work may or may not be reached.
HandleCreate(id, c) ==
    /\ up
    /\ Create(id, c)
    /\ \/ UNCHANGED unread
       \/ loop \in Saving /\ unread' = unread \cup {id}
    /\ UNCHANGED <<now, disk, up, stopping, loop, copy, history>>

HandleGet(id) ==
    /\ up
    /\ GetLive(id) \/ GetExpired(id)
    /\ RecordRemoved
    /\ UNCHANGED <<now, disk, up, stopping, loop, saving>>

HandleDelete(id) ==
    /\ up
    /\ id \in DOMAIN sessions
    /\ Delete(id)
    /\ RecordRemoved
    /\ UNCHANGED <<now, disk, up, stopping, loop, saving>>

-----------------------------------------------------------------------------
(* cleanupLoop.  When the tick and the stop are both there, either is      *)
(* taken.                                                                  *)

OnTick ==
    /\ up
    /\ loop = "waiting"
    /\ RemoveExpired
    /\ RecordRemoved
    /\ loop' = "cleaned"
    /\ UNCHANGED <<now, disk, up, stopping, saving>>

\* Wrong: what was encoded by the save before is kept.
BeginSaveKeeping ==
    /\ up
    /\ \/ loop = "cleaned" /\ loop' = "reading"
       \/ loop = "waiting" /\ stopping /\ loop' = "readingLast"
    /\ unread' = DOMAIN sessions
    /\ settled' = deleted
    /\ steady' = DOMAIN sessions
    /\ UNCHANGED <<sessions, issued, now, disk, up, stopping, copy, deleted, gone>>

\* Save: after a tick's cleanup, or straight away on the stop.
BeginSave ==
    /\ up
    /\ \/ loop = "cleaned" /\ loop' = "reading"
       \/ loop = "waiting" /\ stopping /\ loop' = "readingLast"
    /\ unread' = DOMAIN sessions
    /\ copy' = NoSessions
    /\ settled' = deleted
    /\ steady' = DOMAIN sessions
    /\ UNCHANGED <<sessions, issued, now, disk, up, stopping, deleted, gone>>

ReadOne(id) ==
    /\ up
    /\ loop \in Saving
    /\ id \in unread
    /\ unread' = unread \ {id}
    /\ copy' = IF id \in DOMAIN sessions THEN With(copy, id, sessions[id]) ELSE copy
    /\ UNCHANGED <<sessions, issued, now, disk, up, stopping, loop, history>>

\* The loop waits for the next tick, or returns when the stop made it save.
AfterSave == loop' = IF loop = "reading" THEN "waiting" ELSE "ended"

\* Wrong: the session file is written in place, so that a crash or an error
\* in the middle leaves part of it.
CommitPartly ==
    /\ up
    /\ loop \in Saving
    /\ disk' = copy
    /\ gone' = gone \cup settled
    /\ AfterSave
    /\ UNCHANGED <<sessions, issued, now, up, stopping, saving, deleted, settled, steady>>

\* The temporary file is complete, and renaming replaces the session file.
Commit ==
    /\ up
    /\ loop \in Saving
    /\ unread = {}
    /\ disk' = copy
    /\ gone' = gone \cup settled
    /\ AfterSave
    /\ UNCHANGED <<sessions, issued, now, up, stopping, saving, deleted, settled, steady>>

\* Marshalling, writing or renaming fails: the session file stays as it was.
SaveFails ==
    /\ up
    /\ loop \in Saving
    /\ AfterSave
    /\ UNCHANGED <<sessions, issued, now, disk, up, stopping, saving, history>>

-----------------------------------------------------------------------------
(* The life of the process.                                                *)

Stop ==
    /\ up
    /\ ~stopping
    /\ stopping' = TRUE
    /\ UNCHANGED <<sessions, issued, now, disk, up, loop, saving, history>>

Down ==
    /\ up' = FALSE
    /\ sessions' = NoSessions
    /\ stopping' = FALSE
    /\ loop' = "ended"
    /\ unread' = {}
    /\ copy' = NoSessions
    /\ settled' = {}
    /\ steady' = {}
    /\ UNCHANGED <<issued, now, disk, deleted, gone>>

\* main returns some time after Stop: nothing waits for cleanupLoop.
Exit == up /\ stopping /\ Down

\* Any other end of the process (after Stop it is an Exit like any other).
Crash == up /\ ~stopping /\ Down

\* Restore: the file, or nothing when it cannot be read.
Restart ==
    /\ ~up
    /\ up' = TRUE
    /\ loop' = "waiting"
    /\ sessions' \in {disk, NoSessions}
    /\ deleted' = deleted \ DOMAIN sessions'
    /\ UNCHANGED <<issued, now, disk, stopping, saving, settled, gone, steady>>

Tick ==
    /\ now < MaxTime
    /\ now' = now + 1
    /\ UNCHANGED <<sessions, issued, disk, up, stopping, loop, saving, history>>

Next ==
    \/ \E id \in SessionId :
          \/ \E c \in Client : HandleCreate(id, c)
          \/ HandleGet(id)
          \/ HandleDelete(id)
          \/ ReadOne(id)
    \/ OnTick \/ BeginSave \/ Commit \/ SaveFails
    \/ Stop \/ Exit \/ Crash \/ Restart
    \/ Tick

Spec == Init /\ [][Next]_vars
-----------------------------------------------------------------------------
(* Type invariant. *)
TypeOK ==
    /\ DOMAIN issued \subseteq SessionId
    /\ \A s \in DOMAIN issued : issued[s] \in Client
    /\ \A map \in {sessions, disk, copy} :
          /\ DOMAIN map \subseteq DOMAIN issued
          /\ \A s \in DOMAIN map : map[s] \in Session /\ map[s].client = issued[s]
    /\ now \in 0..MaxTime
    /\ up \in BOOLEAN /\ stopping \in BOOLEAN
    /\ loop \in Saving \cup {"waiting", "cleaned", "ended"}
    /\ \A ids \in {unread, deleted, settled, gone, steady} : ids \subseteq DOMAIN issued

(* A session that was deleted (by a logout, by Get or by cleanup) before a *)
(* save began is not brought back by any restart once that save has been   *)
(* completed, although the save reads the map without the lock.            *)
DeletedStaysDeleted == gone \cap (DOMAIN sessions \cup DOMAIN disk) = {}

(* A completed save has every session that was in the map all the while,   *)
(* whatever was stored and deleted during the save: a restart never loses  *)
(* a session older than the last save.                                     *)
SaveIsComplete == [][disk' # disk => steady \subseteq DOMAIN disk']_vars
=============================================================================
