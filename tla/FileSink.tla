------------------------------ MODULE FileSink ------------------------------
(***************************************************************************)
(* The file sink of internal/audit/sinks/file.go: entries are appended to  *)
(* the log file, to stdout or to both, and the file is rotated through     *)
(* numbered backups.  Log and Close hold the sink's mutex, so entries come *)
(* one at a time; but the process may die between any two system calls of  *)
(* a rotation, and the next one opens the file it finds.                   *)
(*                                                                         *)
(* An entry is the number of the Log call it comes from; one line is one   *)
(* unit of size.                                                           *)
(***************************************************************************)
EXTENDS Integers, Sequences, SequencesExt, FiniteSets

CONSTANTS MaxSize,     \* maxSizeBytes, in lines; 0 is no limit
          MaxAge,      \* maxAgeHours; 0 is no limit
          MaxBackups,  \* maxBackups
          MaxEntries,  \* bound: calls of Log
          MaxTime,     \* bound on the clock
          MaxCrashes,  \* bound
          Absent       \* no such file

ASSUME FileAssumption ==
    /\ MaxSize \in Nat /\ MaxAge \in Nat /\ MaxBackups \in Nat \ {0}
    /\ MaxEntries \in Nat /\ MaxTime \in Nat /\ MaxCrashes \in Nat
    /\ Absent \notin Seq(1..MaxEntries)

VARIABLES output,      \* cfg.Output: "file" or "both"
          files,       \* file 0 is the log, file i its backup .i
          stdout,      \* what stdout got
          writers,     \* s.writers; a file is open, or closed and useless
          hasHandle,   \* s.fileHandle # nil
          written,     \* s.bytesWritten
          created,     \* s.fileCreatedAt
          pc,          \* idle, dead, or where rotate stands
          step,        \* the backup the cascade is at
          now,
          entries,     \* calls of Log so far
          filed,       \* history: entries logged while the sink had its file
          crashes

sinkVars == <<writers, hasHandle, written, created>>
disk == <<files, stdout>>
history == <<entries, filed, crashes>>
fileVars == <<output, files, stdout, writers, hasHandle, written, created,
          pc, step, now, entries, filed, crashes>>

Path == 0..MaxBackups
Writer == {"stdout", "open", "closed"}
Lines(path) == IF files[path] = Absent THEN <<>> ELSE files[path]

-----------------------------------------------------------------------------
(* NewFileSink.                                                            *)

FirstWriters == IF output = "both" THEN <<"stdout", "open">> ELSE <<"open">>

\* Wrong: the file is opened with O_TRUNC.
OpenedTruncating == [files EXCEPT ![0] = <<>>]

\* os.OpenFile with O_CREATE|O_APPEND.
Opened == [files EXCEPT ![0] = Lines(0)]

FileInit ==
    /\ output \in {"file", "both"}
    /\ files = [p \in Path |-> IF p = 0 THEN <<>> ELSE Absent]
    /\ stdout = <<>>
    /\ writers = FirstWriters
    /\ hasHandle = TRUE
    /\ written = 0
    /\ created = 0
    /\ pc = "idle"
    /\ step = 0
    /\ now = 0
    /\ entries = 0
    /\ filed = <<>>
    /\ crashes = 0

Restart ==
    /\ pc = "dead"
    /\ pc' = "idle"
    /\ files' = Opened
    /\ writers' = FirstWriters
    /\ hasHandle' = TRUE
    /\ written' = 0
    /\ created' = now
    /\ UNCHANGED <<output, stdout, step, now, history>>

-----------------------------------------------------------------------------
(* Log.                                                                    *)

WritesTo(w) == \E i \in DOMAIN writers : writers[i] = w

\* os.Stdout is an *os.File too, and is counted as one.
Counted ==
    IF hasHandle THEN Cardinality({i \in DOMAIN writers : writers[i] # "closed"}) ELSE 0

ShouldRotate(bytes) ==
    /\ hasHandle
    /\ \/ MaxSize > 0 /\ bytes >= MaxSize
       \/ MaxAge > 0 /\ now > created + MaxAge

\* Writing to a closed file fails, and the error is dropped.
Log ==
    /\ pc = "idle"
    /\ entries < MaxEntries
    /\ entries' = entries + 1
    /\ files' = IF WritesTo("open") THEN [files EXCEPT ![0] = Append(@, entries')] ELSE files
    /\ stdout' = IF WritesTo("stdout") THEN Append(stdout, entries') ELSE stdout
    /\ filed' = IF hasHandle THEN Append(filed, entries') ELSE filed
    /\ written' = written + Counted
    /\ pc' = IF ShouldRotate(written') THEN "close" ELSE "idle"
    /\ UNCHANGED <<output, writers, hasHandle, created, step, now, crashes>>

-----------------------------------------------------------------------------
(* rotate, one system call at a time.                                      *)

CloseFile ==
    /\ pc = "close"
    /\ pc' = "remove"
    /\ writers' = [i \in DOMAIN writers |->
                      IF writers[i] = "open" THEN "closed" ELSE writers[i]]
    /\ UNCHANGED <<output, disk, hasHandle, written, created, step, now, history>>

RemoveOldest ==
    /\ pc = "remove"
    /\ pc' = "cascade"
    /\ files' = [files EXCEPT ![MaxBackups] = Absent]
    /\ step' = MaxBackups
    /\ UNCHANGED <<output, stdout, sinkVars, now, history>>

\* Wrong: the cascade starts at the log and overwrites what it moves next.
RenameUpwards(i) ==
    LET to == MaxBackups + 1 - i
    IN  IF files[to - 1] = Absent THEN files
        ELSE [files EXCEPT ![to] = files[to - 1], ![to - 1] = Absent]

\* os.Rename(.i-1, .i) fails when there is no .i-1, and replaces .i.
Rename(i) ==
    IF files[i - 1] = Absent THEN files
    ELSE [files EXCEPT ![i] = files[i - 1], ![i - 1] = Absent]

Cascade ==
    /\ pc = "cascade"
    /\ files' = Rename(step)
    /\ step' = step - 1
    /\ pc' = IF step = 1 THEN "reopen" ELSE "cascade"
    /\ UNCHANGED <<output, stdout, sinkVars, now, history>>

\* updateFileWriter replaces the first writer that is an *os.File, which is
\* stdout when there is one.
Reopen ==
    /\ pc = "reopen"
    /\ pc' = "idle"
    /\ files' = Opened
    /\ writers' = [writers EXCEPT ![1] = "open"]
    /\ written' = 0
    /\ created' = now
    /\ UNCHANGED <<output, stdout, hasHandle, step, now, history>>

\* The new file cannot be opened: the sink stays without one.
ReopenFails ==
    /\ pc = "reopen"
    /\ pc' = "idle"
    /\ hasHandle' = FALSE
    /\ UNCHANGED <<output, disk, writers, written, created, step, now, history>>

-----------------------------------------------------------------------------
\* Close leaves the closed file among the writers.
CloseFileSink ==
    /\ pc = "idle"
    /\ hasHandle
    /\ hasHandle' = FALSE
    /\ writers' = [i \in DOMAIN writers |->
                      IF writers[i] = "open" THEN "closed" ELSE writers[i]]
    /\ UNCHANGED <<output, disk, written, created, pc, step, now, history>>

\* The process ends, after Close or without.
Crash ==
    /\ pc # "dead" /\ crashes < MaxCrashes
    /\ pc' = "dead"
    /\ crashes' = crashes + 1
    /\ UNCHANGED <<output, disk, sinkVars, step, now, entries, filed>>

Tick ==
    /\ now < MaxTime
    /\ now' = now + 1
    /\ UNCHANGED <<output, disk, sinkVars, pc, step, history>>

FileNext ==
    \/ Log \/ CloseFile \/ RemoveOldest \/ Cascade \/ Reopen \/ ReopenFails
    \/ CloseFileSink \/ Crash \/ Restart \/ Tick

FileSpec == FileInit /\ [][FileNext]_fileVars

-----------------------------------------------------------------------------
(* Properties.                                                             *)

\* Every variable has its type; while no rotation runs, the sink has its
\* file exactly if one of its writers is open.
FileTypeOK ==
    /\ output \in {"file", "both"}
    /\ files \in [Path -> {Absent} \cup Seq(1..MaxEntries)]
    /\ writers \in Seq(Writer) /\ Len(writers) \in 1..2
    /\ hasHandle \in BOOLEAN
    /\ written \in 0..(2 * MaxEntries)
    /\ created \in 0..now /\ now \in 0..MaxTime
    /\ pc \in {"idle", "close", "remove", "cascade", "reopen", "dead"}
    /\ step \in Path
    /\ stdout \in Seq(1..MaxEntries) /\ filed \in Seq(1..entries)
    /\ entries \in 0..MaxEntries /\ crashes \in 0..MaxCrashes
    /\ pc = "idle" => (hasHandle <=> WritesTo("open"))

\* The entries that are in the log and its backups.
Held == UNION {ToSet(Lines(p)) : p \in Path}

\* Entries have the numbers of their Log calls: they are in order in each
\* file, and older in a backup than in the files before it.
LinesInOrder ==
    \A p, q \in Path : \A i \in DOMAIN Lines(p), j \in DOMAIN Lines(q) :
        (p > q \/ (p = q /\ i < j)) => Lines(p)[i] < Lines(q)[j]

\* The backups and the log together are the last entries that were logged to
\* the file, each once and in their order, wherever a rotation was cut off
\* by a crash and whatever the next process found (rotate of file.go).
FilesAreTheTail ==
    /\ FileTypeOK
    /\ Held \subseteq ToSet(filed)
    /\ \A i, j \in DOMAIN filed : i < j /\ filed[i] \in Held => filed[j] \in Held
    /\ LinesInOrder

\* Nothing leaves the disk but the oldest backup (rotate removes .maxBackups
\* only; docs/AUDIT-LOGGING.md: "Oldest file deleted when it exceeds
\* max_backups").
OnlyTheOldestIsRemoved ==
    [][\A p \in 0..(MaxBackups - 1) : \A e \in ToSet(Lines(p)) :
          \E q \in Path : files'[q] # Absent /\ e \in ToSet(files'[q])]_files
=============================================================================
