---------------------------- MODULE AuditSinks ----------------------------
(***************************************************************************)
(* The audit engine (internal/audit/engine.go) over its batching sinks:    *)
(* ocsf.go, json_http.go and cef.go with transport https, which share one  *)
(* algorithm.  Log puts an entry in a bounded channel or drops it; a       *)
(* goroutine per sink collects a batch and posts it; Close stops the       *)
(* goroutine and empties the channel.  Entries are logged by concurrent    *)
(* requests under the engine's read lock; Close holds the write lock.      *)
(***************************************************************************)
EXTENDS Sequences, SequencesExt, FiniteSets, Integers

CONSTANTS Sink,        \* the configured batching sinks
          Entry,       \* audit entries, one per logged request
          Wanted,      \* the entries each sink's filter matches
          BatchSize,   \* batchSize
          BufferSize,  \* capacity of the events channel
          None         \* no sink

ASSUME SinkAssumption ==
    /\ None \notin Sink
    /\ Wanted \in [Sink -> SUBSET Entry]
    /\ BatchSize \in Nat \ {0}
    /\ BufferSize \in Nat \ {0}

VARIABLES engine,      \* "open", "locking" (Close waits), "closing", "closed"
          logged,      \* entries passed to Log so far
          todo,        \* the sinks a Log in progress has yet to reach
          queue,       \* s.events
          batch,       \* batch of s.run
          runner,      \* s.run: "waiting", "sending", "lastSend", "stopped"
          stopped,     \* s.closed, and s.close is closed
          closing,     \* the sink Close waits for
          drained,     \* sinks whose Close has returned
          sent,        \* history: what each sink posted, in order
          discarded    \* history: what each Close threw away

sink == <<queue, batch, runner, stopped, sent>>
vars == <<engine, logged, todo, sink, closing, drained, discarded>>

Init ==
    /\ engine = "open"
    /\ logged = {}
    /\ todo = [e \in Entry |-> {}]
    /\ queue = [s \in Sink |-> <<>>]
    /\ batch = [s \in Sink |-> <<>>]
    /\ runner = [s \in Sink |-> "waiting"]
    /\ stopped = [s \in Sink |-> FALSE]
    /\ closing = None
    /\ drained = {}
    /\ sent = [s \in Sink |-> <<>>]
    /\ discarded = [s \in Sink |-> {}]

-----------------------------------------------------------------------------
(* Engine.Log: RLock, then every sink's Log in turn.  A writer that waits  *)
(* for the lock keeps new readers out.                                     *)

BeginLog(e) ==
    /\ engine \in {"open", "closed"}
    /\ e \notin logged
    /\ logged' = logged \cup {e}
    /\ todo' = [todo EXCEPT ![e] = Sink]
    /\ UNCHANGED <<engine, sink, closing, drained, discarded>>

Takes(s, e) == ~stopped[s] /\ e \in Wanted[s] /\ Len(queue[s]) < BufferSize

\* The entry is queued, or dropped without a word.
SinkLog(s, e) ==
    /\ s \in todo[e]
    /\ todo' = [todo EXCEPT ![e] = @ \ {s}]
    /\ queue' = [queue EXCEPT ![s] = IF Takes(s, e) THEN Append(@, e) ELSE @]
    /\ UNCHANGED <<engine, logged, batch, runner, stopped, sent, closing, drained, discarded>>

-----------------------------------------------------------------------------
(* run: a select over the close channel, the ticker and the events; of the *)
(* cases that are ready it may take any.                                   *)

\* An entry joins the batch; a full batch is sent at once.
Receive(s) ==
    /\ runner[s] = "waiting"
    /\ queue[s] # <<>>
    /\ batch' = [batch EXCEPT ![s] = Append(@, Head(queue[s]))]
    /\ queue' = [queue EXCEPT ![s] = Tail(@)]
    /\ runner' = [runner EXCEPT ![s] =
                     IF Len(batch'[s]) >= BatchSize THEN "sending" ELSE "waiting"]
    /\ UNCHANGED <<engine, logged, todo, stopped, sent, closing, drained, discarded>>

\* Wrong: a batch that is not full is only flushed by Close.
FlushIdle(s) ==
    /\ runner[s] = "waiting"
    /\ batch[s] # <<>>
    /\ stopped[s]
    /\ runner' = [runner EXCEPT ![s] = "sending"]
    /\ UNCHANGED <<engine, logged, todo, queue, batch, stopped, sent, closing, drained, discarded>>

\* The ticker fires: a batch that is not empty is sent, however small.
Flush(s) ==
    /\ runner[s] = "waiting"
    /\ batch[s] # <<>>
    /\ runner' = [runner EXCEPT ![s] = "sending"]
    /\ UNCHANGED <<engine, logged, todo, queue, batch, stopped, sent, closing, drained, discarded>>

\* Wrong: the batch is not reset.
SentKeeping(s) ==
    /\ runner[s] \in {"sending", "lastSend"}
    /\ sent' = [sent EXCEPT ![s] = @ \o batch[s]]
    /\ runner' = [runner EXCEPT ![s] = IF @ = "sending" THEN "waiting" ELSE "stopped"]
    /\ UNCHANGED <<engine, logged, todo, queue, batch, stopped, closing, drained, discarded>>

\* sendBatch returns: the endpoint has taken the batch, or has refused it or
\* timed out.  Either way the batch is gone: an error is dropped.
Sent(s) ==
    /\ runner[s] \in {"sending", "lastSend"}
    /\ sent' = [sent EXCEPT ![s] = @ \o batch[s]]
    /\ batch' = [batch EXCEPT ![s] = <<>>]
    /\ runner' = [runner EXCEPT ![s] = IF @ = "sending" THEN "waiting" ELSE "stopped"]
    /\ UNCHANGED <<engine, logged, todo, queue, stopped, closing, drained, discarded>>

\* The close channel is closed: the batch is sent, the channel is not read.
SeeClose(s) ==
    /\ runner[s] = "waiting"
    /\ stopped[s]
    /\ runner' = [runner EXCEPT ![s] = IF batch[s] # <<>> THEN "lastSend" ELSE "stopped"]
    /\ UNCHANGED <<engine, logged, todo, queue, batch, stopped, sent, closing, drained, discarded>>

-----------------------------------------------------------------------------
(* Engine.Close, once, at the end of main: each sink's Close in turn.      *)

RequestClose ==
    /\ engine = "open"
    /\ engine' = "locking"
    /\ UNCHANGED <<logged, todo, sink, closing, drained, discarded>>

Lock ==
    /\ engine = "locking"
    /\ \A e \in Entry : todo[e] = {}
    /\ engine' = "closing"
    /\ UNCHANGED <<logged, todo, sink, closing, drained, discarded>>

\* The sinks are closed in the order of e.sinks; any order is allowed here.
CloseSink(s) ==
    /\ engine = "closing"
    /\ closing = None
    /\ s \notin drained
    /\ closing' = s
    /\ stopped' = [stopped EXCEPT ![s] = TRUE]
    /\ UNCHANGED <<engine, logged, todo, queue, batch, runner, sent, drained, discarded>>

\* Wrong: Close waits for the channel to be empty.
DrainWhenEmpty ==
    /\ closing # None
    /\ runner[closing] = "stopped"
    /\ queue[closing] = <<>>
    /\ drained' = drained \cup {closing}
    /\ closing' = None
    /\ UNCHANGED <<engine, logged, todo, queue, batch, runner, stopped, sent, discarded>>

\* wg.Wait returns, and the rest of the channel is thrown away.
Drain ==
    /\ closing # None
    /\ runner[closing] = "stopped"
    /\ discarded' = [discarded EXCEPT ![closing] = ToSet(queue[closing])]
    /\ queue' = [queue EXCEPT ![closing] = <<>>]
    /\ drained' = drained \cup {closing}
    /\ closing' = None
    /\ UNCHANGED <<engine, logged, todo, batch, runner, stopped, sent>>

Unlock ==
    /\ engine = "closing"
    /\ drained = Sink
    /\ engine' = "closed"
    /\ UNCHANGED <<logged, todo, sink, closing, drained, discarded>>

-----------------------------------------------------------------------------
Run(s) == Receive(s) \/ Flush(s) \/ Sent(s) \/ SeeClose(s)

Close == RequestClose \/ Lock \/ (\E s \in Sink : CloseSink(s)) \/ Drain \/ Unlock

Next ==
    \/ \E e \in Entry : BeginLog(e) \/ \E s \in Sink : SinkLog(s, e)
    \/ \E s \in Sink : Run(s)
    \/ Close

Spec == Init /\ [][Next]_vars

\* Goroutines run on: a Log in progress, each case of the select that stays
\* ready, a post (it ends at its timeout), and a Close that was called.
Fairness ==
    /\ \A e \in Entry, s \in Sink : WF_vars(SinkLog(s, e))
    /\ \A s \in Sink : WF_vars(Receive(s)) /\ WF_vars(Flush(s)) /\ WF_vars(Sent(s))
                       /\ WF_vars(SeeClose(s)) /\ WF_vars(CloseSink(s))
    /\ WF_vars(Lock) /\ WF_vars(Drain) /\ WF_vars(Unlock)

FairSpec == Spec /\ Fairness

-----------------------------------------------------------------------------
\* Types and limits: the channel and the batch never outgrow theirs, and a
\* full batch is on its way.
TypeOK ==
    /\ engine \in {"open", "locking", "closing", "closed"}
    /\ logged \subseteq Entry
    /\ todo \in [Entry -> SUBSET Sink]
    /\ \A s \in Sink :
          /\ queue[s] \in Seq(Entry) /\ Len(queue[s]) <= BufferSize
          /\ batch[s] \in Seq(Entry) /\ Len(batch[s]) <= BatchSize
          /\ Len(batch[s]) = BatchSize => runner[s] \in {"sending", "lastSend"}
          /\ runner[s] \in {"waiting", "sending", "lastSend", "stopped"}
    /\ stopped \in [Sink -> BOOLEAN]
    /\ closing \in Sink \cup {None}
    /\ drained \subseteq Sink
    /\ sent \in [Sink -> Seq(Entry)]
    /\ discarded \in [Sink -> SUBSET Entry]

Fifo == INSTANCE LossyFifo WITH pending <- [s \in Sink |-> batch[s] \o queue[s]],
                                handed <- sent,
                                over <- drained

\* Log, run and Close: each sink posts what it took in order and at most
\* once, whatever the select chooses, and once its Close has returned it
\* neither takes nor posts anything; and it holds no more than the channel
\* and the batch have room for.
ImplementsLossyFifo == []TypeOK /\ Fifo!Spec

InHand(s) == ToSet(batch[s] \o queue[s])

\* run: every entry a sink took is posted, or thrown away by Close.
EveryEntryLeaves ==
    \A s \in Sink, e \in Entry :
        e \in InHand(s) ~> e \in ToSet(sent[s]) \cup discarded[s]

\* Engine.Close returns, and with it the Logs that wait for its lock.
CloseReturns == engine = "locking" ~> engine = "closed"
=============================================================================
