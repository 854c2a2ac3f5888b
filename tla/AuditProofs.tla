----------------------------- MODULE AuditProofs -----------------------------
(***************************************************************************)
(* Proofs about the audit trail's way out: AuditSinks, where every step    *)
(* implements a step of LossyFifo for each sink, or none, for any sinks,   *)
(* filters, entries and limits; and FileSink.                              *)
(*                                                                         *)
(* FreshOK is why no entry is taken twice: a sink that a Log has yet to    *)
(* reach has not seen its entry.  ClosedOK is why a closed sink does       *)
(* nothing: its goroutine has stopped, with no batch in hand, before Close *)
(* counts it as drained.                                                   *)
(***************************************************************************)
EXTENDS AuditSinks, FileSink, SequenceTheorems, FiniteSetTheorems, TLAPS

InSeq(q, e) == \E i \in 1..Len(q) : q[i] = e

\* The sink has, or has had, the entry.
Seen(s, e) == InSeq(sent[s], e) \/ InSeq(batch[s], e) \/ InSeq(queue[s], e)

FreshOK ==
    \A s \in Sink, e \in Entry :
        /\ s \in todo[e] => ~Seen(s, e) /\ e \in logged
        /\ Seen(s, e) => e \in logged

ClosedOK ==
    /\ \A s \in Sink :
          /\ s \in drained => stopped[s] /\ runner[s] = "stopped"
          /\ runner[s] = "stopped" => batch[s] = <<>>
          /\ runner[s] \in {"sending", "lastSend"} => batch[s] # <<>>
    /\ closing # None => stopped[closing]

RunnerState == {"waiting", "sending", "lastSend", "stopped"}

Sizes ==
    \A s \in Sink :
        /\ Len(queue[s]) <= BufferSize /\ Len(batch[s]) <= BatchSize
        /\ Len(batch[s]) = BatchSize => runner[s] \in {"sending", "lastSend"}

\* TypeOK, one conjunct for each variable.
Types ==
    /\ engine \in {"open", "locking", "closing", "closed"}
    /\ logged \subseteq Entry
    /\ todo \in [Entry -> SUBSET Sink]
    /\ queue \in [Sink -> Seq(Entry)]
    /\ batch \in [Sink -> Seq(Entry)]
    /\ runner \in [Sink -> RunnerState]
    /\ stopped \in [Sink -> BOOLEAN]
    /\ closing \in Sink \cup {None}
    /\ drained \subseteq Sink
    /\ sent \in [Sink -> Seq(Entry)]
    /\ discarded \in [Sink -> SUBSET Entry]

SinksInv == Types /\ Sizes /\ FreshOK /\ ClosedOK

-----------------------------------------------------------------------------
(* Sequences.                                                              *)

LEMMA InSeqOps ==
  ASSUME NEW S, NEW p \in Seq(S), NEW q \in Seq(S), NEW e \in S, NEW x
  PROVE  /\ ~InSeq(<<>>, x)
         /\ InSeq(Append(p, e), x) <=> InSeq(p, x) \/ x = e
         /\ InSeq(p \o q, x) <=> InSeq(p, x) \/ InSeq(q, x)
         /\ q # <<>> => (InSeq(q, x) <=> x = Head(q) \/ InSeq(Tail(q), x))
<1>1. ~InSeq(<<>>, x)
  BY DEF InSeq
<1>2. InSeq(Append(p, e), x) <=> InSeq(p, x) \/ x = e
  BY AppendProperties DEF InSeq
<1>3. InSeq(p \o q, x) <=> InSeq(p, x) \/ InSeq(q, x)
  <2>1. /\ Len(p \o q) = Len(p) + Len(q) /\ Len(p) \in Nat /\ Len(q) \in Nat
        /\ \A i \in 1..Len(p) + Len(q) :
              (p \o q)[i] = IF i <= Len(p) THEN p[i] ELSE q[i - Len(p)]
    BY ConcatProperties, LenProperties
  <2>2. ASSUME InSeq(p \o q, x) PROVE InSeq(p, x) \/ InSeq(q, x)
    <3>1. PICK i \in 1..Len(p) + Len(q) : (p \o q)[i] = x
      BY <2>1, <2>2 DEF InSeq
    <3>2. CASE i <= Len(p)
      BY <2>1, <3>1, <3>2 DEF InSeq
    <3>3. CASE i > Len(p)
      <4>1. i - Len(p) \in 1..Len(q) /\ q[i - Len(p)] = x
        BY <2>1, <3>1, <3>3
      <4> QED
        BY <4>1 DEF InSeq
    <3> QED
      BY <2>1, <3>2, <3>3
  <2>3. ASSUME NEW i \in 1..Len(p) PROVE i \in 1..Len(p \o q) /\ (p \o q)[i] = p[i]
    BY <2>1
  <2>4. ASSUME NEW i \in 1..Len(q)
        PROVE  i + Len(p) \in 1..Len(p \o q) /\ (p \o q)[i + Len(p)] = q[i]
    BY <2>1
  <2> QED
    BY <2>2, <2>3, <2>4 DEF InSeq
<1>4. ASSUME q # <<>> PROVE InSeq(q, x) <=> x = Head(q) \/ InSeq(Tail(q), x)
  <2>1. /\ Len(q) \in Nat \ {0} /\ Len(Tail(q)) = Len(q) - 1 /\ Head(q) = q[1]
        /\ \A i \in 1..Len(Tail(q)) : Tail(q)[i] = q[i + 1]
    BY <1>4, HeadTailProperties, EmptySeq
  <2>2. ASSUME NEW i \in 1..Len(q), q[i] = x, i # 1
        PROVE  i - 1 \in 1..Len(Tail(q)) /\ Tail(q)[i - 1] = x
    BY <2>1, <2>2
  <2>3. ASSUME NEW i \in 1..Len(Tail(q)), Tail(q)[i] = x
        PROVE  i + 1 \in 1..Len(q) /\ q[i + 1] = x
    BY <2>1, <2>3
  <2>4. ASSUME InSeq(q, x) PROVE x = Head(q) \/ InSeq(Tail(q), x)
    <3>1. PICK i \in 1..Len(q) : q[i] = x
      BY <2>4 DEF InSeq
    <3> QED
      BY <2>1, <2>2, <3>1 DEF InSeq
  <2>5. ASSUME x = Head(q) PROVE InSeq(q, x)
    <3>1. 1 \in 1..Len(q) /\ q[1] = x
      BY <2>1, <2>5
    <3> QED
      BY <3>1 DEF InSeq
  <2>6. ASSUME InSeq(Tail(q), x) PROVE InSeq(q, x)
    BY <2>3, <2>6 DEF InSeq
  <2> QED
    BY <2>4, <2>5, <2>6
<1> QED
  BY <1>1, <1>2, <1>3, <1>4

\* What is moved from the queue to the batch stays where it was in line.
LEMMA MoveHead ==
  ASSUME NEW S, NEW b \in Seq(S), NEW q \in Seq(S), q # <<>>
  PROVE  Append(b, Head(q)) \o Tail(q) = b \o q
<1>1. Head(q) \in S /\ Tail(q) \in Seq(S) /\ q = <<Head(q)>> \o Tail(q) /\ <<Head(q)>> \in Seq(S)
  BY HeadTailProperties
<1>2. Append(b, Head(q)) = b \o <<Head(q)>>
  BY <1>1, AppendIsConcat
<1> QED
  BY <1>1, <1>2, ConcatAssociative

LEMMA QueueUp ==
  ASSUME NEW S, NEW b \in Seq(S), NEW q \in Seq(S), NEW e \in S
  PROVE  b \o Append(q, e) = Append(b \o q, e)
<1>1. Append(q, e) = q \o <<e>> /\ <<e>> \in Seq(S) /\ b \o q \in Seq(S)
  BY AppendIsConcat, ConcatProperties
<1>2. Append(b \o q, e) = (b \o q) \o <<e>>
  BY <1>1, AppendIsConcat
<1> QED
  BY <1>1, <1>2, ConcatAssociative

LEMMA SplitBatch ==
  ASSUME NEW S, NEW b \in Seq(S), NEW q \in Seq(S)
  PROVE  /\ SubSeq(b \o q, 1, Len(b)) = b
         /\ SubSeq(b \o q, Len(b) + 1, Len(b \o q)) = q
         /\ Len(b \o q) = Len(b) + Len(q) /\ b \o q \in Seq(S)
<1>1. /\ b \o q \in Seq(S) /\ Len(b \o q) = Len(b) + Len(q)
      /\ Len(b) \in Nat /\ Len(q) \in Nat
      /\ \A i \in 1..Len(b) + Len(q) : (b \o q)[i] = IF i <= Len(b) THEN b[i] ELSE q[i - Len(b)]
  BY ConcatProperties, LenProperties
<1>2. ASSUME NEW m \in 1..Len(b) + 1, NEW n \in 0..Len(b) + Len(q)
      PROVE  /\ SubSeq(b \o q, m, n) \in Seq(S)
             /\ Len(SubSeq(b \o q, m, n)) = IF m <= n THEN n - m + 1 ELSE 0
             /\ \A i \in 1..n - m + 1 : SubSeq(b \o q, m, n)[i] = (b \o q)[m + i - 1]
  <2>1. \A i \in m..n : (b \o q)[i] \in S
    BY <1>1, ElementOfSeq
  <2> QED
    BY <1>1, <2>1, SubSeqProperties
<1>3. SubSeq(b \o q, 1, Len(b)) = b
  <2>1. Len(SubSeq(b \o q, 1, Len(b))) = Len(b)
    BY <1>1, <1>2
  <2>2. \A i \in 1..Len(b) : SubSeq(b \o q, 1, Len(b))[i] = b[i]
    BY <1>1, <1>2
  <2> QED
    BY <1>1, <1>2, <2>1, <2>2, SeqEqual
<1>4. SubSeq(b \o q, Len(b) + 1, Len(b \o q)) = q
  <2>1. Len(SubSeq(b \o q, Len(b) + 1, Len(b \o q))) = Len(q)
    BY <1>1, <1>2
  <2>2. \A i \in 1..Len(q) : SubSeq(b \o q, Len(b) + 1, Len(b \o q))[i] = q[i]
    BY <1>1, <1>2
  <2> QED
    BY <1>1, <1>2, <2>1, <2>2, SeqEqual
<1> QED
  BY <1>1, <1>3, <1>4

-----------------------------------------------------------------------------
(* The invariant.                                                          *)

LEMMA SinksInit == Init => SinksInv
<1> SUFFICES ASSUME Init PROVE SinksInv
  OBVIOUS
<1>1. Types
  BY EmptySeq DEF Init, Types, RunnerState
<1>2. \A s \in Sink : Len(queue[s]) = 0 /\ Len(batch[s]) = 0 /\ runner[s] = "waiting"
  BY EmptySeq DEF Init
<1>3. Sizes
  BY <1>2, SinkAssumption DEF Sizes
<1>4. FreshOK /\ ClosedOK
  BY DEF Init, FreshOK, ClosedOK, Seen, InSeq
<1> QED
  BY <1>1, <1>3, <1>4 DEF SinksInv

\* BeginLog, and what Close does but for Drain.
LEMMA BeginLogKeeps == ASSUME SinksInv, NEW e \in Entry, BeginLog(e) PROVE SinksInv'
<1>1. Types' /\ Sizes' /\ ClosedOK'
  BY DEF SinksInv, Types, Sizes, ClosedOK, BeginLog, sink
<1>2. FreshOK'
  BY DEF SinksInv, Types, FreshOK, Seen, BeginLog, sink
<1> QED
  BY <1>1, <1>2 DEF SinksInv

LEMMA CloseKeeps ==
  ASSUME SinksInv, RequestClose \/ Lock \/ Unlock \/ \E s \in Sink : CloseSink(s)
  PROVE  SinksInv'
<1>1. UNCHANGED <<logged, todo, queue, batch, runner, sent, drained, discarded>>
  BY DEF RequestClose, Lock, Unlock, CloseSink, sink
<1>2. /\ engine' \in {"open", "locking", "closing", "closed"}
      /\ \/ UNCHANGED <<stopped, closing>>
         \/ \E s \in Sink : closing' = s /\ stopped' = [stopped EXCEPT ![s] = TRUE]
  BY DEF SinksInv, Types, RequestClose, Lock, Unlock, CloseSink, sink
<1>3. Types' /\ Sizes' /\ FreshOK'
  BY <1>1, <1>2 DEF SinksInv, Types, Sizes, FreshOK, Seen
<1>4. ClosedOK'
  BY <1>1, <1>2 DEF SinksInv, Types, ClosedOK
<1> QED
  BY <1>3, <1>4 DEF SinksInv

LEMMA SinkLogKeeps ==
  ASSUME SinksInv, NEW e \in Entry, NEW s \in Sink, SinkLog(s, e)
  PROVE  SinksInv'
<1>1. /\ s \in todo[e] /\ e \in logged /\ Types
      /\ todo' = [todo EXCEPT ![e] = @ \ {s}]
      /\ queue' = [queue EXCEPT ![s] = IF Takes(s, e) THEN Append(@, e) ELSE @]
      /\ UNCHANGED <<engine, logged, batch, runner, stopped, sent, closing, drained, discarded>>
  BY DEF SinksInv, SinkLog, FreshOK
<1>2. Types'
  BY <1>1, AppendProperties DEF Types
<1>3. Sizes'
  <2>1. Takes(s, e) => Len(Append(queue[s], e)) <= BufferSize
    BY <1>1, SinkAssumption, AppendProperties, LenProperties DEF Takes, Types
  <2> QED
    BY <1>1, <2>1 DEF SinksInv, Sizes, Types
<1>4. FreshOK'
  <2>1. ASSUME NEW r \in Sink, NEW x \in Entry
        PROVE  Seen(r, x)' => Seen(r, x) \/ (r = s /\ x = e)
    BY <1>1, InSeqOps DEF Seen, Types
  <2>2. ASSUME NEW r \in Sink, NEW x \in Entry, r \in todo'[x]
        PROVE  r \in todo[x] /\ ~(r = s /\ x = e)
    BY <1>1, <2>2 DEF Types
  <2> QED
    BY <1>1, <2>1, <2>2 DEF SinksInv, FreshOK
<1>5. ClosedOK'
  BY <1>1 DEF SinksInv, ClosedOK
<1> QED
  BY <1>2, <1>3, <1>4, <1>5 DEF SinksInv

LEMMA ReceiveKeeps == ASSUME SinksInv, NEW s \in Sink, Receive(s) PROVE SinksInv'
<1>1. /\ Types /\ runner[s] = "waiting" /\ queue[s] # <<>>
      /\ queue[s] \in Seq(Entry) /\ batch[s] \in Seq(Entry)
      /\ batch' = [batch EXCEPT ![s] = Append(@, Head(queue[s]))]
      /\ queue' = [queue EXCEPT ![s] = Tail(@)]
      /\ runner' = [runner EXCEPT ![s] =
                       IF Len(batch'[s]) >= BatchSize THEN "sending" ELSE "waiting"]
      /\ UNCHANGED <<engine, logged, todo, stopped, sent, closing, drained, discarded>>
  BY DEF SinksInv, Types, Receive
<1>2. /\ Head(queue[s]) \in Entry /\ Tail(queue[s]) \in Seq(Entry)
      /\ Len(Tail(queue[s])) = Len(queue[s]) - 1
      /\ Append(batch[s], Head(queue[s])) \in Seq(Entry)
      /\ Append(batch[s], Head(queue[s])) # <<>>
      /\ Len(Append(batch[s], Head(queue[s]))) = Len(batch[s]) + 1
  BY <1>1, HeadTailProperties, AppendProperties
<1>3. Types'
  BY <1>1, <1>2 DEF Types, RunnerState
<1>4. Sizes'
  <2>1. Len(batch[s]) < BatchSize /\ Len(batch[s]) \in Nat /\ Len(queue[s]) \in Nat
    BY <1>1, SinkAssumption, LenProperties DEF SinksInv, Sizes
  <2>2. Len(batch'[s]) = Len(batch[s]) + 1 /\ Len(queue'[s]) = Len(queue[s]) - 1
    BY <1>1, <1>2 DEF Types
  <2>3. Len(batch'[s]) = BatchSize => runner'[s] = "sending"
    BY <1>1, SinkAssumption DEF Types
  <2>4. Len(queue'[s]) <= BufferSize /\ Len(batch'[s]) <= BatchSize
    BY <2>1, <2>2, SinkAssumption DEF SinksInv, Sizes
  <2>5. \A r \in Sink \ {s} : UNCHANGED <<batch[r], queue[r], runner[r]>>
    BY <1>1 DEF Types
  <2> QED
    BY <2>3, <2>4, <2>5 DEF SinksInv, Sizes
<1>5. FreshOK'
  <2>1. ASSUME NEW r \in Sink, NEW x \in Entry
        PROVE  Seen(r, x)' => Seen(r, x)
    BY <1>1, <1>2, InSeqOps DEF Seen, Types
  <2> QED
    BY <1>1, <2>1 DEF SinksInv, FreshOK
<1>6. ClosedOK'
  BY <1>1, <1>2 DEF SinksInv, Types, ClosedOK
<1> QED
  BY <1>3, <1>4, <1>5, <1>6 DEF SinksInv

LEMMA SentKeeps == ASSUME SinksInv, NEW s \in Sink, Sent(s) PROVE SinksInv'
<1>1. /\ Types /\ runner[s] \in {"sending", "lastSend"}
      /\ sent[s] \in Seq(Entry) /\ batch[s] \in Seq(Entry) /\ queue[s] \in Seq(Entry)
      /\ sent' = [sent EXCEPT ![s] = @ \o batch[s]]
      /\ batch' = [batch EXCEPT ![s] = <<>>]
      /\ runner' = [runner EXCEPT ![s] = IF @ = "sending" THEN "waiting" ELSE "stopped"]
      /\ UNCHANGED <<engine, logged, todo, queue, stopped, closing, drained, discarded>>
  BY DEF SinksInv, Types, Sent
<1>2. Types'
  BY <1>1, ConcatProperties, EmptySeq DEF Types, RunnerState
<1>3. Sizes'
  BY <1>1, EmptySeq, SinkAssumption DEF SinksInv, Sizes, Types
<1>4. FreshOK'
  <2>1. ASSUME NEW r \in Sink, NEW x \in Entry
        PROVE  Seen(r, x)' => Seen(r, x)
    BY <1>1, InSeqOps DEF Seen, Types
  <2> QED
    BY <1>1, <2>1 DEF SinksInv, FreshOK
<1>5. ClosedOK'
  BY <1>1 DEF SinksInv, Types, ClosedOK
<1> QED
  BY <1>2, <1>3, <1>4, <1>5 DEF SinksInv

\* Flush and SeeClose move the goroutine only.
LEMMA RunnerKeeps == ASSUME SinksInv, NEW s \in Sink, Flush(s) \/ SeeClose(s) PROVE SinksInv'
<1>1. /\ Types /\ runner[s] = "waiting"
      /\ runner' = [runner EXCEPT ![s] = IF batch[s] = <<>> THEN "stopped" ELSE runner'[s]]
      /\ batch[s] # <<>> => runner'[s] \in {"sending", "lastSend"}
      /\ UNCHANGED <<engine, logged, todo, queue, batch, stopped, sent, closing, drained, discarded>>
  BY DEF SinksInv, Types, Flush, SeeClose
<1>2. Types'
  BY <1>1 DEF Types, RunnerState
<1>3. Sizes' /\ FreshOK'
  BY <1>1, EmptySeq, SinkAssumption DEF SinksInv, Sizes, Types, FreshOK, Seen
<1>4. ClosedOK'
  BY <1>1 DEF SinksInv, Types, ClosedOK
<1> QED
  BY <1>2, <1>3, <1>4 DEF SinksInv

LEMMA DrainKeeps == ASSUME SinksInv, Drain PROVE SinksInv'
<1>1. /\ Types /\ closing \in Sink /\ runner[closing] = "stopped" /\ stopped[closing]
      /\ discarded' = [discarded EXCEPT ![closing] = ToSet(queue[closing])]
      /\ queue' = [queue EXCEPT ![closing] = <<>>]
      /\ drained' = drained \cup {closing}
      /\ closing' = None
      /\ UNCHANGED <<engine, logged, todo, batch, runner, stopped, sent>>
  BY DEF SinksInv, Types, ClosedOK, Drain
<1>2. ToSet(queue[closing]) \in SUBSET Entry
  BY <1>1, LenProperties DEF Types, ToSet
<1>3. Types'
  BY <1>1, <1>2, EmptySeq DEF Types
<1>4. Sizes'
  BY <1>1, EmptySeq, SinkAssumption DEF SinksInv, Sizes, Types
<1>5. FreshOK'
  BY <1>1, InSeqOps, EmptySeq DEF SinksInv, FreshOK, Seen, Types, InSeq
<1>6. ClosedOK'
  BY <1>1 DEF SinksInv, ClosedOK
<1> QED
  BY <1>3, <1>4, <1>5, <1>6 DEF SinksInv

LEMMA SinksStep == ASSUME SinksInv, [Next]_vars PROVE SinksInv'
<1>1. CASE UNCHANGED vars
  BY <1>1 DEF vars, sink, SinksInv, Types, Sizes, FreshOK, Seen, ClosedOK
<1>2. CASE \E e \in Entry : BeginLog(e) \/ \E s \in Sink : SinkLog(s, e)
  BY <1>2, BeginLogKeeps, SinkLogKeeps
<1>3. CASE \E s \in Sink : Run(s)
  BY <1>3, ReceiveKeeps, RunnerKeeps, SentKeeps DEF Run
<1>4. CASE Close
  BY <1>4, CloseKeeps, DrainKeeps DEF Close
<1> QED
  BY <1>1, <1>2, <1>3, <1>4 DEF Next

LEMMA SinksInvariant == Spec => []SinksInv
<1>1. SinksInv /\ [Next]_vars => SinksInv'
  BY SinksStep
<1> QED
  BY <1>1, SinksInit, PTL DEF Spec

LEMMA SinksTypes == SinksInv => TypeOK
BY DEF SinksInv, Types, Sizes, RunnerState, TypeOK

-----------------------------------------------------------------------------
(* The steps as steps of LossyFifo.                                        *)

\* What a step leaves alone of every sink it leaves alone for LossyFifo.
LEMMA FifoStutters ==
  UNCHANGED <<queue, batch, sent, drained>> => UNCHANGED Fifo!vars
BY DEF Fifo!vars

LEMMA SinkLogRefines ==
  ASSUME SinksInv, NEW e \in Entry, NEW s \in Sink, SinkLog(s, e)
  PROVE  [Fifo!Next]_(Fifo!vars)
<1>1. /\ Types /\ s \in todo[e] /\ ~Seen(s, e)
      /\ queue' = [queue EXCEPT ![s] = IF Takes(s, e) THEN Append(@, e) ELSE @]
      /\ UNCHANGED <<batch, sent, drained>>
  BY DEF SinksInv, SinkLog, FreshOK, Types
<1>0. sent[s] \in Seq(Entry) /\ batch[s] \in Seq(Entry) /\ queue[s] \in Seq(Entry)
  BY DEF SinksInv, Types
<1>2. CASE ~Takes(s, e)
  <2>1. queue' = queue
    BY <1>1, <1>2 DEF Types
  <2> QED
    BY <1>1, <2>1, FifoStutters
<1>3. CASE Takes(s, e)
  <2>1. s \notin drained
    BY <1>3 DEF SinksInv, ClosedOK, Takes
  <2>2. ~Contains(sent[s] \o (batch[s] \o queue[s]), e)
    <3>1. batch[s] \o queue[s] \in Seq(Entry)
      BY <1>0, ConcatProperties
    <3>2. InSeq(batch[s] \o queue[s], e) <=> InSeq(batch[s], e) \/ InSeq(queue[s], e)
      BY <1>0, InSeqOps
    <3>4. ~InSeq(sent[s] \o (batch[s] \o queue[s]), e)
      <4>1. PICK p \in Seq(Entry), q \in Seq(Entry) : p = sent[s] /\ q = batch[s] \o queue[s]
        BY <1>0, <3>1
      <4>2. InSeq(p \o q, e) <=> InSeq(p, e) \/ InSeq(q, e)
        BY InSeqOps
      <4>3. ~InSeq(p, e) /\ ~InSeq(q, e)
        BY <1>1, <3>2, <4>1 DEF Seen
      <4> QED
        BY <4>1, <4>2, <4>3
    <3>3. sent[s] \o (batch[s] \o queue[s]) \in Seq(Entry)
      BY <1>0, <3>1, ConcatProperties
    <3> QED
      BY <3>3, <3>4, LenProperties DEF InSeq, Contains
  <2>3. batch'[s] \o queue'[s] = Append(batch[s] \o queue[s], e)
    <3>1. batch'[s] = batch[s] /\ queue'[s] = Append(queue[s], e)
      BY <1>1, <1>3 DEF Types
    <3>2. PICK b \in Seq(Entry), q \in Seq(Entry) : b = batch[s] /\ q = queue[s]
      BY <1>0
    <3>3. b \o Append(q, e) = Append(b \o q, e)
      BY QueueUp
    <3> QED
      BY <3>1, <3>2, <3>3
  <2>4. \A r \in Sink \ {s} : batch'[r] \o queue'[r] = batch[r] \o queue[r]
    BY <1>1, <1>3 DEF Types
  <2>5. [r \in Sink |-> batch'[r] \o queue'[r]]
           = [[r \in Sink |-> batch[r] \o queue[r]] EXCEPT ![s] = Append(batch[s] \o queue[s], e)]
    BY <2>3, <2>4
  <2>6. Fifo!Take(s, e)
    BY <1>1, <2>1, <2>2, <2>5 DEF Fifo!Take, Fifo!Contains, Contains
  <2> QED
    BY <2>6 DEF Fifo!Next
<1> QED
  BY <1>2, <1>3

LEMMA ReceiveRefines ==
  ASSUME SinksInv, NEW s \in Sink, Receive(s)
  PROVE  UNCHANGED Fifo!vars
<1>1. /\ queue[s] # <<>> /\ queue[s] \in Seq(Entry) /\ batch[s] \in Seq(Entry) /\ Types
      /\ batch' = [batch EXCEPT ![s] = Append(@, Head(queue[s]))]
      /\ queue' = [queue EXCEPT ![s] = Tail(@)]
      /\ UNCHANGED <<sent, drained>>
  BY DEF SinksInv, Types, Receive
<1>2. batch'[s] \o queue'[s] = batch[s] \o queue[s]
  BY <1>1, MoveHead DEF Types
<1>3. \A r \in Sink : batch'[r] \o queue'[r] = batch[r] \o queue[r]
  BY <1>1, <1>2 DEF Types
<1> QED
  BY <1>1, <1>3 DEF Fifo!vars

LEMMA SentRefines ==
  ASSUME SinksInv, NEW s \in Sink, Sent(s)
  PROVE  Fifo!Next
<1>1. /\ Types
      /\ sent' = [sent EXCEPT ![s] = @ \o batch[s]]
      /\ batch' = [batch EXCEPT ![s] = <<>>]
      /\ UNCHANGED <<queue, drained>>
      /\ s \notin drained /\ batch[s] # <<>> /\ Len(batch[s]) <= BatchSize
  BY DEF SinksInv, Types, Sizes, ClosedOK, Sent
<1>2. PICK b \in Seq(Entry), q \in Seq(Entry), n \in Nat :
         b = batch[s] /\ q = queue[s] /\ n = Len(b)
  BY <1>1, LenProperties DEF Types
<1>3. PICK line \in Seq(Entry) : line = b \o q
  BY ConcatProperties
<1>4. SubSeq(line, 1, n) = b /\ SubSeq(line, n + 1, Len(line)) = q /\ Len(line) = n + Len(q)
  <2>1. /\ SubSeq(b \o q, 1, Len(b)) = b
        /\ SubSeq(b \o q, Len(b) + 1, Len(b \o q)) = q
        /\ Len(b \o q) = Len(b) + Len(q)
    BY SplitBatch, ConcatProperties
  <2> QED
    BY <1>2, <1>3, <2>1
<1>5. n \in 1..Len(line) /\ n <= BatchSize
  <2>1. b # <<>> /\ n = Len(b) /\ n <= BatchSize
    BY <1>1, <1>2
  <2>2. n # 0
    BY <2>1, EmptySeq
  <2>3. Len(q) \in Nat
    BY LenProperties
  <2> QED
    BY <1>4, <2>1, <2>2, <2>3
<1>6. batch'[s] \o queue'[s] = q
  BY <1>1, <1>2, ConcatEmptySeq DEF Types
<1>7. \A r \in Sink \ {s} : batch'[r] \o queue'[r] = batch[r] \o queue[r]
  BY <1>1 DEF Types
<1>8. [r \in Sink |-> batch[r] \o queue[r]][s] = line
  BY <1>2, <1>3
<1>9. [r \in Sink |-> batch'[r] \o queue'[r]]
         = [[r \in Sink |-> batch[r] \o queue[r]] EXCEPT ![s] = SubSeq(line, n + 1, Len(line))]
  BY <1>4, <1>6, <1>7
<1>10. sent' = [sent EXCEPT ![s] = @ \o SubSeq(line, 1, n)]
  BY <1>1, <1>2, <1>4
<1>11. Fifo!HandOver(s, n)
  BY <1>1, <1>8, <1>9, <1>10 DEF Fifo!HandOver
<1> QED
  BY <1>5, <1>8, <1>11 DEF Fifo!Next

LEMMA DrainRefines == ASSUME SinksInv, Drain PROVE Fifo!Next
<1>1. PICK s \in Sink : s = closing
  BY DEF SinksInv, Types, Drain
<1>2. /\ Types /\ batch[s] = <<>>
      /\ queue' = [queue EXCEPT ![s] = <<>>]
      /\ drained' = drained \cup {s}
      /\ UNCHANGED <<batch, sent>>
  BY <1>1 DEF SinksInv, Types, ClosedOK, Drain
<1>3. batch'[s] \o queue'[s] = <<>>
  BY <1>2, ConcatEmptySeq, EmptySeq DEF Types
<1>4. \A r \in Sink \ {s} : batch'[r] \o queue'[r] = batch[r] \o queue[r]
  BY <1>2 DEF Types
<1>5. [r \in Sink |-> batch'[r] \o queue'[r]]
         = [[r \in Sink |-> batch[r] \o queue[r]] EXCEPT ![s] = <<>>]
  BY <1>3, <1>4
<1>6. Fifo!End(s)
  BY <1>2, <1>5 DEF Fifo!End
<1> QED
  BY <1>6 DEF Fifo!Next

LEMMA StepRefines == ASSUME SinksInv, [Next]_vars PROVE [Fifo!Next]_(Fifo!vars)
<1>1. CASE UNCHANGED vars
  BY <1>1, FifoStutters DEF vars, sink
<1>2. CASE \E e \in Entry : BeginLog(e)
  BY <1>2, FifoStutters DEF BeginLog, sink
<1>3. CASE \E e \in Entry, s \in Sink : SinkLog(s, e)
  BY <1>3, SinkLogRefines
<1>4. ASSUME NEW s \in Sink, Run(s) PROVE [Fifo!Next]_(Fifo!vars)
  <2>1. CASE Receive(s)
    BY <2>1, ReceiveRefines
  <2>2. CASE Sent(s)
    BY <2>2, SentRefines
  <2>3. CASE Flush(s) \/ SeeClose(s)
    BY <2>3, FifoStutters DEF Flush, SeeClose
  <2> QED
    BY <1>4, <2>1, <2>2, <2>3 DEF Run
<1>5. CASE Close
  <2>1. CASE Drain
    BY <2>1, DrainRefines
  <2>2. CASE RequestClose \/ Lock \/ Unlock \/ \E s \in Sink : CloseSink(s)
    BY <2>2, FifoStutters DEF RequestClose, Lock, Unlock, CloseSink, sink
  <2> QED
    BY <1>5, <2>1, <2>2 DEF Close
<1> QED
  BY <1>1, <1>2, <1>3, <1>4, <1>5 DEF Next

\* For any number of sinks, entries and concurrent Logs, and any limits: each
\* sink hands over what it took in order, each entry at most once and in
\* batches of at most BatchSize; it keeps within its channel and its batch;
\* and once its Close has returned it takes and posts nothing (Log, run and
\* Close of the batching sinks under Engine.Log and Engine.Close).
THEOREM SinksImplementLossyFifo == Spec => ImplementsLossyFifo
<1>1. Init => Fifo!Init
  <2> SUFFICES ASSUME Init PROVE Fifo!Init
    OBVIOUS
  <2>1. \A s \in Sink : batch[s] \o queue[s] = <<>>
    BY ConcatEmptySeq, EmptySeq DEF Init
  <2> QED
    BY <2>1 DEF Init, Fifo!Init
<1>2. SinksInv /\ [Next]_vars => [Fifo!Next]_(Fifo!vars)
  BY StepRefines
<1> QED
  BY <1>1, <1>2, SinksInvariant, SinksTypes, PTL DEF Spec, ImplementsLossyFifo, Fifo!Spec

-----------------------------------------------------------------------------
(* FileSink, for any number of entries, backups and crashes and any limits *)
(* of size and age.                                                        *)

\* The lines of every file, and what FilesAreTheTail says of them: ls is the
\* lines, fl the entries logged to the file.
AllLines == [p \in Path |-> Lines(p)]

HasLine(ls, e) == \E p \in Path : \E k \in DOMAIN ls[p] : ls[p][k] = e

Older(p, i, q, j) == p > q \/ (p = q /\ i < j)

IsTail(ls, fl) ==
    /\ ls \in [Path -> Seq(1..MaxEntries)] /\ fl \in Seq(1..MaxEntries)
    /\ \A i, j \in DOMAIN fl : i < j => fl[i] < fl[j]
    /\ \A p \in Path : \A k \in DOMAIN ls[p] : \E i \in DOMAIN fl : fl[i] = ls[p][k]
    /\ \A i, j \in DOMAIN fl : i < j /\ HasLine(ls, fl[i]) => HasLine(ls, fl[j])
    /\ \A p, q \in Path : \A i \in DOMAIN ls[p], j \in DOMAIN ls[q] :
          Older(p, i, q, j) => ls[p][i] < ls[q][j]

\* What the files are while rotate is under way, and how the writers are.
Rotating ==
    /\ pc \in {"close", "remove", "cascade", "reopen"} => hasHandle
    /\ pc \in {"remove", "cascade", "reopen"} => ~WritesTo("open")
    /\ WritesTo("open") => files[0] # Absent
    /\ pc = "cascade" => step \in 1..MaxBackups /\ files[step] = Absent

FileInv ==
    /\ FileTypeOK /\ written <= 2 * entries
    /\ Rotating
    /\ IsTail(AllLines, filed)

LEMMA PathFacts == 0 \in Path /\ MaxBackups \in Path /\ \A i \in 1..MaxBackups : i \in Path /\ i - 1 \in Path
                   /\ \A p \in Path : p \in Int /\ p <= MaxBackups
BY FileAssumption DEF Path

\* The oldest backup is removed.
LEMMA DroppingOldest ==
  ASSUME NEW ls, NEW fl, IsTail(ls, fl),
         NEW ls2, ls2 = [ls EXCEPT ![MaxBackups] = <<>>]
  PROVE  IsTail(ls2, fl)
<1>1. /\ ls2 \in [Path -> Seq(1..MaxEntries)]
      /\ \A p \in Path \ {MaxBackups} : ls2[p] = ls[p]
      /\ DOMAIN ls2[MaxBackups] = {}
  <2>1. <<>> \in Seq(1..MaxEntries) /\ DOMAIN <<>> = {}
    BY EmptySeq, LenProperties
  <2> QED
    BY <2>1, PathFacts DEF IsTail
<1>2. \A p \in Path : \A k \in DOMAIN ls2[p] : p # MaxBackups /\ ls2[p] = ls[p]
  BY <1>1
<1>3. \A e : HasLine(ls2, e) => HasLine(ls, e)
  BY <1>2 DEF HasLine
<1>4. ASSUME NEW i \in DOMAIN fl, NEW j \in DOMAIN fl, i < j, HasLine(ls2, fl[i])
      PROVE  HasLine(ls2, fl[j])
  <2>1. PICK p \in Path \ {MaxBackups} : \E k \in DOMAIN ls[p] : ls[p][k] = fl[i]
    BY <1>2, <1>4 DEF HasLine
  <2>a. PICK k \in DOMAIN ls[p] : ls[p][k] = fl[i]
    BY <2>1
  <2>2. PICK q \in Path : \E m \in DOMAIN ls[q] : ls[q][m] = fl[j]
    BY <1>3, <1>4 DEF IsTail, HasLine
  <2>b. PICK m \in DOMAIN ls[q] : ls[q][m] = fl[j]
    BY <2>2
  <2>3. fl[i] < fl[j] /\ fl[i] \in Int /\ fl[j] \in Int
    <3>1. DOMAIN fl = 1..Len(fl) /\ \A n \in 1..Len(fl) : fl[n] \in 1..MaxEntries
      BY LenProperties, ElementOfSeq DEF IsTail
    <3> QED
      BY <1>4, <3>1, FileAssumption DEF IsTail
  <2>4. q # MaxBackups
    <3>1. CASE q = MaxBackups
      <4>1. Older(q, m, p, k)
        BY <3>1, PathFacts, FileAssumption DEF Older
      <4>2. fl[j] < fl[i]
        BY <2>a, <2>b, <4>1 DEF IsTail
      <4> QED
        BY <2>3, <4>2
    <3> QED
      BY <3>1
  <2> QED
    BY <1>1, <2>2, <2>4 DEF HasLine
<1>5. \A p \in Path : \A k \in DOMAIN ls2[p] : \E i \in DOMAIN fl : fl[i] = ls2[p][k]
  BY <1>2 DEF IsTail
<1>6. \A p, q \in Path : \A i \in DOMAIN ls2[p], j \in DOMAIN ls2[q] :
         Older(p, i, q, j) => ls2[p][i] < ls2[q][j]
  BY <1>2 DEF IsTail
<1> QED
  BY <1>1, <1>4, <1>5, <1>6 DEF IsTail

\* A file gets the number above, which no file has.
Moved(ls, i) == [ls EXCEPT ![i] = ls[i - 1], ![i - 1] = <<>>]

LEMMA Moving ==
  ASSUME NEW ls, NEW fl, IsTail(ls, fl), NEW i \in 1..MaxBackups, ls[i] = <<>>
  PROVE  IsTail(Moved(ls, i), fl)
<1>0. PICK ls2 : ls2 = Moved(ls, i) /\ ls2 = [ls EXCEPT ![i] = ls[i - 1], ![i - 1] = <<>>]
  BY DEF Moved
<1>1. /\ i \in Path /\ i - 1 \in Path /\ i # i - 1 /\ i \in Int
      /\ DOMAIN <<>> = {} /\ <<>> \in Seq(1..MaxEntries)
  BY PathFacts, EmptySeq, LenProperties
<1>2. /\ ls2 \in [Path -> Seq(1..MaxEntries)]
      /\ ls2[i] = ls[i - 1] /\ DOMAIN ls2[i - 1] = {} /\ DOMAIN ls[i] = {}
      /\ \A p \in Path \ {i, i - 1} : ls2[p] = ls[p]
  BY <1>0, <1>1 DEF IsTail
<1> DEFINE From(p) == IF p = i THEN i - 1 ELSE p
<1>3. \A p \in Path : \A k \in DOMAIN ls2[p] : From(p) \in Path /\ ls2[p] = ls[From(p)] /\ p # i - 1
  BY <1>1, <1>2
<1>4. \A e : HasLine(ls2, e) => HasLine(ls, e)
  BY <1>3 DEF HasLine
<1>5. \A e : HasLine(ls, e) => HasLine(ls2, e)
  <2> SUFFICES ASSUME NEW e, NEW p \in Path, NEW k \in DOMAIN ls[p], ls[p][k] = e
               PROVE  HasLine(ls2, e)
    BY DEF HasLine
  <2>1. CASE p = i - 1
    BY <1>1, <1>2, <2>1 DEF HasLine
  <2>2. CASE p # i - 1
    BY <1>2, <2>2 DEF HasLine
  <2> QED
    BY <2>1, <2>2
<1>6. ASSUME NEW p \in Path, NEW q \in Path, NEW m \in DOMAIN ls2[p], NEW n \in DOMAIN ls2[q],
             Older(p, m, q, n)
      PROVE  ls2[p][m] < ls2[q][n]
  <2>1. Older(From(p), m, From(q), n)
    <3>1. p \in Int /\ q \in Int /\ p # i - 1 /\ q # i - 1
      BY <1>3, PathFacts
    <3> QED
      BY <1>1, <1>6, <3>1 DEF Older
  <2> HIDE DEF From
  <2>2. /\ From(p) \in Path /\ ls2[p] = ls[From(p)]
        /\ From(q) \in Path /\ ls2[q] = ls[From(q)]
    BY <1>3
  <2> QED
    BY <2>1, <2>2 DEF IsTail
<1> HIDE DEF From
<1>7. \A p \in Path : \A k \in DOMAIN ls2[p] : \E j \in DOMAIN fl : fl[j] = ls2[p][k]
  BY <1>3 DEF IsTail
<1>8. \A m, n \in DOMAIN fl : m < n /\ HasLine(ls2, fl[m]) => HasLine(ls2, fl[n])
  BY <1>4, <1>5 DEF IsTail
<1>9. IsTail(ls2, fl)
  BY <1>2, <1>6, <1>7, <1>8 DEF IsTail
<1> QED
  BY <1>0, <1>9

\* An entry is written after all there are.
Written(ls, e) == [ls EXCEPT ![0] = Append(ls[0], e)]

Latest(fl, e) == \A n \in DOMAIN fl : fl[n] < e

LEMMA Writing ==
  ASSUME NEW ls, NEW fl, IsTail(ls, fl), NEW e \in 1..MaxEntries, Latest(fl, e)
  PROVE  IsTail(Written(ls, e), Append(fl, e))
<1>0. PICK ls2, fl2 : /\ ls2 = Written(ls, e) /\ ls2 = [ls EXCEPT ![0] = Append(ls[0], e)]
                      /\ fl2 = Append(fl, e) /\ \A n \in DOMAIN fl : fl[n] < e
  BY DEF Written, Latest
<1>1. /\ fl \in Seq(1..MaxEntries) /\ Len(fl) \in Nat /\ DOMAIN fl = 1..Len(fl)
      /\ ls[0] \in Seq(1..MaxEntries) /\ Len(ls[0]) \in Nat /\ DOMAIN ls[0] = 1..Len(ls[0])
  BY PathFacts, LenProperties DEF IsTail
<1>2. /\ fl2 \in Seq(1..MaxEntries) /\ DOMAIN fl2 = 1..(Len(fl) + 1)
      /\ \A n \in 1..Len(fl) : fl2[n] = fl[n]
      /\ fl2[Len(fl) + 1] = e
  BY <1>0, <1>1, AppendProperties, LenProperties
<1>3. PICK s : s = Append(ls[0], e)
  OBVIOUS
<1>4. /\ s \in Seq(1..MaxEntries) /\ DOMAIN s = 1..(Len(ls[0]) + 1)
      /\ \A n \in 1..Len(ls[0]) : s[n] = ls[0][n]
      /\ s[Len(ls[0]) + 1] = e
  BY <1>1, <1>3, AppendProperties, LenProperties
<1>5. /\ ls2 \in [Path -> Seq(1..MaxEntries)] /\ ls2[0] = s
      /\ \A p \in Path \ {0} : ls2[p] = ls[p]
  BY <1>0, <1>3, <1>4, PathFacts DEF IsTail
<1>6. \A p \in Path : \A k \in DOMAIN ls2[p] :
         \/ k \in DOMAIN ls[p] /\ ls2[p][k] = ls[p][k] /\ ls[p][k] < e
         \/ p = 0 /\ k = Len(ls[0]) + 1 /\ ls2[p][k] = e
  <2> TAKE p \in Path
  <2> TAKE k \in DOMAIN ls2[p]
  <2>1. \A m \in DOMAIN ls[p] : ls[p][m] < e
    BY <1>0 DEF IsTail
  <2>2. CASE p = 0
    <3>1. k \in 1..Len(ls[0]) \/ k = Len(ls[0]) + 1
      BY <1>1, <1>4, <1>5, <2>2
    <3> QED
      BY <1>1, <1>4, <1>5, <2>1, <2>2, <3>1
  <2>3. CASE p # 0
    BY <1>5, <2>1, <2>3
  <2> QED
    BY <2>2, <2>3
<1>7. \A p \in Path : \A k \in DOMAIN ls[p] : k \in DOMAIN ls2[p] /\ ls2[p][k] = ls[p][k]
  <2> TAKE p \in Path
  <2> TAKE k \in DOMAIN ls[p]
  <2>1. CASE p = 0
    <3>1. k \in 1..Len(ls[0]) /\ k \in 1..(Len(ls[0]) + 1)
      BY <1>1, <2>1
    <3> QED
      BY <1>4, <1>5, <2>1, <3>1
  <2>2. CASE p # 0
    BY <1>5, <2>2
  <2> QED
    BY <2>1, <2>2
<1>8. \A x : HasLine(ls, x) => HasLine(ls2, x)
  BY <1>7 DEF HasLine
<1>9. HasLine(ls2, e)
  <2>1. Len(ls[0]) + 1 \in DOMAIN s
    BY <1>1, <1>4
  <2> QED
    BY <1>4, <1>5, <2>1, PathFacts DEF HasLine
<1>10. \A n \in DOMAIN fl2 : \/ n \in DOMAIN fl /\ fl2[n] = fl[n] /\ fl[n] < e /\ n < Len(fl) + 1
                             \/ n = Len(fl) + 1 /\ fl2[n] = e
  <2> TAKE n \in DOMAIN fl2
  <2>1. (n \in 1..Len(fl) /\ n < Len(fl) + 1) \/ n = Len(fl) + 1
    BY <1>1, <1>2
  <2> QED
    BY <1>0, <1>1, <1>2, <2>1
<1>11. \A i, j \in DOMAIN fl2 : i < j => fl2[i] < fl2[j]
  <2> SUFFICES ASSUME NEW i \in DOMAIN fl2, NEW j \in DOMAIN fl2, i < j PROVE fl2[i] < fl2[j]
    OBVIOUS
  <2>1. i \in 1..(Len(fl) + 1) /\ j \in 1..(Len(fl) + 1) /\ i # Len(fl) + 1
    BY <1>1, <1>2
  <2> QED
    BY <1>10, <2>1 DEF IsTail
<1>12. \A p \in Path : \A k \in DOMAIN ls2[p] : \E i \in DOMAIN fl2 : fl2[i] = ls2[p][k]
  <2> TAKE p \in Path
  <2> TAKE k \in DOMAIN ls2[p]
  <2>1. CASE k \in DOMAIN ls[p] /\ ls2[p][k] = ls[p][k]
    <3>1. PICK i \in DOMAIN fl : fl[i] = ls[p][k]
      BY <2>1 DEF IsTail
    <3>2. i \in DOMAIN fl2 /\ fl2[i] = fl[i]
      BY <1>1, <1>2
    <3> QED
      BY <2>1, <3>1, <3>2
  <2>2. CASE ls2[p][k] = e
    <3>1. Len(fl) + 1 \in DOMAIN fl2
      BY <1>1, <1>2
    <3> QED
      BY <1>2, <2>2, <3>1
  <2> QED
    BY <1>6, <2>1, <2>2
<1>13. \A i, j \in DOMAIN fl2 : i < j /\ HasLine(ls2, fl2[i]) => HasLine(ls2, fl2[j])
  <2> SUFFICES ASSUME NEW i \in DOMAIN fl2, NEW j \in DOMAIN fl2, i < j, HasLine(ls2, fl2[i])
               PROVE  HasLine(ls2, fl2[j])
    OBVIOUS
  <2>1. CASE fl2[j] = e
    BY <1>9, <2>1
  <2>2. CASE j \in DOMAIN fl /\ fl2[j] = fl[j]
    <3>1. i \in DOMAIN fl /\ fl2[i] = fl[i] /\ fl[i] < e /\ fl[i] \in Int
      <4>1. i \in 1..Len(fl)
        BY <1>1, <1>2, <2>2
      <4> QED
        BY <1>1, <1>10, <1>2, <4>1, ElementOfSeq, FileAssumption
    <3>2. HasLine(ls, fl[i])
      BY <1>6, <3>1, FileAssumption DEF HasLine
    <3>3. HasLine(ls, fl[j])
      BY <2>2, <3>1, <3>2 DEF IsTail
    <3> QED
      BY <1>8, <2>2, <3>3
  <2> QED
    BY <1>10, <2>1, <2>2
<1>14. ASSUME NEW p \in Path, NEW q \in Path, NEW m \in DOMAIN ls2[p], NEW n \in DOMAIN ls2[q],
              Older(p, m, q, n)
       PROVE  ls2[p][m] < ls2[q][n]
  <2>1. CASE p = 0 /\ m = Len(ls[0]) + 1
    <3>1. q = 0
      BY <1>14, <2>1, PathFacts, FileAssumption DEF Older, Path
    <3>2. n \in 1..(Len(ls[0]) + 1) /\ m < n
      BY <1>4, <1>5, <1>14, <2>1, <3>1 DEF Older
    <3> QED
      BY <1>1, <2>1, <3>2
  <2>2. CASE m \in DOMAIN ls[p] /\ ls2[p][m] = ls[p][m] /\ ls[p][m] < e
    BY <1>6, <1>14, <2>2 DEF IsTail
  <2> QED
    BY <1>6, <2>1, <2>2
<1>15. IsTail(ls2, fl2)
  BY <1>2, <1>5, <1>11, <1>12, <1>13, <1>14 DEF IsTail
<1> QED
  BY <1>0, <1>15

LEMMA FileFacts ==
  ASSUME FileInv
  PROVE  /\ AllLines \in [Path -> Seq(1..MaxEntries)]
         /\ \A p \in Path : AllLines[p] = Lines(p) /\ (files[p] = Absent => Lines(p) = <<>>)
                            /\ (files[p] # Absent => Lines(p) = files[p])
         /\ entries \in Nat /\ entries <= MaxEntries /\ MaxEntries \in Nat
         /\ files \in [Path -> {Absent} \cup Seq(1..MaxEntries)]
BY FileAssumption DEF FileInv, FileTypeOK, AllLines, Lines, IsTail

\* A step that leaves the lines and what was logged as they are.
LEMMA LinesStay ==
  ASSUME FileInv, \A p \in Path : Lines(p)' = Lines(p), filed' = filed
  PROVE  IsTail(AllLines, filed)'
<1>1. AllLines' = AllLines
  BY DEF AllLines
<1> QED
  BY <1>1 DEF FileInv

LEMMA OpeningKeepsLines ==
  ASSUME FileInv, files' = Opened
  PROVE  /\ \A p \in Path : Lines(p)' = Lines(p)
         /\ files' \in [Path -> {Absent} \cup Seq(1..MaxEntries)] /\ files'[0] # Absent
<1>1. Lines(0) \in Seq(1..MaxEntries) /\ Lines(0) # Absent
  BY FileFacts, PathFacts, FileAssumption
<1>2. files' = [files EXCEPT ![0] = Lines(0)]
  BY DEF Opened
<1>3. /\ files' \in [Path -> {Absent} \cup Seq(1..MaxEntries)] /\ files'[0] = Lines(0)
      /\ \A p \in Path \ {0} : files'[p] = files[p]
  BY <1>1, <1>2, FileFacts, PathFacts
<1> QED
  BY <1>1, <1>3 DEF Lines

\* What there is to the writers, when they are replaced.
WritersOK(ws) == ws \in Seq(Writer) /\ Len(ws) \in 1..2

LEMMA WriterFacts ==
  /\ WritersOK(FirstWriters) /\ \E i \in DOMAIN FirstWriters : FirstWriters[i] = "open"
  /\ FileInv =>
        /\ WritersOK([i \in DOMAIN writers |-> IF writers[i] = "open" THEN "closed" ELSE writers[i]])
        /\ WritersOK([writers EXCEPT ![1] = "open"]) /\ 1 \in DOMAIN writers
        /\ DOMAIN [writers EXCEPT ![1] = "open"] = DOMAIN writers
        /\ Counted \in 0..2
<1>1. WritersOK(FirstWriters) /\ \E i \in DOMAIN FirstWriters : FirstWriters[i] = "open"
  <2>1. CASE output = "both"
    <3>1. <<"stdout", "open">> \in Seq(Writer) /\ Len(<<"stdout", "open">>) = 2
          /\ 2 \in DOMAIN <<"stdout", "open">> /\ <<"stdout", "open">>[2] = "open"
      BY DEF Writer
    <3> QED
      BY <2>1, <3>1 DEF FirstWriters, WritersOK
  <2>2. CASE output # "both"
    <3>1. <<"open">> \in Seq(Writer) /\ Len(<<"open">>) = 1
          /\ 1 \in DOMAIN <<"open">> /\ <<"open">>[1] = "open"
      BY DEF Writer
    <3> QED
      BY <2>2, <3>1 DEF FirstWriters, WritersOK
  <2> QED
    BY <2>1, <2>2
<1>2. ASSUME FileInv
      PROVE  /\ WritersOK([i \in DOMAIN writers |->
                              IF writers[i] = "open" THEN "closed" ELSE writers[i]])
             /\ WritersOK([writers EXCEPT ![1] = "open"]) /\ 1 \in DOMAIN writers
             /\ DOMAIN [writers EXCEPT ![1] = "open"] = DOMAIN writers
             /\ Counted \in 0..2
  <2>1. /\ writers \in Seq(Writer) /\ Len(writers) \in 1..2 /\ DOMAIN writers = 1..Len(writers)
        /\ \A i \in 1..Len(writers) : writers[i] \in Writer
    BY <1>2, LenProperties, ElementOfSeq DEF FileInv, FileTypeOK
  <2>2. PICK w : w = [i \in DOMAIN writers |->
                         IF writers[i] = "open" THEN "closed" ELSE writers[i]]
    OBVIOUS
  <2>3. w \in [1..Len(writers) -> Writer]
    BY <2>1, <2>2 DEF Writer
  <2>4. w \in Seq(Writer) /\ Len(w) = Len(writers)
    BY <2>1, <2>3, SeqDef, LenProperties
  <2>5. [writers EXCEPT ![1] = "open"] \in Seq(Writer)
        /\ Len([writers EXCEPT ![1] = "open"]) = Len(writers)
    BY <2>1, ExceptSeq DEF Writer
  <2>6. Cardinality({i \in DOMAIN writers : writers[i] # "closed"}) \in 0..2
    <3> DEFINE I == {i \in DOMAIN writers : writers[i] # "closed"}
    <3>1. I \subseteq 1..2
      BY <2>1
    <3>2. IsFiniteSet(1..2) /\ Cardinality(1..2) = 2
      <4>1. 1 \in Int /\ 2 \in Int
        OBVIOUS
      <4>2. IsFiniteSet(1..2) /\ Cardinality(1..2) = IF 1 > 2 THEN 0 ELSE 2 - 1 + 1
        BY <4>1, FS_Interval
      <4> QED
        BY <4>2
    <3>3. Cardinality(I) <= Cardinality(1..2) /\ IsFiniteSet(I)
      BY <3>1, <3>2, FS_Subset
    <3>4. Cardinality(I) \in Nat
      BY <3>3, FS_CardinalityType
    <3> QED
      BY <3>2, <3>3, <3>4
  <2> QED
    BY <2>1, <2>2, <2>4, <2>5, <2>6 DEF WritersOK, Counted
<1> QED
  BY <1>1, <1>2

LEMMA LogKeepsInv == ASSUME FileInv, Log PROVE FileInv'
<1>1. /\ pc = "idle" /\ entries < MaxEntries /\ entries' = entries + 1
      /\ written' = written + Counted
      /\ pc' = (IF ShouldRotate(written') THEN "close" ELSE "idle")
      /\ filed' = (IF hasHandle THEN Append(filed, entries') ELSE filed)
      /\ files' = (IF WritesTo("open") THEN [files EXCEPT ![0] = Append(@, entries')] ELSE files)
      /\ stdout' = (IF WritesTo("stdout") THEN Append(stdout, entries') ELSE stdout)
      /\ UNCHANGED <<output, writers, hasHandle, created, step, now, crashes>>
  BY DEF Log
<1>2. PICK e : e = entries' /\ e = entries + 1 /\ e \in 1..MaxEntries /\ e \in 1..e
  BY <1>1, FileFacts
<1>3. FileTypeOK /\ Rotating /\ written <= 2 * entries
  BY DEF FileInv
<1>4. hasHandle <=> WritesTo("open")
  BY <1>1, <1>3 DEF FileTypeOK
<1>5. written' \in 0..(2 * MaxEntries) /\ written' <= 2 * entries'
  <2>1. written \in Nat /\ Counted \in 0..2 /\ entries \in Nat /\ MaxEntries \in Nat
        /\ entries + 1 <= MaxEntries
    BY <1>1, <1>3, WriterFacts, FileFacts DEF FileTypeOK
  <2> QED
    BY <1>1, <1>3, <2>1
<1>6. stdout' \in Seq(1..MaxEntries)
  BY <1>1, <1>2, <1>3, AppendProperties DEF FileTypeOK
<1>7. filed \in Seq(1..entries) /\ filed \in Seq(1..e) /\ \A n \in DOMAIN filed : filed[n] < e
  <2>1. filed \in Seq(1..entries) /\ DOMAIN filed = 1..Len(filed)
    BY <1>3, LenProperties DEF FileTypeOK
  <2>2. \A n \in 1..Len(filed) : filed[n] \in 1..entries
    BY <2>1, ElementOfSeq
  <2>3. 1..entries \subseteq 1..e
    BY <1>2, FileFacts
  <2>4. filed \in Seq(1..e)
    BY <2>1, <2>3, SeqMonotonic
  <2> QED
    BY <1>2, <2>1, <2>2, <2>4, FileFacts
<1>8. CASE hasHandle
  <2>1. files[0] # Absent /\ Lines(0) = files[0] /\ files[0] \in Seq(1..MaxEntries)
    BY <1>3, <1>4, <1>8, FileFacts, PathFacts DEF Rotating
  <2>2. PICK s : s = Append(files[0], e) /\ s \in Seq(1..MaxEntries) /\ s # Absent
    <3>1. Append(files[0], e) \in Seq(1..MaxEntries)
      BY <1>2, <2>1, AppendProperties
    <3> QED
      BY <3>1, FileAssumption
  <2>3. files' = [files EXCEPT ![0] = s]
    BY <1>1, <1>2, <1>4, <1>8, <2>2
  <2>4. /\ files' \in [Path -> {Absent} \cup Seq(1..MaxEntries)] /\ files'[0] = s
        /\ \A p \in Path \ {0} : files'[p] = files[p]
    BY <2>2, <2>3, FileFacts, PathFacts
  <2>5. filed' = Append(filed, e) /\ filed' \in Seq(1..e)
    BY <1>1, <1>2, <1>7, <1>8, AppendProperties
  <2>6. PICK ls, fl : ls = AllLines /\ fl = filed
    OBVIOUS
  <2>7. AllLines' = [ls EXCEPT ![0] = Append(ls[0], e)]
    <3>1. \A p \in Path \ {0} : Lines(p)' = ls[p]
      BY <2>4, <2>6, FileFacts DEF Lines
    <3>2. Lines(0)' = s /\ ls[0] = files[0]
      BY <2>1, <2>2, <2>4, <2>6, FileFacts, PathFacts DEF Lines
    <3> QED
      BY <2>2, <2>6, <3>1, <3>2, FileFacts DEF AllLines
  <2>8. IsTail(AllLines', filed')
    <3>1. IsTail(ls, fl) /\ Latest(fl, e)
      BY <1>7, <2>6 DEF FileInv, Latest
    <3>2. IsTail(Written(ls, e), Append(fl, e))
      BY <1>2, <3>1, Writing
    <3> QED
      BY <2>5, <2>6, <2>7, <3>2 DEF Written
  <2>9. FileTypeOK'
    BY <1>1, <1>2, <1>3, <1>5, <1>6, <2>4, <2>5 DEF FileTypeOK, WritesTo
  <2>10. Rotating'
    BY <1>1, <1>8, <2>2, <2>4 DEF Rotating, WritesTo
  <2> QED
    BY <1>5, <2>8, <2>9, <2>10 DEF FileInv
<1>9. CASE ~hasHandle
  <2>1. files' = files /\ filed' = filed /\ pc' = "idle"
    BY <1>1, <1>4, <1>9 DEF ShouldRotate
  <2>2. FileTypeOK'
    BY <1>1, <1>2, <1>3, <1>5, <1>6, <1>7, <2>1 DEF FileTypeOK, WritesTo
  <2>3. Rotating'
    BY <1>1, <1>3, <2>1 DEF Rotating, WritesTo
  <2>4. IsTail(AllLines, filed)'
    BY <2>1, LinesStay DEF Lines
  <2> QED
    BY <1>5, <2>2, <2>3, <2>4 DEF FileInv
<1> QED
  BY <1>8, <1>9

LEMMA FileStepKeepsInv == FileInv /\ [FileNext]_fileVars => FileInv'
<1> SUFFICES ASSUME FileInv, [FileNext]_fileVars PROVE FileInv'
  OBVIOUS
<1>1. FileTypeOK /\ Rotating /\ IsTail(AllLines, filed) /\ written <= 2 * entries
      /\ files \in [Path -> {Absent} \cup Seq(1..MaxEntries)]
  BY DEF FileInv, FileTypeOK
<1> DEFINE Closed == [i \in DOMAIN writers |-> IF writers[i] = "open" THEN "closed" ELSE writers[i]]
<1>2. ASSUME writers' = Closed PROVE ~WritesTo("open")'
  BY <1>2 DEF WritesTo
<1>3. ASSUME files' = files, filed' = filed PROVE IsTail(AllLines, filed)'
  BY <1>3, LinesStay DEF Lines
<1>4. CASE Log
  BY <1>4, LogKeepsInv
<1>5. CASE CloseFile
  <2>1. WritersOK(writers') /\ ~WritesTo("open")' /\ files' = files /\ filed' = filed
    BY <1>2, <1>5, WriterFacts DEF CloseFile, disk, history
  <2> QED
    BY <1>1, <1>3, <1>5, <2>1
       DEF FileInv, FileTypeOK, Rotating, CloseFile, disk, history, WritersOK
<1>6. CASE RemoveOldest
  <2>1. /\ pc = "remove" /\ pc' = "cascade" /\ step' = MaxBackups
        /\ files' = [files EXCEPT ![MaxBackups] = Absent]
        /\ UNCHANGED <<output, stdout, sinkVars, now, history>>
    BY <1>6 DEF RemoveOldest
  <2>2. /\ files' \in [Path -> {Absent} \cup Seq(1..MaxEntries)] /\ files'[MaxBackups] = Absent
        /\ \A p \in Path \ {MaxBackups} : files'[p] = files[p]
    BY <1>1, <2>1, PathFacts
  <2>3. PICK ls, fl : ls = AllLines /\ fl = filed
    OBVIOUS
  <2>4. AllLines' = [ls EXCEPT ![MaxBackups] = <<>>]
    <3>1. \A p \in Path \ {MaxBackups} : Lines(p)' = ls[p]
      BY <2>2, <2>3, FileFacts DEF Lines
    <3>2. Lines(MaxBackups)' = <<>>
      BY <2>2 DEF Lines
    <3> QED
      BY <2>3, <3>1, <3>2, FileFacts DEF AllLines
  <2>5. IsTail(AllLines', filed')
    <3>1. PICK ls2 : ls2 = [ls EXCEPT ![MaxBackups] = <<>>]
      OBVIOUS
    <3>2. IsTail(ls, fl)
      BY <1>1, <2>3
    <3>3. IsTail(ls2, fl)
      BY <3>1, <3>2, DroppingOldest
    <3> QED
      BY <2>1, <2>3, <2>4, <3>1, <3>3 DEF history
  <2>6. Rotating'
    BY <1>1, <2>1, <2>2, FileAssumption DEF Rotating, WritesTo, sinkVars
  <2>7. FileTypeOK'
    BY <1>1, <2>1, <2>2, PathFacts DEF FileTypeOK, WritesTo, sinkVars, history
  <2> QED
    BY <1>1, <2>1, <2>5, <2>6, <2>7 DEF FileInv, sinkVars, history
<1>7. CASE Cascade
  <2>1. /\ pc = "cascade" /\ files' = Rename(step) /\ step' = step - 1
        /\ pc' = (IF step = 1 THEN "reopen" ELSE "cascade")
        /\ UNCHANGED <<output, stdout, sinkVars, now, history>>
    BY <1>7 DEF Cascade
  <2>2. PICK i \in 1..MaxBackups : i = step
    BY <1>1, <2>1 DEF Rotating
  <2>3. files[i] = Absent /\ i \in Path /\ i - 1 \in Path /\ i # i - 1 /\ i \in Int
    BY <1>1, <2>1, <2>2, PathFacts DEF Rotating
  <2>4. /\ files' \in [Path -> {Absent} \cup Seq(1..MaxEntries)]
        /\ files'[i - 1] = Absent /\ files'[i] = files[i - 1]
        /\ \A p \in Path \ {i, i - 1} : files'[p] = files[p]
    BY <1>1, <2>1, <2>2, <2>3 DEF Rename
  <2>5. PICK ls, fl : ls = AllLines /\ fl = filed
    OBVIOUS
  <2>6. AllLines' = [ls EXCEPT ![i] = ls[i - 1], ![i - 1] = <<>>]
    <3>1. \A p \in Path \ {i, i - 1} : Lines(p)' = ls[p]
      BY <2>4, <2>5, FileFacts DEF Lines
    <3>2. Lines(i - 1)' = <<>>
      BY <2>4 DEF Lines
    <3>3. Lines(i)' = ls[i - 1]
      BY <2>3, <2>4, <2>5, FileFacts DEF Lines
    <3> QED
      BY <2>3, <2>5, <3>1, <3>2, <3>3, FileFacts DEF AllLines
  <2>7. IsTail(AllLines', filed')
    <3>2. IsTail(ls, fl) /\ ls[i] = <<>>
      BY <1>1, <2>3, <2>5, FileFacts
    <3>3. IsTail(Moved(ls, i), fl)
      BY <3>2, Moving
    <3> QED
      BY <2>1, <2>5, <2>6, <3>3 DEF Moved, history
  <2>8. Rotating'
    <3>1. pc' = "cascade" => step' \in 1..MaxBackups /\ files'[step'] = Absent
      <4>1. i # 1 => i - 1 \in 1..MaxBackups
        BY FileAssumption
      <4> QED
        BY <2>1, <2>2, <2>4, <4>1
    <3>2. ~WritesTo("open")' /\ hasHandle'
      BY <1>1, <2>1 DEF Rotating, WritesTo, sinkVars
    <3> QED
      BY <2>1, <3>1, <3>2 DEF Rotating
  <2>9. FileTypeOK'
    BY <1>1, <2>1, <2>2, <2>3, <2>4 DEF FileTypeOK, WritesTo, sinkVars, history
  <2> QED
    BY <1>1, <2>1, <2>7, <2>8, <2>9 DEF FileInv, sinkVars, history
<1>8. CASE Reopen
  <2>1. /\ pc = "reopen" /\ pc' = "idle" /\ files' = Opened /\ writers' = [writers EXCEPT ![1] = "open"]
        /\ written' = 0 /\ created' = now /\ UNCHANGED <<output, stdout, hasHandle, step, now, history>>
    BY <1>8 DEF Reopen
  <2>2. WritersOK(writers') /\ WritesTo("open")'
    BY <2>1, WriterFacts DEF WritesTo
  <2>3. hasHandle' = TRUE
    BY <1>1, <2>1 DEF Rotating, FileTypeOK
  <2>4. IsTail(AllLines, filed)'
    BY <2>1, OpeningKeepsLines, LinesStay DEF history
  <2>5. written' \in 0..(2 * MaxEntries) /\ written' <= 2 * entries' /\ created' \in 0..now'
    BY <1>1, <2>1, FileFacts DEF FileTypeOK, history
  <2>6. FileTypeOK'
    BY <1>1, <2>1, <2>2, <2>3, <2>5, OpeningKeepsLines DEF FileTypeOK, WritersOK, history
  <2> QED
    BY <2>1, <2>4, <2>5, <2>6, OpeningKeepsLines DEF FileInv, Rotating
<1>9. CASE Restart
  <2>1. /\ pc' = "idle" /\ files' = Opened /\ writers' = FirstWriters /\ hasHandle' = TRUE
        /\ written' = 0 /\ created' = now /\ UNCHANGED <<output, stdout, step, now, history>>
    BY <1>9 DEF Restart
  <2>2. WritersOK(writers') /\ WritesTo("open")'
    BY <2>1, WriterFacts DEF WritesTo
  <2>4. IsTail(AllLines, filed)'
    BY <2>1, OpeningKeepsLines, LinesStay DEF history
  <2>5. written' \in 0..(2 * MaxEntries) /\ written' <= 2 * entries' /\ created' \in 0..now'
    BY <1>1, <2>1, FileFacts DEF FileTypeOK, history
  <2>6. FileTypeOK'
    BY <1>1, <2>1, <2>2, <2>5, OpeningKeepsLines DEF FileTypeOK, WritersOK, history
  <2> QED
    BY <2>1, <2>4, <2>5, <2>6, OpeningKeepsLines DEF FileInv, Rotating
<1>10. CASE ReopenFails
  <2>1. WritesTo("open")' <=> WritesTo("open")
    BY <1>10 DEF ReopenFails, WritesTo
  <2> QED
    BY <1>1, <1>3, <1>10, <2>1
       DEF FileInv, FileTypeOK, Rotating, ReopenFails, disk, history
<1>11. CASE CloseFileSink
  <2>1. WritersOK(writers') /\ ~WritesTo("open")' /\ files' = files /\ filed' = filed
    BY <1>2, <1>11, WriterFacts DEF CloseFileSink, disk, history
  <2> QED
    BY <1>1, <1>3, <1>11, <2>1
       DEF FileInv, FileTypeOK, Rotating, CloseFileSink, disk, history, WritersOK
<1>12. CASE Crash
  <2>1. crashes' \in 0..MaxCrashes /\ (WritesTo("open")' <=> WritesTo("open"))
    BY <1>1, <1>12, FileAssumption DEF Crash, FileTypeOK, WritesTo, sinkVars
  <2> QED
    BY <1>1, <1>3, <1>12, <2>1 DEF FileInv, FileTypeOK, Rotating, Crash, disk, sinkVars
<1>13. CASE Tick
  <2>1. now' \in 0..MaxTime /\ created' \in 0..now' /\ (WritesTo("open")' <=> WritesTo("open"))
    BY <1>1, <1>13, FileAssumption DEF Tick, FileTypeOK, WritesTo, sinkVars
  <2> QED
    BY <1>1, <1>3, <1>13, <2>1
       DEF FileInv, FileTypeOK, Rotating, Tick, disk, sinkVars, history
<1>14. CASE UNCHANGED fileVars
  <2>1. WritesTo("open")' <=> WritesTo("open")
    BY <1>14 DEF fileVars, WritesTo
  <2> QED
    BY <1>1, <1>3, <1>14, <2>1 DEF FileInv, FileTypeOK, Rotating, fileVars
<1> QED
  BY <1>4, <1>5, <1>6, <1>7, <1>8, <1>9, <1>10, <1>11, <1>12, <1>13, <1>14 DEF FileNext

LEMMA FileInvariant == FileSpec => []FileInv
<1>1. FileInit => FileInv
  <2> SUFFICES ASSUME FileInit PROVE FileInv
    OBVIOUS
  <2>1. <<>> \in Seq(1..MaxEntries) /\ <<>> \in Seq(1..entries) /\ DOMAIN <<>> = {} /\ <<>> # Absent
    <3>1. <<>> \in Seq(1..MaxEntries) /\ <<>> \in Seq(1..entries)
      BY EmptySeq
    <3>2. DOMAIN <<>> = {}
      OBVIOUS
    <3> QED
      BY <3>1, <3>2, FileAssumption
  <2>2. /\ files \in [Path -> {Absent} \cup Seq(1..MaxEntries)]
        /\ files[0] # Absent /\ \A p \in Path : Lines(p) = <<>>
    BY <2>1, PathFacts DEF FileInit, Lines
  <2>3. WritersOK(writers) /\ WritesTo("open")
    BY WriterFacts DEF FileInit, WritesTo
  <2>4. FileTypeOK /\ written <= 2 * entries
    BY <2>1, <2>2, <2>3, PathFacts, FileAssumption DEF FileInit, FileTypeOK, WritersOK
  <2>5. Rotating
    BY <2>2 DEF FileInit, Rotating
  <2>6. IsTail(AllLines, filed)
    BY <2>1, <2>2 DEF FileInit, IsTail, AllLines
  <2> QED
    BY <2>4, <2>5, <2>6 DEF FileInv
<1> QED
  BY <1>1, FileStepKeepsInv, PTL DEF FileSpec

\* Log, rotate, Close and restarts, for any number of entries, backups and
\* crashes: the log and its backups are the last entries that were logged to
\* the file, in order and each once.
THEOREM FilesKeepTheTail == FileSpec => []FilesAreTheTail
<1>1. FileInv => FilesAreTheTail
  <2> SUFFICES ASSUME FileInv PROVE FilesAreTheTail
    OBVIOUS
  <2>1. \A e : e \in Held <=> HasLine(AllLines, e)
    BY FileFacts DEF Held, HasLine, ToSet
  <2>2. Held \subseteq ToSet(filed)
    BY <2>1 DEF FileInv, IsTail, HasLine, ToSet
  <2>3. \A i, j \in DOMAIN filed : i < j /\ filed[i] \in Held => filed[j] \in Held
    BY <2>1 DEF FileInv, IsTail
  <2>4. LinesInOrder
    BY FileFacts DEF FileInv, IsTail, LinesInOrder, Older
  <2> QED
    BY <2>2, <2>3, <2>4 DEF FileInv, FilesAreTheTail
<1> QED
  BY <1>1, FileInvariant, PTL

\* rotate: only the oldest backup is removed from the disk.
THEOREM OnlyTheOldestGoes == FileSpec => OnlyTheOldestIsRemoved
<1> DEFINE Step == \A p \in 0..(MaxBackups - 1) : \A e \in ToSet(Lines(p)) :
                      \E q \in Path : files'[q] # Absent /\ e \in ToSet(files'[q])
<1>1. FileInv /\ [FileNext]_fileVars => [Step]_files
  <2> SUFFICES ASSUME FileInv, FileNext, files' # files,
                      NEW p \in 0..(MaxBackups - 1), NEW e \in ToSet(Lines(p))
               PROVE  \E q \in Path : files'[q] # Absent /\ e \in ToSet(files'[q])
    BY DEF fileVars
  <2>1. p \in Path /\ p # MaxBackups /\ Lines(p) = files[p] /\ files[p] # Absent
    <3>1. p \in Path /\ p # MaxBackups
      BY FileAssumption DEF Path
    <3>2. Lines(p) # <<>>
      BY EmptySeq, LenProperties DEF ToSet
    <3> QED
      BY <3>1, <3>2, FileFacts
  <2>2. CASE files'[p] = files[p]
    BY <2>1, <2>2
  <2>3. CASE Log
    <3>1. PICK n : n = entries' /\ n \in 1..MaxEntries
      BY <2>3, FileFacts DEF Log
    <3>2. files' = [files EXCEPT ![0] = Append(files[0], n)]
      BY <2>3, <3>1 DEF Log
    <3>3. CASE p = 0
      <4>1. files[0] \in Seq(1..MaxEntries)
        BY <2>1, <3>3, FileFacts
      <4>2. PICK s : s = Append(files[0], n) /\ s \in Seq(1..MaxEntries)
        BY <3>1, <4>1, AppendProperties
      <4>3. /\ DOMAIN files[0] = 1..Len(files[0]) /\ DOMAIN s = 1..(Len(files[0]) + 1)
            /\ Len(files[0]) \in Nat /\ \A i \in 1..Len(files[0]) : s[i] = files[0][i]
        BY <3>1, <4>1, <4>2, AppendProperties, LenProperties
      <4>4. PICK i \in 1..Len(files[0]) : files[0][i] = e
        BY <2>1, <3>3, <4>3 DEF ToSet
      <4>5. i \in DOMAIN s /\ s[i] = e
        BY <4>3, <4>4
      <4>6. files'[0] = s /\ s # Absent
        BY <3>2, <4>2, FileFacts, PathFacts, FileAssumption
      <4> QED
        BY <4>5, <4>6, PathFacts DEF ToSet
    <3> QED
      BY <2>1, <2>2, <3>2, <3>3, FileFacts
  <2>4. CASE RemoveOldest
    BY <2>1, <2>2, <2>4, FileFacts DEF RemoveOldest
  <2>5. CASE Cascade
    <3>1. step \in 1..MaxBackups /\ files[step] = Absent /\ files' = Rename(step)
      BY <2>5 DEF Cascade, FileInv, Rotating
    <3>2. step \in Path /\ step - 1 \in Path /\ step - 1 # step /\ files \in [Path -> {Absent} \cup Seq(1..MaxEntries)]
      BY <3>1, PathFacts, FileFacts
    <3>3. CASE p = step - 1
      BY <2>1, <3>1, <3>2, <3>3 DEF Rename
    <3>4. CASE p # step - 1
      BY <2>1, <2>2, <3>1, <3>2, <3>4 DEF Rename
    <3> QED
      BY <3>3, <3>4
  <2>6. CASE files' = Opened
    BY <2>1, <2>2, <2>6, FileFacts DEF Opened
  <2> QED
    BY <2>3, <2>4, <2>5, <2>6
       DEF FileNext, CloseFile, Reopen, ReopenFails, CloseFileSink, Crash, Restart, Tick, disk
<1> QED
  BY <1>1, FileInvariant, PTL DEF FileSpec, OnlyTheOldestIsRemoved
=============================================================================
