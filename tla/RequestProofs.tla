---------------------------- MODULE RequestProofs ----------------------------
(***************************************************************************)
(* Proofs about what a request goes through: Pipeline, for requests and    *)
(* batches of any length, then RateLimiter, and DepthLimit at the end.     *)
(*                                                                         *)
(* Trail says of the items answered so far what the audit log says of      *)
(* them: the k-th entry is about the k-th item.  A request that is logged  *)
(* as a whole (Whole) has no answers to items.  StageOK says what can have *)
(* been done by each stage, and that the client has got nothing before the *)
(* last.                                                                   *)
(***************************************************************************)
EXTENDS Pipeline, RateLimiter, DepthLimit, SequenceTheorems,
        WellFoundedInduction, TLAPS

\* The answer to item i is filtered or masked as its method asks.
Guarded(i) ==
    answers[i].body = "json" =>
        /\ req.items[i].method = "tools/list" => answers[i].filtered
        /\ req.items[i].sensitive => answers[i].masked

Trail ==
    /\ Len(audit) = Len(answers)
    /\ Len(answers) <= Len(req.items)
    /\ \A i \in 1..Len(answers) :
          /\ audit[i].item = i
          /\ audit[i].allowed <=> i \in checked
          /\ audit[i].allowed <=> answers[i].body # "error"
          /\ Guarded(i)

Whole == pc = "done" /\ answers = <<>> /\ Len(audit) = 1 /\ audit[1].item = 0

Parsed == req.form \in {"single", "batch"}

ForwardedOK ==
    \A f \in forwarded : IF Parsed THEN f.item \in checked ELSE f.item = 0

Untouched == next = 1 /\ checked = {} /\ forwarded = {} /\ answers = <<>> /\ audit = <<>>

DoneOK ==
    /\ response.code \notin {0, 200} => forwarded = {}
    /\ req.form = "batch" /\ response.code \in {0, 200} => Len(answers) = next - 1
    /\ req.route = "mcp" /\ audit = <<>> =>
          response.code = 400 \/ (req.form = "batch" /\ req.items = <<>>)
    /\ \A f \in forwarded : f.item \in {audit[k].item : k \in DOMAIN audit}

StageOK ==
    /\ pc \notin {"item", "forward", "done", "aborted"} => Untouched
    /\ pc = "single" => req.form = "single"
    /\ pc = "unparsed" => ~Parsed
    /\ pc = "forward" => /\ req.form = "single" /\ checked = {1}
                         /\ forwarded = {} /\ answers = <<>> /\ audit = <<>>
    /\ pc = "item" => /\ req.form = "batch"
                      /\ Len(answers) = next - 1
                      /\ checked \subseteq 1..(next - 1)
                      /\ \A f \in forwarded : f.item \in {audit[k].item : k \in DOMAIN audit}
    /\ pc = "done" => DoneOK
    /\ pc # "done" => response = Refused(0)

-----------------------------------------------------------------------------
\* Sequences of at most n elements.
LEMMA BoundedSeqIs ==
  ASSUME NEW S, NEW n \in Nat, NEW s
  PROVE  s \in BoundedSeq(S, n) <=> s \in Seq(S) /\ Len(s) <= n
<1>1. ASSUME s \in BoundedSeq(S, n) PROVE s \in Seq(S) /\ Len(s) <= n
  <2>1. PICK m \in 0..n : s \in [1..m -> S]
    BY <1>1 DEF BoundedSeq, SeqOf
  <2> QED
    BY <2>1
<1>2. ASSUME s \in Seq(S), Len(s) <= n PROVE s \in BoundedSeq(S, n)
  BY <1>2, LenProperties DEF BoundedSeq, SeqOf
<1> QED
  BY <1>1, <1>2

LEMMA RequestIs ==
  ASSUME req \in Request
  PROVE  /\ req.items \in Seq(Item) /\ Len(req.items) \in 0..MaxItems
         /\ req.form = "single" => Len(req.items) = 1
         /\ req.form \in {"none", "badSingle", "badBatch"} => req.items = <<>>
         /\ req.route # "mcp" => req.form = "none"
BY PipelineAssumption, BoundedSeqIs, LenProperties DEF Request

Body == {"json", "text", "empty", "error"}

AnswerType == [body : Body, masked : BOOLEAN, filtered : BOOLEAN]

EntryType == [item : 0..MaxItems, allowed : BOOLEAN]

\* TypeOK with the sequences as sequences.
TypeParts ==
    /\ pc \in Stage
    /\ req \in Request
    /\ next \in 1..(MaxItems + 1)
    /\ checked \subseteq 1..Len(req.items)
    /\ forwarded \subseteq [item : 0..MaxItems, masked : BOOLEAN]
    /\ answers \in Seq(AnswerType)
    /\ audit \in Seq(EntryType) /\ Len(audit) <= MaxItems
    /\ response \in [code : {0, 200, 400, 401, 403, 413, 429}, body : Body, lost : BOOLEAN]

PInv == TypeParts /\ (Trail \/ Whole) /\ ForwardedOK /\ StageOK

LEMMA TypePartsAreTypes == TypeParts => TypeOK
<1> SUFFICES ASSUME TypeParts PROVE TypeOK
  OBVIOUS
<1>1. audit \in BoundedSeq(EntryType, MaxItems)
  BY PipelineAssumption, BoundedSeqIs DEF TypeParts
<1>2. \A i \in DOMAIN answers : answers[i] \in AnswerType
  BY LenProperties, ElementOfSeq DEF TypeParts
<1> QED
  BY <1>1, <1>2 DEF TypeParts, TypeOK, AnswerType, EntryType, Body

LEMMA PipelineInit == Init => PInv
<1> SUFFICES ASSUME Init PROVE PInv
  OBVIOUS
<1>1. TypeParts
  BY PipelineAssumption, RequestIs DEF Init, TypeParts, Stage, Refused, Body
<1>2. Trail
  BY <1>1, RequestIs DEF Init, Trail, TypeParts
<1>3. ForwardedOK /\ StageOK
  BY DEF Init, ForwardedOK, StageOK, Untouched, Refused
<1> QED
  BY <1>1, <1>2, <1>3 DEF PInv

Early == {"route", "size", "auth", "rate", "sse", "body", "parse"}

\* A request goes on to the next stage with nothing done for it.
LEMMA PassKeeps ==
  ASSUME PInv, NEW from \in Early, NEW to \in Early \cup {"single", "unparsed", "item"},
         Pass(from, to),
         to = "single" => req.form = "single",
         to = "item" => req.form = "batch",
         to = "unparsed" => ~Parsed
  PROVE  PInv'
<1>1. TypeParts'
  BY DEF PInv, TypeParts, Pass, Go, Early, Stage
<1>2. (Trail \/ Whole)' /\ ForwardedOK'
  BY DEF PInv, Trail, Whole, Guarded, ForwardedOK, Parsed, Pass, Go, Early
<1>3. Untouched /\ Untouched'
  BY DEF PInv, StageOK, Untouched, Pass, Go, Early
<1>4. Len(answers)' = next' - 1 /\ checked' \subseteq 1..(next' - 1)
  BY <1>3 DEF Untouched
<1>5. StageOK'
  BY <1>3, <1>4 DEF PInv, StageOK, Untouched, DoneOK, Parsed, Pass, Go, Early
<1> QED
  BY <1>1, <1>2, <1>5 DEF PInv

LEMMA FirstEntry == ASSUME NEW e PROVE Append(<<>>, e) = <<e>>
OBVIOUS

LEMMA OneEntry == ASSUME NEW S, NEW e \in S PROVE <<e>> \in Seq(S) /\ Len(<<e>>) = 1
OBVIOUS

LEMMA OneRefusal ==
  <<Entry(0, FALSE)>> \in Seq(EntryType) /\ Len(<<Entry(0, FALSE)>>) = 1
<1>1. PICK e : e = Entry(0, FALSE)
  OBVIOUS
<1>2. e \in EntryType
  BY <1>1, PipelineAssumption DEF Entry, EntryType
<1>3. <<e>> \in Seq(EntryType) /\ Len(<<e>>) = 1
  BY <1>2, OneEntry
<1> QED
  BY <1>1, <1>3

\* It is refused before anything was done for it: unlogged only if it is not
\* for the pipeline or cannot be read.
LEMMA RefuseKeeps ==
  ASSUME PInv, NEW from \in Early,
         NEW code \in {200, 400, 401, 403, 413, 429},
         \/ RefuseUnlogged(from, code) /\ (code = 400 \/ req.route # "mcp")
         \/ Refuse(from, code) /\ code # 200
  PROVE  PInv'
<1>1. Untouched
  BY DEF PInv, StageOK, RefuseUnlogged, Refuse, Go, Early
<1>0. /\ pc' = "done" /\ response' = Refused(code)
      /\ UNCHANGED <<req, next, checked, forwarded, answers>>
  BY DEF RefuseUnlogged, Refuse, Go
<1>2. audit' \in {<<>>, <<Entry(0, FALSE)>>}
  <2>1. RefuseUnlogged(from, code) => audit' = <<>>
    BY <1>1 DEF Untouched, RefuseUnlogged
  <2>2. Refuse(from, code) => audit' = <<Entry(0, FALSE)>>
    BY <1>1, FirstEntry DEF Untouched, Refuse, Log
  <2> QED
    BY <2>1, <2>2
<1>3. TypeParts'
  <2>1. audit' \in Seq(EntryType) /\ Len(audit') <= MaxItems
    <3>2. <<>> \in Seq(EntryType) /\ Len(<<>>) = 0
      OBVIOUS
    <3>3. <<Entry(0, FALSE)>> \in Seq(EntryType) /\ Len(<<Entry(0, FALSE)>>) = 1
      BY OneRefusal
    <3>4. CASE audit' = <<>>
      BY <3>2, <3>4, PipelineAssumption
    <3>5. CASE audit' = <<Entry(0, FALSE)>>
      BY <3>3, <3>5, PipelineAssumption, 1 <= MaxItems
    <3> QED
      BY <1>2, <3>4, <3>5
  <2>2. response' \in [code : {0, 200, 400, 401, 403, 413, 429}, body : Body, lost : BOOLEAN]
    BY <1>0 DEF Refused, Body
  <2> QED
    BY <1>0, <2>1, <2>2 DEF PInv, TypeParts, Stage
<1>4. (Trail \/ Whole)'
  <2>1. Len(answers') = 0 /\ answers' = <<>>
    BY <1>0, <1>1 DEF Untouched
  <2>2. CASE audit' = <<>>
    <3>1. Len(audit') = Len(answers')
      BY <2>1, <2>2
    <3>2. Len(answers') <= Len(req'.items)
      BY <1>3, <2>1, RequestIs DEF TypeParts, PInv
    <3>3. 1..Len(answers') = {}
      BY <2>1
    <3> QED
      BY <3>1, <3>2, <3>3 DEF Trail
  <2>3. CASE audit' = <<Entry(0, FALSE)>>
    BY <1>0, <2>1, <2>3 DEF Whole, Entry
  <2> QED
    BY <1>2, <2>2, <2>3
<1>5. ForwardedOK'
  BY <1>0, <1>1 DEF ForwardedOK, Untouched
<1>6. StageOK'
  <2>1. forwarded' = {} /\ Len(answers') = next' - 1 /\ response' = Refused(code)
    BY <1>0, <1>1 DEF Untouched
  <2>2. audit' = <<>> => code = 400 \/ req.route # "mcp"
    BY <1>1, FirstEntry DEF Untouched, Refuse, Log
  <2>3. req' = req /\ response'.code = code
    BY <1>0 DEF Refused
  <2>4. DoneOK'
    BY <2>1, <2>2, <2>3 DEF DoneOK
  <2> QED
    BY <1>0, <2>4 DEF StageOK
<1> QED
  BY <1>3, <1>4, <1>5, <1>6 DEF PInv

-----------------------------------------------------------------------------
(* A request that is not a batch.                                          *)

LEMMA AnswerIs ==
  ASSUME NEW item \in Item, NEW body \in {"json", "text", "empty"}
  PROVE  /\ Answer(item, body) \in AnswerType /\ Denied \in AnswerType
         /\ Answer(item, body).body = body /\ body # "error" /\ Denied.body = "error"
         /\ body = "json" => /\ item.method = "tools/list" => Answer(item, body).filtered
                             /\ item.sensitive => Answer(item, body).masked
BY DEF Item, Answer, Denied, AnswerType, Body, Masks

\* One entry for the one item, which is answered.
LEMMA OneItem ==
  ASSUME TypeParts, req.form = "single", Parsed, NEW ok \in BOOLEAN,
         audit = <<>>, answers = <<>>,
         audit' = Append(audit, Entry(1, ok)),
         NEW a \in AnswerType, answers' = <<a>>, ok <=> a.body # "error",
         a.body = "json" => /\ req.items[1].method = "tools/list" => a.filtered
                            /\ req.items[1].sensitive => a.masked,
         ok <=> 1 \in checked', req' = req
  PROVE  /\ Trail'
         /\ audit' \in Seq(EntryType) /\ Len(audit') <= MaxItems
         /\ answers' \in Seq(AnswerType)
         /\ 1 \in {audit'[k].item : k \in DOMAIN audit'}
         /\ audit' # <<>> /\ Len(answers') = 1
<1>1. Entry(1, ok) \in EntryType /\ Entry(1, ok).item = 1 /\ Entry(1, ok).allowed = ok
  BY PipelineAssumption DEF Entry, EntryType
<1>2. audit' = <<Entry(1, ok)>>
  BY FirstEntry
<1>3. Len(audit') = 1 /\ audit'[1] = Entry(1, ok) /\ audit' \in Seq(EntryType) /\ DOMAIN audit' = {1}
  BY <1>1, <1>2, OneEntry
<1>4. Len(answers') = 1 /\ answers'[1] = a /\ answers' \in Seq(AnswerType)
  BY OneEntry
<1>5. Len(req'.items) = 1
  BY RequestIs DEF TypeParts
<1>6. Trail'
  BY <1>1, <1>3, <1>4, <1>5 DEF Trail, Guarded
<1> QED
  BY <1>1, <1>3, <1>4, <1>6, PipelineAssumption

LEMMA DenySingleKeeps == ASSUME PInv, DenySingle PROVE PInv'
<1>1. Untouched /\ req.form = "single" /\ Parsed /\ TypeParts
  BY DEF PInv, StageOK, DenySingle, Go, Parsed
<1>2. Denied \in AnswerType /\ Denied.body = "error"
  BY DEF Denied, AnswerType, Body
<1>3. /\ Trail' /\ audit' \in Seq(EntryType) /\ Len(audit') <= MaxItems
      /\ answers' \in Seq(AnswerType) /\ audit' # <<>>
  BY <1>1, <1>2, OneItem DEF DenySingle, Log, Untouched
<1>4. TypeParts'
  BY <1>3 DEF PInv, TypeParts, DenySingle, Go, Stage, Refused, Body
<1>5. ForwardedOK' /\ StageOK'
  BY <1>1, <1>3 DEF ForwardedOK, StageOK, DoneOK, Untouched, DenySingle, Go, Refused
<1> QED
  BY <1>3, <1>4, <1>5 DEF PInv

LEMMA AllowSingleKeeps == ASSUME PInv, AllowSingle PROVE PInv'
<1>1. Untouched /\ req.form = "single" /\ TypeParts /\ Len(req.items) = 1
  BY RequestIs DEF PInv, StageOK, AllowSingle, Go, TypeParts
<1>2. TypeParts'
  BY <1>1 DEF TypeParts, AllowSingle, Go, Stage
<1>3. Trail'
  BY <1>1 DEF PInv, Trail, Whole, Guarded, Untouched, AllowSingle
<1>4. ForwardedOK' /\ StageOK'
  BY <1>1 DEF PInv, ForwardedOK, StageOK, Untouched, AllowSingle, Go
<1> QED
  BY <1>2, <1>3, <1>4 DEF PInv

LEMMA SentIs ==
  ASSUME NEW i \in 0..MaxItems, NEW masked \in BOOLEAN
  PROVE  /\ Sent(i, masked) \subseteq [item : 0..MaxItems, masked : BOOLEAN]
         /\ \A f \in Sent(i, masked) : f.item = i
BY DEF Sent

LEMMA SentSingleIs ==
  ASSUME TypeParts, req.form = "single"
  PROVE  /\ SentSingle \subseteq [item : 0..MaxItems, masked : BOOLEAN]
         /\ \A f \in SentSingle : f.item = 1
<1>1. req.items[1] \in Item
  BY RequestIs DEF TypeParts
<1>2. PICK masked \in BOOLEAN :
         masked = (req.items[1].method = "tools/call" /\ req.items[1].sensitive)
  BY <1>1 DEF Item
<1>3. SentSingle = Sent(1, masked)
  BY <1>2 DEF SentSingle
<1> QED
  BY <1>3, SentIs, PipelineAssumption

LEMMA ForwardSingleKeeps == ASSUME PInv, ForwardSingle PROVE PInv'
<1>1. /\ req.form = "single" /\ Parsed /\ TypeParts /\ checked = {1}
      /\ audit = <<>> /\ answers = <<>> /\ response = Refused(0)
  BY DEF PInv, StageOK, ForwardSingle, Go, Parsed
<1>2. req.items[1] \in Item
  BY <1>1, RequestIs DEF TypeParts
<1>3. PICK body \in Bodies(Buffered(req.items[1])) :
         /\ answers' = <<Answer(req.items[1], body)>>
         /\ response' = [code |-> 200, body |-> body, lost |-> FALSE]
  BY DEF ForwardSingle
<1>4. body \in {"json", "text", "empty"} /\ body \in Body
  BY DEF Bodies, Body
<1>5. /\ Answer(req.items[1], body) \in AnswerType
      /\ Answer(req.items[1], body).body # "error"
      /\ Answer(req.items[1], body).body = "json" =>
            /\ req.items[1].method = "tools/list" => Answer(req.items[1], body).filtered
            /\ req.items[1].sensitive => Answer(req.items[1], body).masked
  BY <1>2, <1>4, AnswerIs
<1>6. /\ Trail' /\ audit' \in Seq(EntryType) /\ Len(audit') <= MaxItems
      /\ answers' \in Seq(AnswerType) /\ audit' # <<>>
      /\ 1 \in {audit'[k].item : k \in DOMAIN audit'}
  BY <1>1, <1>3, <1>5, OneItem DEF ForwardSingle, Log
<1>7. /\ forwarded' \subseteq [item : 0..MaxItems, masked : BOOLEAN]
      /\ \A f \in forwarded' : f.item = 1
  BY <1>1, SentSingleIs DEF ForwardSingle
<1>8. TypeParts'
  BY <1>3, <1>4, <1>6, <1>7 DEF PInv, TypeParts, ForwardSingle, Go, Stage, Body
<1>9. ForwardedOK' /\ StageOK'
  BY <1>1, <1>3, <1>6, <1>7 DEF ForwardedOK, StageOK, DoneOK, Parsed, ForwardSingle, Go
<1> QED
  BY <1>6, <1>8, <1>9 DEF PInv

LEMMA ForwardUnparsedKeeps == ASSUME PInv, ForwardUnparsed PROVE PInv'
<1>1. Untouched /\ ~Parsed /\ TypeParts
  BY DEF PInv, StageOK, ForwardUnparsed, Go
<1>2. PICK e : e = Entry(0, TRUE)
  OBVIOUS
<1>3. e \in EntryType /\ e.item = 0
  BY <1>2, PipelineAssumption DEF Entry, EntryType
<1>4. audit' = <<e>>
  BY <1>1, <1>2, FirstEntry DEF ForwardUnparsed, Log, Untouched
<1>5. audit' \in Seq(EntryType) /\ Len(audit') = 1 /\ audit'[1] = e /\ DOMAIN audit' = {1}
  BY <1>3, <1>4, OneEntry
<1>6. PICK no \in BOOLEAN : no = FALSE /\ forwarded' = Sent(0, no)
  BY DEF ForwardUnparsed
<1>7. /\ forwarded' \subseteq [item : 0..MaxItems, masked : BOOLEAN]
      /\ \A f \in forwarded' : f.item = 0
  BY <1>6, SentIs, PipelineAssumption
<1>8. PICK body \in {"json", "text", "empty"} :
         response' = [code |-> 200, body |-> body, lost |-> FALSE]
  BY DEF ForwardUnparsed, Bodies
<1>9. TypeParts'
  <2>1. response' \in [code : {0, 200, 400, 401, 403, 413, 429}, body : Body, lost : BOOLEAN]
    BY <1>8 DEF Body
  <2>2. pc' = "done" /\ UNCHANGED <<req, next, checked, answers>>
    BY DEF ForwardUnparsed, Go
  <2> QED
    BY <1>1, <1>5, <1>7, <2>1, <2>2, PipelineAssumption DEF TypeParts, Stage
<1>10. Whole' /\ ForwardedOK'
  BY <1>1, <1>3, <1>5, <1>7 DEF Whole, Untouched, ForwardedOK, Parsed, ForwardUnparsed, Go
<1>11. StageOK'
  <2>1. pc' = "done" /\ req' = req /\ response'.code = 200 /\ audit' # <<>>
    BY <1>5, <1>8 DEF ForwardUnparsed, Go
  <2>2. 0 \in {audit'[k].item : k \in DOMAIN audit'}
    BY <1>3, <1>5
  <2>3. DoneOK'
    BY <1>1, <1>7, <2>1, <2>2 DEF DoneOK, Parsed
  <2> QED
    BY <2>1, <2>3 DEF StageOK
<1> QED
  BY <1>9, <1>10, <1>11 DEF PInv

\* The request is broken off: only what went upstream is new.
LEMMA AbortKeeps ==
  ASSUME PInv, NEW from \in {"forward", "unparsed"}, NEW sent, Abort(from, sent),
         sent \subseteq [item : 0..MaxItems, masked : BOOLEAN],
         \A f \in sent : IF Parsed THEN f.item \in checked ELSE f.item = 0
  PROVE  PInv'
<1>1. pc = from /\ pc' = "aborted" /\ forwarded' = forwarded \cup sent
      /\ UNCHANGED <<req, next, checked, answers, audit, response>>
  BY DEF Abort, Go
<1>2. TypeParts'
  BY <1>1 DEF PInv, TypeParts, Stage
<1>3. Trail'
  BY <1>1 DEF PInv, Trail, Whole, Guarded
<1>4. ForwardedOK'
  BY <1>1 DEF PInv, ForwardedOK, Parsed
<1>5. StageOK'
  BY <1>1 DEF PInv, StageOK
<1> QED
  BY <1>2, <1>3, <1>4, <1>5 DEF PInv

LEMMA AbortSingleKeeps == ASSUME PInv, AbortSingle PROVE PInv'
<1>1. req.form = "single" /\ checked = {1} /\ Parsed /\ TypeParts
  BY DEF PInv, StageOK, AbortSingle, Abort, Go, Parsed
<1> QED
  BY <1>1, SentSingleIs, AbortKeeps DEF AbortSingle

LEMMA AbortUnparsedKeeps == ASSUME PInv, AbortUnparsed PROVE PInv'
<1>1. ~Parsed
  BY DEF PInv, StageOK, AbortUnparsed, Abort, Go
<1>2. PICK no \in BOOLEAN : no = FALSE /\ Abort("unparsed", Sent(0, no))
  BY DEF AbortUnparsed
<1>3. /\ Sent(0, no) \subseteq [item : 0..MaxItems, masked : BOOLEAN]
      /\ \A f \in Sent(0, no) : f.item = 0
  BY SentIs, PipelineAssumption
<1> QED
  BY <1>1, <1>2, <1>3, AbortKeeps

-----------------------------------------------------------------------------
(* A batch.                                                                *)

\* What has been answered of a batch when its next item is handled.
LEMMA HandlingIs ==
  ASSUME PInv, Handling
  PROVE  /\ TypeParts /\ Trail /\ req.form = "batch" /\ Parsed /\ response = Refused(0)
         /\ next \in 1..Len(req.items) /\ Len(req.items) \in 0..MaxItems
         /\ Len(answers) = next - 1 /\ checked \subseteq 1..(next - 1)
         /\ \A f \in forwarded : f.item \in {audit[k].item : k \in DOMAIN audit}
         /\ req.items[next] \in Item
<1>1. /\ TypeParts /\ Trail /\ req.form = "batch" /\ response = Refused(0)
      /\ Len(answers) = next - 1 /\ checked \subseteq 1..(next - 1)
      /\ \A f \in forwarded : f.item \in {audit[k].item : k \in DOMAIN audit}
  BY DEF PInv, StageOK, Whole, Handling
<1>2. Len(req.items) \in 0..MaxItems /\ req.items \in Seq(Item)
  BY <1>1, RequestIs DEF TypeParts
<1>3. next \in 1..Len(req.items)
  BY <1>1, <1>2, PipelineAssumption DEF TypeParts, Handling
<1> QED
  BY <1>1, <1>2, <1>3, ElementOfSeq DEF Parsed

\* One more item is answered and logged.
LEMMA OneMoreItem ==
  ASSUME PInv, Handling, NEW ok \in BOOLEAN, NEW a \in AnswerType,
         audit' = Append(audit, Entry(next, ok)), answers' = Append(answers, a),
         next' = next + 1,
         checked' = IF ok THEN checked \cup {next} ELSE checked,
         ok <=> a.body # "error",
         a.body = "json" =>
             /\ req.items[next].method = "tools/list" => a.filtered
             /\ req.items[next].sensitive => a.masked,
         NEW sent, forwarded' = forwarded \cup sent, ok \/ sent = {},
         sent \subseteq [item : 0..MaxItems, masked : BOOLEAN], \A f \in sent : f.item = next,
         UNCHANGED <<pc, req, response>>
  PROVE  PInv'
<1>0. /\ TypeParts /\ Trail /\ req.form = "batch" /\ Parsed /\ response = Refused(0)
      /\ next \in 1..Len(req.items) /\ Len(req.items) \in 0..MaxItems
      /\ Len(answers) = next - 1 /\ checked \subseteq 1..(next - 1)
      /\ \A f \in forwarded : f.item \in {audit[k].item : k \in DOMAIN audit}
  BY HandlingIs
<1> USE <1>0, PipelineAssumption
<1>1. PICK e \in EntryType : e = Entry(next, ok) /\ e.item = next /\ e.allowed = ok
  <2>1. PICK e : e = [item |-> next, allowed |-> ok]
    OBVIOUS
  <2>2. e \in EntryType /\ e.item = next /\ e.allowed = ok
    BY <2>1 DEF EntryType
  <2> QED
    BY <2>1, <2>2 DEF Entry
<1>2. /\ answers' \in Seq(AnswerType) /\ Len(answers') = next
      /\ \A i \in 1..(next - 1) : answers'[i] = answers[i]
      /\ answers'[next] = a
  BY AppendProperties DEF TypeParts
<1>3. /\ audit' \in Seq(EntryType) /\ Len(audit') = next
      /\ \A i \in 1..(next - 1) : audit'[i] = audit[i]
      /\ audit'[next] = e
      /\ DOMAIN audit = 1..(next - 1) /\ DOMAIN audit' = 1..next
  <2>1. audit' = Append(audit, e) /\ Len(audit) = next - 1 /\ audit \in Seq(EntryType)
    BY <1>1 DEF TypeParts, Trail
  <2> QED
    BY <2>1, AppendProperties, LenProperties
<1>4. checked' \subseteq 1..next
  <2>1. checked \subseteq 1..next /\ next \in 1..next
    OBVIOUS
  <2> QED
    BY <2>1
<1>5. TypeParts'
  <2>1. checked' \subseteq 1..Len(req'.items) /\ next' \in 1..(MaxItems + 1)
    BY <1>4
  <2>2. forwarded' \subseteq [item : 0..MaxItems, masked : BOOLEAN]
    BY DEF TypeParts
  <2>3. Len(audit') <= MaxItems
    BY <1>3
  <2> QED
    BY <1>2, <1>3, <2>1, <2>2, <2>3 DEF TypeParts
<1>6. Trail'
  <2>1. ASSUME NEW i \in 1..(next - 1)
        PROVE  /\ audit'[i].item = i
               /\ audit'[i].allowed <=> i \in checked'
               /\ audit'[i].allowed <=> answers'[i].body # "error"
               /\ Guarded(i)'
    BY <1>2, <1>3 DEF Trail, Guarded
  <2>2. /\ audit'[next].item = next
        /\ audit'[next].allowed <=> next \in checked'
        /\ audit'[next].allowed <=> answers'[next].body # "error"
    BY <1>1, <1>2, <1>3
  <2>3. answers'[next].body = "json" =>
            /\ req'.items[next].method = "tools/list" => answers'[next].filtered
            /\ req'.items[next].sensitive => answers'[next].masked
    BY <1>2
  <2> QED
    BY <1>2, <1>3, <2>1, <2>2, <2>3 DEF Trail, Guarded
<1>7. ForwardedOK'
  BY DEF PInv, ForwardedOK, Parsed
<1>8. \A f \in forwarded' : f.item \in {audit'[k].item : k \in DOMAIN audit'}
  BY <1>1, <1>3
<1>9. StageOK'
  <2>1. Len(answers') = next' - 1 /\ checked' \subseteq 1..(next' - 1)
    BY <1>2, <1>4
  <2>2. pc = "item" /\ pc' = "item"
    BY DEF Handling
  <2> QED
    BY <1>8, <2>1, <2>2 DEF StageOK
<1> QED
  BY <1>5, <1>6, <1>7, <1>9 DEF PInv

LEMMA DenyItemKeeps == ASSUME PInv, DenyItem PROVE PInv'
<1>1. Handling /\ TypeParts /\ checked \subseteq 1..(next - 1) /\ next \in 1..Len(req.items)
  BY HandlingIs DEF DenyItem
<1>2. PICK a \in AnswerType : a = Denied /\ a.body = "error"
  <2>1. Denied \in AnswerType /\ Denied.body = "error"
    BY DEF Denied, AnswerType, Body
  <2> QED
    BY <2>1
<1>3. PICK no \in BOOLEAN : no = FALSE /\ audit' = Append(audit, Entry(next, no))
  BY DEF DenyItem, Log
<1>4. /\ answers' = Append(answers, Denied) /\ next' = next + 1
      /\ UNCHANGED <<pc, req, checked, forwarded, response>>
  BY DEF DenyItem
<1>5. PICK sent : sent = {} /\ forwarded' = forwarded \cup sent
  BY <1>4
<1>6. /\ no \/ sent = {}
      /\ sent \subseteq [item : 0..MaxItems, masked : BOOLEAN]
      /\ \A f \in sent : f.item = next
  BY <1>5
<1>7. /\ no <=> a.body # "error"
      /\ a.body # "json"
      /\ checked' = IF no THEN checked \cup {next} ELSE checked
      /\ answers' = Append(answers, a)
  BY <1>2, <1>3, <1>4
<1> QED
  BY <1>1, <1>3, <1>4, <1>5, <1>6, <1>7, OneMoreItem

LEMMA ForwardItemKeeps == ASSUME PInv, ForwardItem PROVE PInv'
<1>1. /\ Handling /\ TypeParts /\ req.items[next] \in Item
      /\ next \in 1..Len(req.items) /\ Len(req.items) \in 0..MaxItems
  BY HandlingIs DEF ForwardItem
<1>2. PICK body \in {"json", "text", "empty"} :
         answers' = Append(answers, Answer(req.items[next], body))
  BY DEF ForwardItem, Bodies
<1>3. PICK a \in AnswerType :
         /\ a = Answer(req.items[next], body) /\ a.body # "error"
         /\ a.body = "json" => /\ req.items[next].method = "tools/list" => a.filtered
                               /\ req.items[next].sensitive => a.masked
  BY <1>1, AnswerIs
<1>4. PICK yes \in BOOLEAN : yes = TRUE /\ audit' = Append(audit, Entry(next, yes))
  BY DEF ForwardItem, Log
<1>5. PICK no \in BOOLEAN : no = FALSE /\ forwarded' = forwarded \cup Sent(next, no)
  BY DEF ForwardItem
<1>6. next \in 0..MaxItems
  BY <1>1, PipelineAssumption
<1>7. PICK sent : /\ forwarded' = forwarded \cup sent
                  /\ sent \subseteq [item : 0..MaxItems, masked : BOOLEAN]
                  /\ \A f \in sent : f.item = next
  BY <1>5, <1>6, SentIs
<1>8. /\ next' = next + 1 /\ checked' = checked \cup {next}
      /\ UNCHANGED <<pc, req, response>>
  BY DEF ForwardItem
<1> QED
  BY <1>1, <1>2, <1>3, <1>4, <1>7, <1>8, OneMoreItem

LEMMA AbortItemKeeps == ASSUME PInv, AbortItem PROVE PInv'
<1>1. /\ Handling /\ TypeParts /\ Trail /\ Parsed /\ Len(answers) = next - 1
      /\ next \in 1..Len(req.items) /\ Len(req.items) \in 0..MaxItems
      /\ response = Refused(0)
  BY HandlingIs DEF AbortItem
<1>2. PICK no \in BOOLEAN : no = FALSE /\ forwarded' = forwarded \cup Sent(next, no)
  BY DEF AbortItem
<1>3. next \in 0..MaxItems
  BY <1>1, PipelineAssumption
<1>4. PICK sent : /\ forwarded' = forwarded \cup sent
                  /\ sent \subseteq [item : 0..MaxItems, masked : BOOLEAN]
                  /\ \A f \in sent : f.item = next
  BY <1>2, <1>3, SentIs
<1>5. /\ pc' = "aborted" /\ checked' = checked \cup {next}
      /\ UNCHANGED <<req, next, answers, audit, response>>
  BY DEF AbortItem
<1>6. TypeParts'
  BY <1>1, <1>4, <1>5 DEF TypeParts, Stage
<1>7. Trail'
  <2>1. \A i \in 1..Len(answers) : i \in checked' <=> i \in checked
    BY <1>1, <1>5
  <2> QED
    BY <1>1, <1>5, <2>1 DEF Trail, Guarded
<1>8. ForwardedOK' /\ StageOK'
  BY <1>1, <1>4, <1>5 DEF PInv, ForwardedOK, Parsed, StageOK
<1> QED
  BY <1>6, <1>7, <1>8 DEF PInv

LEMMA RespondBatchKeeps == ASSUME PInv, RespondBatch PROVE PInv'
<1>1. /\ TypeParts /\ Trail /\ req.form = "batch" /\ Len(answers) = next - 1
      /\ \A f \in forwarded : f.item \in {audit[k].item : k \in DOMAIN audit}
  BY DEF PInv, StageOK, Whole, RespondBatch, Go
<1>2. Len(req.items) \in 0..MaxItems /\ req.items \in Seq(Item) /\ answers \in Seq(AnswerType)
  BY <1>1, RequestIs DEF TypeParts
<1>3. /\ pc' = "done" /\ response'.code = 200
      /\ UNCHANGED <<req, next, checked, forwarded, answers, audit>>
  BY DEF RespondBatch, Go
<1>4. response' \in [code : {0, 200, 400, 401, 403, 413, 429}, body : Body, lost : BOOLEAN]
  BY DEF RespondBatch, Body
<1>5. TypeParts' /\ Trail' /\ ForwardedOK'
  BY <1>1, <1>3, <1>4 DEF PInv, TypeParts, Trail, Guarded, ForwardedOK, Parsed, Stage
<1>6. audit = <<>> => req.items = <<>>
  <2>1. next - 1 >= Len(req.items)
    BY <1>1, <1>2, PipelineAssumption DEF RespondBatch, TypeParts
  <2>2. audit = <<>> => Len(req.items) = 0
    BY <1>1, <1>2, <2>1 DEF Trail
  <2> QED
    BY <1>2, <2>2
<1>7. DoneOK'
  BY <1>1, <1>3, <1>6 DEF DoneOK
<1>8. StageOK'
  BY <1>3, <1>7 DEF StageOK
<1> QED
  BY <1>5, <1>8 DEF PInv

-----------------------------------------------------------------------------
(* The pipeline as a whole.                                                *)

LEMMA EarlyKeeps ==
  ASSUME PInv, Route \/ CheckSize \/ Authenticate \/ RateLimit \/ CheckSSE \/ ReadBody \/ Parse
  PROVE  PInv'
<1>1. CASE Route
  BY <1>1, PassKeeps, RefuseKeeps DEF Route, Early
<1>2. CASE CheckSize
  BY <1>2, PassKeeps, RefuseKeeps DEF CheckSize, Early
<1>3. CASE Authenticate \/ RateLimit
  BY <1>3, PassKeeps, RefuseKeeps DEF Authenticate, RateLimit, Early
<1>4. CASE CheckSSE
  BY <1>4, PassKeeps, RefuseKeeps DEF CheckSSE, Early
<1>5. CASE ReadBody
  BY <1>5, PassKeeps, RefuseKeeps DEF ReadBody, Early
<1>6. CASE Parse
  <2>1. CASE req.form = "badBatch"
    BY <1>6, <2>1, RefuseKeeps DEF Parse, Early
  <2>2. CASE req.form = "batch"
    BY <1>6, <2>2, PassKeeps DEF Parse, Early
  <2>3. CASE req.form = "single"
    BY <1>6, <2>3, PassKeeps DEF Parse, Early
  <2>4. CASE req.form \notin {"badBatch", "batch", "single"}
    BY <1>6, <2>4, PassKeeps DEF Parse, Early, Parsed
  <2> QED
    BY <2>1, <2>2, <2>3, <2>4
<1> QED
  BY <1>1, <1>2, <1>3, <1>4, <1>5, <1>6

LEMMA PipelineStep == ASSUME PInv, [Next]_vars PROVE PInv'
<1>1. CASE UNCHANGED vars
  BY <1>1 DEF vars, PInv, TypeParts, Trail, Guarded, Whole, ForwardedOK, Parsed, StageOK,
     Untouched, DoneOK
<1>2. CASE \/ Route \/ CheckSize \/ Authenticate \/ RateLimit \/ CheckSSE
           \/ ReadBody \/ Parse
  BY <1>2, EarlyKeeps
<1>3. CASE DenySingle \/ AllowSingle \/ ForwardSingle \/ AbortSingle
  BY <1>3, DenySingleKeeps, AllowSingleKeeps, ForwardSingleKeeps, AbortSingleKeeps
<1>4. CASE ForwardUnparsed \/ AbortUnparsed
  BY <1>4, ForwardUnparsedKeeps, AbortUnparsedKeeps
<1>5. CASE DenyItem \/ ForwardItem \/ AbortItem \/ RespondBatch
  BY <1>5, DenyItemKeeps, ForwardItemKeeps, AbortItemKeeps, RespondBatchKeeps
<1> QED
  BY <1>1, <1>2, <1>3, <1>4, <1>5 DEF Next

LEMMA PipelineInv == Spec => []PInv
<1>1. Init => PInv
  BY PipelineInit
<1>2. PInv /\ [Next]_vars => PInv'
  BY PipelineStep
<1> QED
  BY <1>1, <1>2, PTL DEF Spec

\* In a trail, the entries about an item are its own one.
LEMMA EntriesInTrail ==
  ASSUME TypeParts, Trail
  PROVE  /\ EntriesOf(0) = {}
         /\ \A i \in DOMAIN answers : i \in DOMAIN audit /\ EntriesOf(i) = {i}
<1>1. DOMAIN audit = DOMAIN answers /\ DOMAIN answers = 1..Len(answers) /\ Len(answers) \in Nat
  BY LenProperties DEF TypeParts, Trail
<1> QED
  BY <1>1 DEF Trail, EntriesOf

\* For requests and batches of any length: every item that is answered has
\* one entry, which says what RBAC decided, a request that is refused or
\* forwarded as a whole has one, and a request that is answered without any
\* is malformed or empty (logAudit's calls in runPipeline and processBatch).
THEOREM AuditTrailIsTrue == Spec => []AuditIsTrue
<1>1. ASSUME PInv PROVE AuditIsTrue
  <2> USE <1>1
  <2>1. TypeOK
    BY TypePartsAreTypes DEF PInv
  <2>2. DOMAIN answers = 1..Len(answers) /\ Len(answers) \in Nat
    BY LenProperties DEF PInv, TypeParts
  <2>3. \A i \in DOMAIN answers : \E k \in DOMAIN audit :
           /\ EntriesOf(i) = {k}
           /\ audit[k].allowed <=> i \in checked
           /\ audit[k].allowed <=> answers[i].body # "error"
    <3>1. CASE Trail
      BY <2>2, <3>1, EntriesInTrail DEF PInv, Trail
    <3>2. CASE Whole
      BY <2>2, <3>2 DEF Whole
    <3> QED
      BY <3>1, <3>2 DEF PInv
  <2>4. EntriesOf(0) # {} => Len(audit) = 1 /\ answers = <<>>
    BY EntriesInTrail DEF PInv, Whole
  <2>5. req.form = "batch" /\ pc \in {"item", "done"} /\ response.code \in {0, 200} =>
           Len(answers) = next - 1
    BY DEF PInv, StageOK, DoneOK
  <2>6. AuditMatchesOutcome
    BY <2>3, <2>4, <2>5 DEF AuditMatchesOutcome
  <2>7. AuditedUnlessMalformed
    BY DEF PInv, StageOK, DoneOK, AuditedUnlessMalformed, EntriesOf
  <2> QED
    BY <2>1, <2>6, <2>7 DEF AuditIsTrue
<1> QED
  BY <1>1, PipelineInv, PTL

\* For requests and batches of any length, no item goes upstream that RBAC
\* did not let pass, and nothing does for a request that is refused (the
\* order of runPipeline's checks, and processBatch's check of each item).
THEOREM NothingUncheckedIsForwarded == Spec => []OnlyAllowedIsForwarded
<1>1. ASSUME PInv PROVE OnlyAllowedIsForwarded
  <2> USE <1>1
  <2>1. req.form \in {"single", "batch"} => \A f \in forwarded : f.item \in checked /\ f.item # 0
    BY DEF PInv, ForwardedOK, Parsed, TypeParts
  <2>2. req.form \notin {"single", "batch"} => \A f \in forwarded : f.item = 0
    BY DEF PInv, ForwardedOK, Parsed
  <2>3. response.code \notin {0, 200} => forwarded = {}
    BY DEF PInv, StageOK, DoneOK, Refused
  <2> QED
    BY <2>1, <2>2, <2>3 DEF OnlyAllowedIsForwarded
<1> QED
  BY <1>1, PipelineInv, PTL

\* For requests and batches of any length, an answer that the proxy can parse
\* is filtered or masked as its method asks, in either path (runPipeline steps
\* 6a and 6b, and processBatch).
THEOREM EveryAnswerIsGuarded == Spec => []AnswersAreGuarded
<1>1. ASSUME PInv PROVE AnswersAreGuarded
  <2> USE <1>1
  <2>1. DOMAIN answers = 1..Len(answers) /\ Len(answers) \in Nat
    BY LenProperties DEF PInv, TypeParts
  <2>2. CASE Trail
    BY <2>1, <2>2 DEF Trail, Guarded, AnswersAreGuarded
  <2>3. CASE Whole
    BY <2>1, <2>3 DEF Whole, AnswersAreGuarded
  <2> QED
    BY <2>2, <2>3 DEF PInv
<1> QED
  BY <1>1, PipelineInv, PTL

-----------------------------------------------------------------------------
(* RateLimiter, for any clients, limiters and concurrent requests, any     *)
(* rate, burst and window.                                                 *)

\* LimiterTypeOK, one conjunct for each variable.
LimiterTypes ==
    /\ clients \in [Client -> Limiter \cup {None}]
    /\ tokens \in [Limiter -> 0..Burst]
    /\ lastAccess \in [Limiter -> 0..now]
    /\ at \in [Call -> {"idle", "loading", "missed", "taking", "headers", "headersMissed"}]
    /\ client \in [Call -> Client \cup {None}]
    /\ held \in [Call -> Limiter \cup {None}]
    /\ cutoff \in -StaleAfter..MaxTime \cup {NoCleanup}
    /\ todo \subseteq Client
    /\ stale \in Client \cup {None}
    /\ now \in 0..MaxTime
    /\ credit \in [Client -> Int] /\ \A c \in Client : credit[c] <= Burst
    /\ raced \subseteq Client

\* A call beyond the first step has a client, and holds a limiter exactly
\* while it is about to take a token.
CallsOK ==
    \A r \in Call :
        /\ (at[r] = "taking") = (held[r] # None)
        /\ at[r] # "idle" => client[r] # None

CleanupOK ==
    /\ stale # None => cutoff # NoCleanup /\ clients[stale] # None
    /\ cutoff # NoCleanup => cutoff <= now - StaleAfter

\* A limiter is one client's, whether it is in the map or only held, and the
\* limiter held for a client that did not race is the one in the map, which
\* Cleanup is not about to delete.
OwnersOK ==
    /\ \A c \in Client, d \in Client : clients[c] # None /\ clients[c] = clients[d] => c = d
    /\ \A r \in Call : held[r] # None =>
          /\ \A d \in Client : clients[d] = held[r] => d = client[r]
          /\ \A q \in Call : held[q] = held[r] => client[q] = client[r]
          /\ client[r] \notin raced => clients[client[r]] = held[r] /\ stale # client[r]

\* What a limiter has been given since it was last used is still there.
RefilledOK ==
    \A o \in Limiter : tokens[o] = Burst \/ tokens[o] >= (now - lastAccess[o]) * Rate

\* What Cleanup throws away is full.
StaleIsFull ==
    stale # None /\ stale \notin raced => tokens[clients[stale]] = Burst

OneBucket ==
    \A c \in Client \ raced :
        credit[c] = IF clients[c] = None THEN Burst ELSE tokens[clients[c]]

LimiterShape == LimiterTypes /\ CallsOK /\ CleanupOK /\ OwnersOK
LimiterInv == LimiterShape /\ RefilledOK /\ (RefillsBeforeStale => StaleIsFull /\ OneBucket)

LEMMA Times ==
  ASSUME NEW a \in Nat, NEW b \in Nat, NEW k \in Nat
  PROVE  a * k \in Nat /\ (a + 1) * k = a * k + k /\ (a >= b => a * k >= b * k)
<1>1. a * k \in Nat /\ (a + 1) * k = a * k + k
  BY SMT
<1>2. ASSUME a >= b PROVE a * k >= b * k
  <2>1. a - b \in Nat
    BY <1>2
  <2>2. (a - b) * k \in Nat
    BY <2>1, SMT
  <2>3. a * k = b * k + (a - b) * k
    BY SMT
  <2> QED
    BY <2>2, <2>3, SMT
<1> QED
  BY <1>1, <1>2

LEMMA LimiterTypesStep == LimiterShape /\ [LimiterNext]_limiterVars => LimiterTypes'
<1> SUFFICES ASSUME LimiterShape, [LimiterNext]_limiterVars PROVE LimiterTypes'
  OBVIOUS
<1> USE RateAssumption
<1>a. LimiterTypes /\ CallsOK /\ CleanupOK
  BY DEF LimiterShape
<1>1. CASE UNCHANGED limiterVars
  BY <1>a, <1>1 DEF limiterVars, request, cleanup, history, LimiterTypes
<1>2. ASSUME NEW r \in Call, Handle(r) PROVE LimiterTypes'
  <2>1. ASSUME NEW c \in Client, Arrive(r, c) PROVE LimiterTypes'
    BY <1>a, <2>1 DEF LimiterTypes, Arrive, cleanup, history
  <2>2. CASE LoadHit(r)
    BY <1>a, <2>2 DEF LimiterTypes, CallsOK, LoadHit, Acquire, cleanup
  <2>3. CASE LoadMiss(r)
    BY <1>a, <2>3 DEF LimiterTypes, LoadMiss, cleanup, history
  <2>4. CASE LoadOrStore(r)
    BY <1>a, <2>4 DEF LimiterTypes, CallsOK, LoadOrStore, Fresh, Unreferenced, Acquire, cleanup
  <2>5. CASE Take(r)
    <3>1. held[r] \in Limiter
      BY <1>a, <2>5 DEF LimiterTypes, CallsOK, Take
    <3> QED
      BY <1>a, <2>5, <3>1 DEF LimiterTypes, CallsOK, Take, cleanup
  <2>6. CASE Deny(r)
    <3>1. held[r] \in Limiter
      BY <1>a, <2>6 DEF LimiterTypes, CallsOK, Deny
    <3> QED
      BY <1>a, <2>6, <3>1 DEF LimiterTypes, Deny, cleanup, history
  <2>7. CASE HeadersHit(r)
    <3>1. clients[client[r]] \in Limiter
      BY <1>a, <2>7 DEF LimiterTypes, CallsOK, HeadersHit
    <3> QED
      BY <1>a, <2>7, <3>1 DEF LimiterTypes, HeadersHit, Done, cleanup, history
  <2>8. CASE HeadersMiss(r)
    BY <1>a, <2>8 DEF LimiterTypes, HeadersMiss, cleanup, history
  <2>9. CASE HeadersLoadOrStore(r)
    BY <1>a, <2>9 DEF LimiterTypes, HeadersLoadOrStore, Fresh, Unreferenced, Done, cleanup, history
  <2> QED
    BY <1>2, <2>1, <2>2, <2>3, <2>4, <2>5, <2>6, <2>7, <2>8, <2>9 DEF Handle
<1>3. CASE Cleanup
  <2>1. CASE StartCleanup
    BY <1>a, <2>1 DEF LimiterTypes, StartCleanup, request, history
  <2>2. ASSUME NEW c \in Client, Visit(c) PROVE LimiterTypes'
    BY <1>a, <2>2 DEF LimiterTypes, Visit, Found, request
  <2>3. CASE DeleteStale
    BY <1>a, <2>3 DEF LimiterTypes, DeleteStale, request, history
  <2>4. CASE EndCleanup
    BY <1>a, <2>4 DEF LimiterTypes, EndCleanup, request, history
  <2> QED
    BY <1>3, <2>1, <2>2, <2>3, <2>4 DEF Cleanup
<1>4. CASE Tick
  BY <1>a, <1>4 DEF LimiterTypes, Tick, Refill, request, cleanup
<1> QED
  BY <1>1, <1>2, <1>3, <1>4 DEF LimiterNext

LEMMA CallsStep == LimiterShape /\ [LimiterNext]_limiterVars => CallsOK'
<1> SUFFICES ASSUME LimiterShape, [LimiterNext]_limiterVars PROVE CallsOK'
  OBVIOUS
<1> USE RateAssumption
<1>a. LimiterTypes /\ CallsOK
  BY DEF LimiterShape
<1>1. CASE UNCHANGED <<at, client, held>>
  BY <1>a, <1>1 DEF CallsOK
<1>2. ASSUME NEW r \in Call, Handle(r) PROVE CallsOK'
  <2>1. ASSUME NEW c \in Client, Arrive(r, c) PROVE CallsOK'
    BY <1>a, <2>1 DEF LimiterTypes, CallsOK, Arrive
  <2>2. CASE LoadHit(r) \/ LoadMiss(r)
    BY <1>a, <2>2 DEF LimiterTypes, CallsOK, LoadHit, LoadMiss, Acquire
  <2>3. CASE LoadOrStore(r)
    BY <1>a, <2>3 DEF LimiterTypes, CallsOK, LoadOrStore, Fresh, Unreferenced, Acquire
  <2>4. CASE Take(r) \/ Deny(r)
    BY <1>a, <2>4 DEF LimiterTypes, CallsOK, Take, Deny
  <2>5. CASE HeadersHit(r) \/ HeadersMiss(r) \/ HeadersLoadOrStore(r)
    BY <1>a, <2>5 DEF LimiterTypes, CallsOK, HeadersHit, HeadersMiss, HeadersLoadOrStore, Done
  <2> QED
    BY <1>2, <2>1, <2>2, <2>3, <2>4, <2>5 DEF Handle
<1> QED
  BY <1>1, <1>2 DEF LimiterNext, Cleanup, StartCleanup, Visit, Found, DeleteStale,
                    EndCleanup, Tick, limiterVars, request

LEMMA CleanupStep == LimiterShape /\ [LimiterNext]_limiterVars => CleanupOK'
<1> SUFFICES ASSUME LimiterShape, [LimiterNext]_limiterVars PROVE CleanupOK'
  OBVIOUS
<1> USE RateAssumption
<1>a. LimiterTypes /\ CleanupOK
  BY DEF LimiterShape
<1>1. CASE UNCHANGED <<stale, cutoff, clients, now>>
  BY <1>a, <1>1 DEF CleanupOK
<1>2. ASSUME NEW r \in Call, Handle(r) PROVE CleanupOK'
  <2>1. UNCHANGED cleanup /\ now' = now
    BY <1>2 DEF Handle, Arrive, LoadHit, LoadMiss, LoadOrStore, Take, Deny, HeadersHit,
                HeadersMiss, HeadersLoadOrStore
  <2>2. \A c \in Client : clients[c] # None => clients'[c] # None
    BY <1>a, <1>2 DEF LimiterTypes, Handle, Arrive, LoadHit, LoadMiss, LoadOrStore, Take, Deny,
                HeadersHit, HeadersMiss, HeadersLoadOrStore, Fresh, Unreferenced
  <2> QED
    BY <1>a, <2>1, <2>2 DEF CleanupOK, LimiterTypes, cleanup
<1>3. CASE Cleanup
  <2>1. CASE StartCleanup
    BY <1>a, <2>1 DEF LimiterTypes, CleanupOK, StartCleanup, NoCleanup
  <2>2. ASSUME NEW c \in Client, Visit(c) PROVE CleanupOK'
    BY <1>a, <2>2 DEF LimiterTypes, CleanupOK, Visit, Found, Present, NoCleanup
  <2>3. CASE DeleteStale \/ EndCleanup
    BY <1>a, <2>3 DEF LimiterTypes, CleanupOK, DeleteStale, EndCleanup
  <2> QED
    BY <1>3, <2>1, <2>2, <2>3 DEF Cleanup
<1>4. CASE Tick
  BY <1>a, <1>4 DEF LimiterTypes, CleanupOK, Tick, cleanup, NoCleanup
<1> QED
  BY <1>1, <1>2, <1>3, <1>4 DEF LimiterNext, limiterVars, cleanup

LEMMA OwnersStep == LimiterShape /\ [LimiterNext]_limiterVars => OwnersOK'
<1> SUFFICES ASSUME LimiterShape, [LimiterNext]_limiterVars PROVE OwnersOK'
  OBVIOUS
<1> USE RateAssumption
<1>a. LimiterTypes /\ CallsOK /\ CleanupOK /\ OwnersOK
  BY DEF LimiterShape
<1>1. CASE UNCHANGED <<clients, held, client, raced, stale>>
  BY <1>a, <1>1 DEF OwnersOK
<1>2. ASSUME NEW r \in Call, Handle(r) PROVE OwnersOK'
  <2>1. ASSUME NEW c \in Client, Arrive(r, c) PROVE OwnersOK'
    BY <1>a, <2>1 DEF LimiterTypes, CallsOK, OwnersOK, Arrive, cleanup, history
  <2>2. CASE LoadHit(r)
    BY <1>a, <2>2 DEF LimiterTypes, CallsOK, OwnersOK, LoadHit, Acquire, cleanup
  <2>3. CASE LoadMiss(r)
    BY <1>1, <2>3 DEF LoadMiss, cleanup, history
  <2>4. CASE LoadOrStore(r)
    <3>1. CASE clients[client[r]] # None
      BY <1>a, <2>4, <3>1 DEF LimiterTypes, CallsOK, OwnersOK, LoadOrStore, Acquire, cleanup
    <3>2. CASE clients[client[r]] = None
      <4>1. PICK o \in Limiter : Fresh(o, client[r]) /\ Acquire(r, client[r], o)
        BY <2>4, <3>2 DEF LoadOrStore
      <4> QED
        BY <1>a, <2>4, <3>2, <4>1 DEF LimiterTypes, CallsOK, CleanupOK, OwnersOK, LoadOrStore,
             Fresh, Unreferenced, Acquire, cleanup
    <3> QED
      BY <3>1, <3>2
  <2>5. CASE Take(r)
    BY <1>a, <2>5 DEF LimiterTypes, OwnersOK, Take, cleanup
  <2>6. CASE Deny(r)
    BY <1>a, <2>6 DEF LimiterTypes, OwnersOK, Deny, cleanup, history
  <2>7. CASE HeadersHit(r)
    BY <1>a, <2>7 DEF LimiterTypes, CallsOK, OwnersOK, HeadersHit, Done, cleanup, history
  <2>8. CASE HeadersMiss(r)
    BY <1>1, <2>8 DEF HeadersMiss, cleanup, history
  <2>9. CASE HeadersLoadOrStore(r)
    BY <1>a, <2>9 DEF LimiterTypes, CallsOK, OwnersOK, HeadersLoadOrStore, Fresh, Unreferenced,
         Done, cleanup, history
  <2> QED
    BY <1>2, <2>1, <2>2, <2>3, <2>4, <2>5, <2>6, <2>7, <2>8, <2>9 DEF Handle
<1>3. CASE Cleanup
  <2>1. CASE StartCleanup
    BY <1>1, <2>1 DEF StartCleanup, request, history
  <2>2. ASSUME NEW c \in Client, Visit(c) PROVE OwnersOK'
    BY <1>a, <2>2 DEF LimiterTypes, OwnersOK, Visit, Found, InUse, Present, request
  <2>3. CASE DeleteStale
    BY <1>a, <2>3 DEF LimiterTypes, CallsOK, OwnersOK, DeleteStale, request, history
  <2>4. CASE EndCleanup
    BY <1>1, <2>4 DEF EndCleanup, request, history
  <2> QED
    BY <1>3, <2>1, <2>2, <2>3, <2>4 DEF Cleanup
<1> QED
  BY <1>1, <1>2, <1>3 DEF LimiterNext, Tick, limiterVars, request, cleanup, history

\* Only these steps touch a limiter.
LEMMA RefilledStep == LimiterShape /\ RefilledOK /\ [LimiterNext]_limiterVars => RefilledOK'
<1> SUFFICES ASSUME LimiterShape, RefilledOK, [LimiterNext]_limiterVars PROVE RefilledOK'
  OBVIOUS
<1> USE RateAssumption
<1>a. LimiterTypes /\ CallsOK /\ RefilledOK
  BY DEF LimiterShape
<1>b. \A o \in Limiter : tokens[o] \in 0..Burst /\ lastAccess[o] \in 0..now /\ now \in Nat
  BY <1>a DEF LimiterTypes
<1>0. 0 * Rate = 0
  BY SMT
<1>1. CASE UNCHANGED <<tokens, lastAccess, now>>
  BY <1>a, <1>1 DEF RefilledOK
<1>2. ASSUME NEW r \in Call, Handle(r) PROVE RefilledOK'
  <2>0. CASE UNCHANGED <<tokens, lastAccess, now>>
    BY <1>1, <2>0
  <2>1. ASSUME NEW o \in Limiter, NEW c, Fresh(o, c), now' = now PROVE RefilledOK'
    BY <1>a, <2>1 DEF LimiterTypes, RefilledOK, Fresh
  <2>2. ASSUME NEW o \in Limiter, lastAccess' = [lastAccess EXCEPT ![o] = now], now' = now,
               \A x \in Limiter \ {o} : tokens'[x] = tokens[x],
               tokens'[o] >= 0
        PROVE  RefilledOK'
    <3>1. lastAccess'[o] = now /\ now - now = 0
      BY <1>a, <1>b, <2>2 DEF LimiterTypes
    <3>2. tokens'[o] >= (now' - lastAccess'[o]) * Rate
      BY <1>0, <2>2, <3>1
    <3>3. \A x \in Limiter \ {o} : lastAccess'[x] = lastAccess[x]
      BY <1>a, <2>2 DEF LimiterTypes
    <3> QED
      BY <1>a, <2>2, <3>2, <3>3 DEF RefilledOK
  <2>3. CASE Take(r)
    <3>1. held[r] \in Limiter
      BY <1>a, <2>3 DEF LimiterTypes, CallsOK, Take
    <3>2. tokens'[held[r]] >= 0
      BY <1>a, <1>b, <2>3, <3>1 DEF LimiterTypes, Take
    <3> QED
      BY <1>a, <2>2, <2>3, <3>1, <3>2 DEF LimiterTypes, Take
  <2>4. CASE Deny(r)
    <3>1. held[r] \in Limiter
      BY <1>a, <2>4 DEF LimiterTypes, CallsOK, Deny
    <3>2. /\ tokens' = tokens /\ tokens[held[r]] >= 0
          /\ lastAccess' = [lastAccess EXCEPT ![held[r]] = now] /\ now' = now
      BY <1>b, <2>4, <3>1 DEF Deny
    <3> QED
      BY <2>2, <3>1, <3>2
  <2>5. CASE HeadersHit(r)
    <3>1. clients[client[r]] \in Limiter
      BY <1>a, <2>5 DEF LimiterTypes, CallsOK, HeadersHit
    <3>2. /\ tokens' = tokens /\ tokens[clients[client[r]]] >= 0
          /\ lastAccess' = [lastAccess EXCEPT ![clients[client[r]]] = now] /\ now' = now
      BY <1>b, <2>5, <3>1 DEF HeadersHit
    <3> QED
      BY <2>2, <3>1, <3>2
  <2> QED
    BY <1>2, <2>0, <2>1, <2>3, <2>4, <2>5 DEF Handle, Arrive, LoadHit, LoadMiss, LoadOrStore,
         HeadersMiss, HeadersLoadOrStore
<1>3. CASE Tick
  <2>1. SUFFICES ASSUME NEW o \in Limiter
                 PROVE  tokens'[o] = Burst \/ tokens'[o] >= (now' - lastAccess'[o]) * Rate
    BY DEF RefilledOK
  <2>2. tokens'[o] = Refill(tokens[o]) /\ lastAccess'[o] = lastAccess[o] /\ now' = now + 1
    BY <1>3 DEF Tick
  <2>3. PICK n \in Nat : n = now - lastAccess[o]
    BY <1>b
  <2>4. (n + 1) * Rate = n * Rate + Rate /\ n * Rate \in Nat
    BY Times
  <2>5. now' - lastAccess'[o] = n + 1
    BY <1>b, <2>2, <2>3
  <2>6. tokens[o] = Burst \/ tokens[o] >= n * Rate
    BY <1>a, <2>3 DEF RefilledOK
  <2>7. tokens'[o] = Burst \/ tokens'[o] >= (n + 1) * Rate
    BY <1>b, <2>2, <2>4, <2>6 DEF Refill
  <2> QED
    BY <2>5, <2>7
<1> QED
  BY <1>1, <1>2, <1>3 DEF LimiterNext, Cleanup, StartCleanup, Visit, Found, DeleteStale,
                          EndCleanup, limiterVars

\* A limiter that no call used since the cutoff has been refilled.
LEMMA StaleWasRefilled ==
  ASSUME LimiterShape, RefilledOK, RefillsBeforeStale, NEW c \in Client,
         clients[c] # None, lastAccess[clients[c]] < cutoff
  PROVE  tokens[clients[c]] = Burst
<1> DEFINE o == clients[c]
<1>1. /\ o \in Limiter /\ tokens[o] \in 0..Burst /\ lastAccess[o] \in 0..now /\ now \in Nat
      /\ cutoff \in Int /\ StaleAfter \in Nat /\ Rate \in Nat /\ Burst \in Nat
  BY RateAssumption DEF LimiterShape, LimiterTypes, NoCleanup
<1>2. cutoff <= now - StaleAfter
  <2>1. cutoff # NoCleanup
    BY <1>1 DEF NoCleanup
  <2> QED
    BY <2>1 DEF LimiterShape, CleanupOK
<1>3. PICK n \in Nat : n = now - lastAccess[o]
  BY <1>1
<1>4. n >= StaleAfter + 1
  BY <1>1, <1>2, <1>3
<1>5. n * Rate >= (StaleAfter + 1) * Rate
  BY <1>1, <1>4, Times
<1>6. n * Rate \in Nat /\ (StaleAfter + 1) * Rate \in Nat
  BY <1>1, Times
<1>7. tokens[o] = Burst \/ tokens[o] >= n * Rate
  BY <1>1, <1>3 DEF RefilledOK
<1> HIDE DEF o
<1>8. tokens[o] = Burst
  BY <1>1, <1>5, <1>6, <1>7 DEF RefillsBeforeStale
<1> QED
  BY <1>8 DEF o

LEMMA StaleStep ==
  ASSUME LimiterShape, RefilledOK, RefillsBeforeStale, StaleIsFull, [LimiterNext]_limiterVars
  PROVE  StaleIsFull'
<1> USE RateAssumption
<1>a. LimiterTypes /\ CallsOK /\ CleanupOK /\ OwnersOK
  BY DEF LimiterShape
<1>1. CASE UNCHANGED <<clients, tokens, stale, raced>>
  BY <1>1 DEF StaleIsFull
<1>2. ASSUME NEW r \in Call, Handle(r) PROVE StaleIsFull'
  <2>0. stale' = stale /\ raced \subseteq raced'
    BY <1>2 DEF Handle, Arrive, LoadHit, LoadMiss, LoadOrStore, Take, Deny, HeadersHit,
                HeadersMiss, HeadersLoadOrStore, Acquire, cleanup, history
  <2>1. CASE UNCHANGED <<clients, tokens>>
    BY <2>0, <2>1 DEF StaleIsFull
  <2>2. ASSUME NEW o \in Limiter, Fresh(o, client[r]), clients[client[r]] = None
        PROVE  StaleIsFull'
    BY <1>a, <2>0, <2>2 DEF LimiterTypes, CleanupOK, StaleIsFull, Fresh, Unreferenced
  <2>3. CASE Take(r)
    BY <1>a, <2>0, <2>3 DEF LimiterTypes, CallsOK, CleanupOK, OwnersOK, StaleIsFull, Take
  <2> QED
    BY <1>2, <2>1, <2>2, <2>3 DEF Handle, Arrive, LoadHit, LoadMiss, LoadOrStore, Deny,
         HeadersHit, HeadersMiss, HeadersLoadOrStore
<1>3. ASSUME NEW c \in Client, Visit(c) PROVE StaleIsFull'
  <2>1. UNCHANGED <<clients, tokens>>
    BY <1>3 DEF Visit, Found
  <2>2. stale' = c => clients[c] # None /\ lastAccess[clients[c]] < cutoff
    BY <1>3 DEF Visit, Found, Present
  <2>3. stale' # None => stale' = c
    BY <1>3 DEF Visit, Found
  <2> QED
    BY <2>1, <2>2, <2>3, StaleWasRefilled DEF StaleIsFull
<1>4. CASE DeleteStale
  BY <1>4 DEF DeleteStale, StaleIsFull
<1>5. CASE Tick
  BY <1>a, <1>5 DEF LimiterTypes, CleanupOK, Tick, Refill, StaleIsFull, cleanup
<1> QED
  BY <1>1, <1>2, <1>3, <1>4, <1>5 DEF LimiterNext, Cleanup, StartCleanup, EndCleanup,
       limiterVars, history, cleanup

LEMMA OneBucketStep ==
  ASSUME LimiterShape, StaleIsFull, OneBucket, [LimiterNext]_limiterVars
  PROVE  OneBucket'
<1> USE RateAssumption
<1>a. LimiterTypes /\ CallsOK /\ CleanupOK /\ OwnersOK
  BY DEF LimiterShape
<1>0. raced \subseteq raced'
  BY DEF LimiterNext, Handle, Arrive, LoadHit, LoadMiss, LoadOrStore, Take, Deny, HeadersHit,
         HeadersMiss, HeadersLoadOrStore, Acquire, Cleanup, StartCleanup, Visit, Found,
         DeleteStale, EndCleanup, Tick, history, limiterVars
<1>1. CASE UNCHANGED <<clients, tokens, credit>>
  BY <1>0, <1>1 DEF OneBucket
<1>2. ASSUME NEW r \in Call, Handle(r) PROVE OneBucket'
  <2>1. ASSUME NEW o \in Limiter, Fresh(o, client[r]), clients[client[r]] = None,
               client[r] # None, credit' = credit
        PROVE  OneBucket'
    BY <1>a, <1>0, <2>1 DEF LimiterTypes, OneBucket, Fresh, Unreferenced
  <2>2. CASE Take(r)
    <3>1. SUFFICES ASSUME NEW c \in Client \ raced
                   PROVE  credit'[c] = IF clients'[c] = None THEN Burst ELSE tokens'[clients'[c]]
      BY <1>0 DEF OneBucket
    <3>2. CASE c = client[r]
      <4>1. held[r] # None /\ held[r] \in Limiter
        BY <1>a, <2>2 DEF LimiterTypes, CallsOK, Take
      <4>2. clients[c] = held[r] /\ clients' = clients
        BY <1>a, <2>2, <3>2, <4>1 DEF OwnersOK, Take
      <4>3. credit[c] = tokens[held[r]]
        BY <4>1, <4>2 DEF OneBucket
      <4>4. credit'[c] = credit[c] - 1 /\ tokens'[held[r]] = tokens[held[r]] - 1
        BY <1>a, <2>2, <3>2, <4>1 DEF LimiterTypes, Take
      <4> QED
        BY <4>1, <4>2, <4>3, <4>4
    <3>3. CASE c # client[r]
      BY <1>a, <2>2, <3>3 DEF LimiterTypes, OwnersOK, OneBucket, Take
    <3> QED
      BY <3>2, <3>3
  <2> QED
    BY <1>a, <1>1, <1>2, <2>1, <2>2 DEF CallsOK, Handle, Arrive, LoadHit, LoadMiss, LoadOrStore,
         Deny, HeadersHit, HeadersMiss, HeadersLoadOrStore, history
<1>3. CASE DeleteStale
  BY <1>a, <1>0, <1>3 DEF LimiterTypes, CleanupOK, StaleIsFull, OneBucket, DeleteStale, history
<1>4. CASE Tick
  BY <1>a, <1>0, <1>4 DEF LimiterTypes, OneBucket, Tick, Refill
<1> QED
  BY <1>1, <1>2, <1>3, <1>4 DEF LimiterNext, Cleanup, StartCleanup, Visit, Found, EndCleanup,
       limiterVars, history

LEMMA LimiterInitInv == LimiterInit => LimiterInv
<1> SUFFICES ASSUME LimiterInit PROVE LimiterInv
  OBVIOUS
<1> USE RateAssumption
<1>1. LimiterTypes /\ CallsOK /\ CleanupOK /\ OwnersOK
  BY DEF LimiterInit, LimiterTypes, CallsOK, CleanupOK, OwnersOK, NoCleanup
<1>2. RefilledOK /\ StaleIsFull /\ OneBucket
  BY DEF LimiterInit, RefilledOK, StaleIsFull, OneBucket
<1> QED
  BY <1>1, <1>2 DEF LimiterInv, LimiterShape

\* Allow and GetHeaders under Cleanup, for any clients, concurrent requests,
\* rate, burst and window: a client that did not race with Cleanup is limited
\* as by one bucket that lives forever, if an idle bucket refills within the
\* window.
THEOREM OneBucketForever == LimiterSpec => []OneBucketUnlessRaced
<1>1. LimiterInv /\ [LimiterNext]_limiterVars => LimiterInv'
  <2> SUFFICES ASSUME LimiterInv, [LimiterNext]_limiterVars PROVE LimiterInv'
    OBVIOUS
  <2>1. LimiterShape /\ RefilledOK /\ (RefillsBeforeStale => StaleIsFull /\ OneBucket)
    BY DEF LimiterInv
  <2>2. LimiterShape'
    BY <2>1, LimiterTypesStep, CallsStep, CleanupStep, OwnersStep DEF LimiterShape
  <2>3. RefilledOK'
    BY <2>1, RefilledStep
  <2>4. RefillsBeforeStale => StaleIsFull' /\ OneBucket'
    BY <2>1, StaleStep, OneBucketStep
  <2>5. RefillsBeforeStale' <=> RefillsBeforeStale
    BY DEF RefillsBeforeStale
  <2> QED
    BY <2>2, <2>3, <2>4, <2>5 DEF LimiterInv
<1>2. LimiterInv => OneBucketUnlessRaced
  BY DEF LimiterInv, LimiterShape, LimiterTypes, CallsOK, CleanupOK, LimiterTypeOK, OneBucket,
         OneBucketUnlessRaced
<1> QED
  BY <1>1, <1>2, LimiterInitInv, PTL DEF LimiterSpec
-----------------------------------------------------------------------------
(* DepthLimit: for texts nested to any depth, and any limit.               *)
(*                                                                         *)
(* A Loop ends, as it only goes forward: it is what one step of it says    *)
(* (LoopGoes), and so is the walk over a value (ValueGoes).  Walks(w, n)   *)
(* says of a text w that, wherever it is in a longer one, the walk over it *)
(* ends where it ends if n levels are left, and fails if there are fewer.  *)
(* It holds of the texts without brackets with n = 0, and of what each way *)
(* of enclosing a text gives with one more than of that text.              *)

LEMMA LeastNatural ==
  ASSUME NEW T, T \subseteq Nat, T # {}
  PROVE  \E n \in T : \A m \in T : n <= m
<1>1. PICK n \in T : \A m \in T : ~(<<m, n>> \in OpToRel(<, Nat))
  BY NatLessThanWellFounded, WFMin
<1>2. \A m \in T : m < n => <<m, n>> \in OpToRel(<, Nat)
  BY DEF OpToRel
<1>3. \A m \in T : ~(m < n)
  BY <1>1, <1>2, Zenon
<1> QED
  BY <1>3

LEMMA Induction ==
  ASSUME NEW S, 0 \in S, \A n \in Nat : n \in S => n + 1 \in S
  PROVE  Nat \subseteq S
<1> SUFFICES ASSUME Nat \ S # {} PROVE FALSE
  OBVIOUS
<1>1. PICK n \in Nat \ S : \A m \in Nat \ S : n <= m
  BY LeastNatural
<1>2. n - 1 \in Nat
  BY <1>1
<1> QED
  BY <1>1, <1>2

LoopStep(goesOn, result, f, j) ==
    IF goesOn[j] \in DOMAIN goesOn /\ goesOn[j] > j THEN f[goesOn[j]] ELSE result[j]

Loops(goesOn, result, f) == f = [j \in DOMAIN goesOn |-> LoopStep(goesOn, result, f, j)]

LEMMA LoopIsDefined ==
  ASSUME NEW n \in Nat, NEW goesOn, NEW result, DOMAIN goesOn = 1..n
  PROVE  \E f : Loops(goesOn, result, f) /\ \A i : Loop(goesOn, result, i) = f[i]
<1> DEFINE From(m, h) == /\ h = [j \in 1..n |-> h[j]]
                         /\ \A j \in 1..n : j > n - m => h[j] = LoopStep(goesOn, result, h, j)
           S == {m \in Nat : \E f : From(m, f)}
<1>1. 0 \in S
  <2>1. From(0, [j \in 1..n |-> 0])
    OBVIOUS
  <2> QED
    BY <2>1
<1>2. ASSUME NEW m \in Nat, m \in S PROVE m + 1 \in S
  <2>1. PICK f : From(m, f)
    BY <1>2
  <2> DEFINE x == LoopStep(goesOn, result, f, n - m)
             g == [j \in 1..n |-> IF j = n - m THEN x ELSE f[j]]
  <2>2. ASSUME NEW j \in 1..n, j > n - (m + 1)
        PROVE  LoopStep(goesOn, result, g, j) = LoopStep(goesOn, result, f, j)
    <3>1. CASE goesOn[j] \in 1..n /\ goesOn[j] > j
      <4>1. goesOn[j] # n - m
        BY <2>2, <3>1
      <4>2. g[goesOn[j]] = f[goesOn[j]]
        BY <3>1, <4>1
      <4> QED
        BY <3>1, <4>2 DEF LoopStep
    <3>2. CASE ~(goesOn[j] \in 1..n /\ goesOn[j] > j)
      BY <3>2 DEF LoopStep
    <3> QED
      BY <3>1, <3>2
  <2>3. ASSUME NEW j \in 1..n, j > n - (m + 1) PROVE g[j] = LoopStep(goesOn, result, f, j)
    BY <2>1, <2>3
  <2>4. g = [j \in 1..n |-> g[j]]
    OBVIOUS
  <2> HIDE DEF g
  <2>5. From(m + 1, g)
    BY <2>2, <2>3, <2>4
  <2> QED
    BY <2>5
<1> HIDE DEF S
<1>3. n \in S
  BY <1>1, <1>2, Induction
<1>4. PICK f : From(n, f)
  BY <1>3 DEF S
<1>5. Loops(goesOn, result, f)
  BY <1>4 DEF Loops
<1>6. \A i : Loop(goesOn, result, i) = (CHOOSE h : Loops(goesOn, result, h))[i]
  BY DEF Loop, Loops, LoopStep
<1> QED
  BY <1>5, <1>6, Zenon

LEMMA LoopGoes ==
  ASSUME NEW n \in Nat, NEW goesOn, NEW result, DOMAIN goesOn = 1..n, NEW i \in 1..n
  PROVE  Loop(goesOn, result, i) = IF goesOn[i] \in 1..n /\ goesOn[i] > i
                                   THEN Loop(goesOn, result, goesOn[i]) ELSE result[i]
<1>1. PICK f : Loops(goesOn, result, f) /\ \A j : Loop(goesOn, result, j) = f[j]
  BY LoopIsDefined
<1>2. f[i] = LoopStep(goesOn, result, f, i)
  BY <1>1 DEF Loops
<1> QED
  BY <1>1, <1>2 DEF LoopStep

ValuesTo(d, m, f) ==
    f = [n \in 0..m |-> [i \in Places(d) |-> ValueStep(d, f[n - 1], n, i)]]

LEMMA OutermostStep ==
  ASSUME NEW d, NEW u, NEW v, NEW i
  PROVE  ValueStep(d, u, 0, i) = ValueStep(d, v, 0, i)
BY DEF ValueStep

LEMMA ValueIsDefined ==
  ASSUME NEW d, NEW m \in Nat
  PROVE  \E f : ValuesTo(d, m, f) /\ WalkValue(d, m) = f[m]
<1> DEFINE S == {n \in Nat : \E f : ValuesTo(d, n, f)}
<1>1. 0 \in S
  <2> DEFINE x == [i \in Places(d) |-> ValueStep(d, 0, 0, i)]
             f == [n \in 0..0 |-> x]
  <2>1. x = [i \in Places(d) |-> ValueStep(d, f[0 - 1], 0, i)]
    BY OutermostStep
  <2> HIDE DEF x
  <2>2. \A n \in 0..0 : n = 0
    OBVIOUS
  <2>3. f = [n \in 0..0 |-> [i \in Places(d) |-> ValueStep(d, f[n - 1], n, i)]]
    BY <2>1, <2>2
  <2> QED
    BY <2>3 DEF ValuesTo
<1>2. ASSUME NEW n \in Nat, n \in S PROVE n + 1 \in S
  <2>1. PICK f : ValuesTo(d, n, f)
    BY <1>2
  <2> DEFINE x == [i \in Places(d) |-> ValueStep(d, f[n], n + 1, i)]
             g == [k \in 0..n + 1 |-> IF k = n + 1 THEN x ELSE f[k]]
             y(h, k) == [i \in Places(d) |-> ValueStep(d, h[k - 1], k, i)]
  <2>2. \A k \in 0..n : f[k] = y(f, k)
    BY <2>1 DEF ValuesTo
  <2>3. \A k \in 0..n + 1 : k # 0 => g[k - 1] = f[k - 1]
    OBVIOUS
  <2>4. y(g, 0) = y(f, 0)
    BY OutermostStep
  <2>5. \A k \in 0..n + 1 : y(g, k) = y(f, k)
    BY <2>3, <2>4
  <2>6. x = y(f, n + 1)
    OBVIOUS
  <2> HIDE DEF x, y
  <2>7. g = [k \in 0..n + 1 |-> y(g, k)]
    BY <2>2, <2>5, <2>6
  <2> HIDE DEF g
  <2>8. ValuesTo(d, n + 1, g)
    BY <2>7 DEF ValuesTo, y
  <2> QED
    BY <2>8
<1> HIDE DEF S
<1>3. PICK f : ValuesTo(d, m, f)
  <2>1. m \in S
    BY <1>1, <1>2, Induction
  <2> QED
    BY <2>1 DEF S
<1>4. WalkValue(d, m) = (CHOOSE h : ValuesTo(d, m, h))[m]
  BY DEF WalkValue, ValuesTo
<1> QED
  BY <1>3, <1>4, Zenon

LEMMA ValuesAgree ==
  ASSUME NEW d, NEW m \in Nat, NEW f, ValuesTo(d, m, f), NEW k \in Nat, NEW h, ValuesTo(d, k, h)
  PROVE  \A n \in Nat : n <= m /\ n <= k => f[n] = h[n]
<1> DEFINE S == {n \in Nat : n <= m /\ n <= k => f[n] = h[n]}
           y(u, n) == [i \in Places(d) |-> ValueStep(d, u[n - 1], n, i)]
<1>1. (\A n \in 0..m : f[n] = y(f, n)) /\ (\A n \in 0..k : h[n] = y(h, n))
  BY DEF ValuesTo
<1>2. y(f, 0) = y(h, 0)
  BY OutermostStep
<1>3. f[0] = y(f, 0) /\ h[0] = y(h, 0)
  <2> HIDE DEF y
  <2>1. 0 \in 0..m /\ 0 \in 0..k
    OBVIOUS
  <2> QED
    BY <1>1, <2>1
<1>4. 0 \in S
  <2> HIDE DEF y
  <2> QED
    BY <1>3, <1>2
<1>5. ASSUME NEW n \in Nat, n \in S PROVE n + 1 \in S
  <2> SUFFICES ASSUME n + 1 <= m, n + 1 <= k PROVE f[n + 1] = h[n + 1]
    OBVIOUS
  <2>1. f[n] = h[n] /\ n + 1 - 1 = n
    BY <1>5
  <2>2. y(f, n + 1) = y(h, n + 1)
    BY <2>1
  <2> HIDE DEF y
  <2> QED
    BY <1>1, <2>2
<1> HIDE DEF S
<1>6. Nat \subseteq S
  BY <1>4, <1>5, Induction
<1> QED
  BY <1>6 DEF S

LEMMA ValueGoes ==
  ASSUME NEW d, NEW m \in Nat, NEW i \in Places(d)
  PROVE  WalkValue(d, m)[i] = ValueStep(d, WalkValue(d, m - 1), m, i)
<1>1. PICK f : ValuesTo(d, m, f) /\ WalkValue(d, m) = f[m]
  BY ValueIsDefined
<1>2. f[m][i] = ValueStep(d, f[m - 1], m, i)
  BY <1>1 DEF ValuesTo
<1>3. CASE m = 0
  BY <1>1, <1>2, <1>3, OutermostStep
<1>4. CASE m # 0
  <2>1. m - 1 \in Nat
    BY <1>4
  <2>2. PICK h : ValuesTo(d, m - 1, h) /\ WalkValue(d, m - 1) = h[m - 1]
    BY <2>1, ValueIsDefined
  <2>3. f[m - 1] = h[m - 1]
    BY <1>1, <2>1, <2>2, ValuesAgree
  <2> QED
    BY <1>1, <1>2, <2>2, <2>3
<1> QED
  BY <1>3, <1>4

-----------------------------------------------------------------------------
Mark == {"open", "close", "begin", "end", "comma", "colon", "q", "b", "s", "x"}

Enders == {"comma", "close", "end", "s", "none"}

LEMMA AtFacts ==
  ASSUME NEW d \in Seq(Mark), NEW i
  PROVE  /\ At(d, i) \in Mark <=> i \in 1..Len(d)
         /\ At(d, i) \notin Mark => At(d, i) = "none"
         /\ i \in 1..Len(d) => At(d, i) = d[i]
BY DEF At, Mark

LEMMA UntilIs ==
  ASSUME NEW d \in Seq(Mark), NEW i \in Nat \ {0}, NEW stop, NEW j \in i..(Len(d) + 1),
         At(d, j) \in stop \cup {"none"},
         \A k \in i..(j - 1) : At(d, k) \notin stop
  PROVE  Until(d, i, stop) = j
<1> DEFINE P(l) == /\ At(d, l) \in stop \cup {"none"}
                   /\ \A k \in i..(l - 1) : At(d, k) \notin stop
<1>1. ASSUME NEW l \in i..(Len(d) + 1), P(l) PROVE l = j
  <2>1. l \in 1..Len(d) => At(d, l) # "none"
    BY AtFacts DEF Mark
  <2>2. j \in 1..Len(d) => At(d, j) # "none"
    BY AtFacts DEF Mark
  <2>3. ~(l < j)
    <3> SUFFICES ASSUME l < j PROVE FALSE
      OBVIOUS
    <3>1. l \in i..(j - 1) /\ l \in 1..Len(d)
      OBVIOUS
    <3> QED
      BY <1>1, <2>1, <3>1
  <2>4. ~(j < l)
    <3> SUFFICES ASSUME j < l PROVE FALSE
      OBVIOUS
    <3>1. j \in i..(l - 1) /\ j \in 1..Len(d)
      OBVIOUS
    <3> QED
      BY <1>1, <2>2, <3>1
  <2> QED
    BY <2>3, <2>4
<1>2. j \in i..(Len(d) + 1) /\ P(j)
  OBVIOUS
<1> QED
  BY <1>1, <1>2 DEF Until

LEMMA SkipsNothing ==
  ASSUME NEW d \in Seq(Mark), NEW i \in Places(d), At(d, i) # "s"
  PROVE  SkipWS(d, i) = i
<1>1. i \in Nat \ {0} /\ i \in i..(Len(d) + 1) /\ i..(i - 1) = {}
  BY DEF Places
<1>2. At(d, i) \in NotSpace \cup {"none"}
  BY AtFacts DEF Mark, NotSpace
<1> QED
  BY <1>1, <1>2, UntilIs DEF SkipWS

LEMMA SkipsOne ==
  ASSUME NEW d \in Seq(Mark), NEW i \in Places(d), At(d, i) = "s", At(d, i + 1) # "s"
  PROVE  SkipWS(d, i) = i + 1 /\ i + 1 \in Places(d)
<1>1. i \in 1..Len(d)
  BY AtFacts DEF Mark
<1>2. i \in Nat \ {0} /\ i + 1 \in i..(Len(d) + 1) /\ \A k \in i..(i + 1 - 1) : k = i
  BY <1>1
<1>3. At(d, i + 1) \in NotSpace \cup {"none"}
  BY AtFacts DEF Mark, NotSpace
<1>4. \A k \in i..(i + 1 - 1) : At(d, k) \notin NotSpace
  BY <1>2 DEF NotSpace
<1> QED
  BY <1>1, <1>2, <1>3, <1>4, UntilIs DEF SkipWS, Places

LEMMA StringGoes ==
  ASSUME NEW d \in Seq(Mark), NEW i \in 1..Len(d)
  PROVE  /\ At(d, i) = "q" => SkipString(d, i) = i + 1
         /\ At(d, i) = "b" /\ i + 1 \in 1..Len(d) => SkipString(d, i) = SkipString(d, i + 2)
         /\ At(d, i) \notin {"q", "b"} => SkipString(d, i) = SkipString(d, i + 1)
<1> DEFINE on == [j \in Places(d) |-> IF At(d, j) = "b" THEN j + 2
                                     ELSE IF At(d, j) \in {"q", "none"} THEN Fails ELSE j + 1]
           re == [j \in Places(d) |-> IF At(d, j) = "q" THEN j + 1 ELSE Fails]
           n == Len(d) + 1
<1>1. SkipString(d, i) = Loop(on, re, i) /\ \A j : SkipString(d, j) = Loop(on, re, j)
  BY DEF SkipString
<1>2. n \in Nat /\ DOMAIN on = 1..n /\ i \in 1..n
  BY DEF Places
<1>3. on[i] = IF At(d, i) = "b" THEN i + 2 ELSE IF At(d, i) \in {"q", "none"} THEN Fails ELSE i + 1
  BY <1>2 DEF Places
<1>4. re[i] = IF At(d, i) = "q" THEN i + 1 ELSE Fails
  BY <1>2 DEF Places
<1>5. At(d, i) # "none"
  BY AtFacts DEF Mark
<1> HIDE DEF on, re
<1>6. Loop(on, re, i) = IF on[i] \in 1..n /\ on[i] > i THEN Loop(on, re, on[i]) ELSE re[i]
  BY <1>2, LoopGoes
<1> QED
  BY <1>1, <1>3, <1>4, <1>5, <1>6 DEF Fails

LEMMA ItemsGo ==
  ASSUME NEW d \in Seq(Mark), NEW item, NEW closing \in {"close", "end"}, NEW i \in Places(d)
  PROVE  /\ item[i] = Fails => WalkItems(d, item, closing, i) = Fails
         /\ \A p \in i..Len(d) : item[i] # Fails /\ SkipWS(d, item[i]) = p =>
               /\ At(d, p) = closing => WalkItems(d, item, closing, i) = p + 1
               /\ At(d, p) = "comma" =>
                     WalkItems(d, item, closing, i) = WalkItems(d, item, closing, p + 1)
<1> DEFINE mark(j) == IF item[j] = Fails THEN "none" ELSE At(d, SkipWS(d, item[j]))
           on == [j \in Places(d) |-> IF mark(j) = "comma" THEN SkipWS(d, item[j]) + 1 ELSE Fails]
           re == [j \in Places(d) |-> IF mark(j) = closing THEN SkipWS(d, item[j]) + 1 ELSE Fails]
           n == Len(d) + 1
<1>1. \A j : WalkItems(d, item, closing, j) = Loop(on, re, j)
  BY DEF WalkItems
<1>2. n \in Nat /\ DOMAIN on = 1..n /\ i \in 1..n
  BY DEF Places
<1>3. on[i] = IF mark(i) = "comma" THEN SkipWS(d, item[i]) + 1 ELSE Fails
  OBVIOUS
<1>4. re[i] = IF mark(i) = closing THEN SkipWS(d, item[i]) + 1 ELSE Fails
  OBVIOUS
<1>5. item[i] = Fails => mark(i) = "none"
  OBVIOUS
<1>6. item[i] # Fails => mark(i) = At(d, SkipWS(d, item[i]))
  OBVIOUS
<1> HIDE DEF on, re, mark
<1>7. Loop(on, re, i) = IF on[i] \in 1..n /\ on[i] > i THEN Loop(on, re, on[i]) ELSE re[i]
  BY <1>2, LoopGoes
<1>8. item[i] = Fails => Loop(on, re, i) = Fails
  BY <1>2, <1>3, <1>4, <1>5, <1>7 DEF Fails
<1>9. ASSUME NEW p \in i..Len(d), item[i] # Fails, SkipWS(d, item[i]) = p
      PROVE  /\ At(d, p) = closing => Loop(on, re, i) = p + 1
             /\ At(d, p) = "comma" => Loop(on, re, i) = Loop(on, re, p + 1)
  BY <1>2, <1>3, <1>4, <1>6, <1>7, <1>9 DEF Fails
<1> QED
  BY <1>1, <1>8, <1>9

-----------------------------------------------------------------------------
\* The text w is in d, from place i on.
Sits(d, i, w) == \A k \in 1..Len(w) : At(d, i + k - 1) = w[k]

LEMMA SitsJoined ==
  ASSUME NEW d \in Seq(Mark), NEW i \in Nat \ {0}, NEW u \in Seq(Mark), NEW v \in Seq(Mark)
  PROVE  /\ u \o v \in Seq(Mark) /\ Len(u \o v) = Len(u) + Len(v)
         /\ Sits(d, i, u \o v) => Sits(d, i, u) /\ Sits(d, i + Len(u), v)
<1>1. Len(u) \in Nat /\ Len(v) \in Nat
  OBVIOUS
<1>2. /\ u \o v \in Seq(Mark) /\ Len(u \o v) = Len(u) + Len(v)
      /\ \A k \in 1..Len(u) : (u \o v)[k] = u[k]
      /\ \A k \in 1..Len(v) : (u \o v)[Len(u) + k] = v[k]
  OBVIOUS
<1>3. ASSUME Sits(d, i, u \o v), NEW k \in 1..Len(u) PROVE At(d, i + k - 1) = u[k]
  <2>1. k \in 1..Len(u \o v)
    BY <1>1, <1>2
  <2>2. At(d, i + k - 1) = (u \o v)[k]
    BY <1>3, <2>1 DEF Sits
  <2> QED
    BY <1>2, <2>2
<1>4. ASSUME Sits(d, i, u \o v), NEW k \in 1..Len(v) PROVE At(d, i + Len(u) + k - 1) = v[k]
  <2>1. Len(u) + k \in 1..Len(u \o v)
    BY <1>1, <1>2
  <2>2. At(d, i + (Len(u) + k) - 1) = (u \o v)[Len(u) + k]
    BY <1>4, <2>1 DEF Sits
  <2>3. i + (Len(u) + k) - 1 = i + Len(u) + k - 1
    BY <1>1
  <2> QED
    BY <1>2, <2>2, <2>3
<1>5. Sits(d, i, u \o v) => Sits(d, i, u)
  BY <1>3 DEF Sits
<1>6. ASSUME Sits(d, i, u \o v) PROVE Sits(d, i + Len(u), v)
  <2>1. \A k \in 1..Len(v) : At(d, i + Len(u) + k - 1) = v[k]
    BY <1>4, <1>6, Zenon
  <2> QED
    BY <2>1, Zenon DEF Sits
<1> QED
  BY <1>2, <1>5, <1>6

LEMMA SitsInPlaces ==
  ASSUME NEW d \in Seq(Mark), NEW i \in Nat \ {0}, NEW w \in Seq(Mark), w # <<>>, Sits(d, i, w)
  PROVE  /\ i + Len(w) - 1 \in 1..Len(d) /\ i \in 1..Len(d) /\ i + Len(w) \in Places(d)
         /\ At(d, i) = w[1]
<1>1. Len(w) \in Nat \ {0} /\ 1 \in 1..Len(w) /\ Len(w) \in 1..Len(w)
  BY EmptySeq
<1>2. At(d, i + 1 - 1) = w[1] /\ At(d, i + Len(w) - 1) = w[Len(w)]
  BY <1>1 DEF Sits
<1>3. w[1] \in Mark /\ w[Len(w)] \in Mark /\ i + 1 - 1 = i
  BY <1>1
<1>4. i \in 1..Len(d) /\ i + Len(w) - 1 \in 1..Len(d)
  BY <1>2, <1>3, AtFacts
<1> QED
  BY <1>1, <1>2, <1>3, <1>4 DEF Places

\* The walk over the text w, wherever it is, needs n levels.
Walks(w, n) ==
    \A d \in Seq(Mark), m \in Nat : \A i \in Places(d) :
        Sits(d, i, w) /\ At(d, i + Len(w)) \in Enders =>
            WalkValue(d, m)[i] = IF n <= m THEN i + Len(w) ELSE Fails

LEMMA XWalks == Walks(<<"x">>, 0)
<1> SUFFICES ASSUME NEW d \in Seq(Mark), NEW m \in Nat, NEW i \in Places(d),
                    Sits(d, i, <<"x">>), At(d, i + 1) \in Enders
             PROVE  WalkValue(d, m)[i] = i + 1
  BY DEF Walks
<1>1. i \in Nat \ {0} /\ At(d, i) = "x" /\ i + 1 \in i..(Len(d) + 1)
  <2>1. i \in Nat \ {0} /\ Len(<<"x">>) = 1 /\ <<"x">>[1] = "x"
    BY DEF Places
  <2>2. At(d, i + 1 - 1) = "x"
    BY <2>1 DEF Sits
  <2>3. At(d, i) = "x"
    BY <2>1, <2>2
  <2> QED
    BY <2>1, <2>3, AtFacts DEF Mark
<1>2. SkipWS(d, i) = i
  BY <1>1, SkipsNothing
<1>3. Until(d, i, AfterPrimitive) = i + 1
  <2>1. \A k \in i..(i + 1 - 1) : k = i
    BY <1>1
  <2>2. At(d, i) \notin AfterPrimitive /\ At(d, i + 1) \in AfterPrimitive \cup {"none"}
    BY <1>1 DEF Enders, AfterPrimitive
  <2>3. \A k \in i..(i + 1 - 1) : At(d, k) \notin AfterPrimitive
    BY <2>1, <2>2
  <2>4. PICK j : j = i + 1
    OBVIOUS
  <2>5. /\ j \in i..(Len(d) + 1) /\ At(d, j) \in AfterPrimitive \cup {"none"}
        /\ \A k \in i..(j - 1) : At(d, k) \notin AfterPrimitive
    BY <1>1, <2>2, <2>3, <2>4
  <2>6. Until(d, i, AfterPrimitive) = j
    BY <1>1, <2>5, UntilIs
  <2> QED
    BY <2>4, <2>6
<1>4. ValueStep(d, WalkValue(d, m - 1), m, i) = i + 1
  BY <1>1, <1>2, <1>3 DEF ValueStep
<1> QED
  BY <1>4, ValueGoes

\* A value that begins with a quote is a string.
LEMMA QuoteStarts ==
  ASSUME NEW d \in Seq(Mark), NEW m \in Nat, NEW i \in Places(d), At(d, i) = "q"
  PROVE  WalkValue(d, m)[i] = SkipString(d, i + 1)
<1>1. SkipWS(d, i) = i
  BY SkipsNothing
<1>2. ValueStep(d, WalkValue(d, m - 1), m, i) = SkipString(d, i + 1)
  BY <1>1 DEF ValueStep
<1> QED
  BY <1>2, ValueGoes

LEMMA MarksAt ==
  ASSUME NEW d \in Seq(Mark), NEW i \in Nat \ {0}
  PROVE  /\ \A a : Sits(d, i, <<a>>) => At(d, i) = a
         /\ \A a, b : Sits(d, i, <<a, b>>) => At(d, i) = a /\ At(d, i + 1) = b
         /\ \A a, b, c : Sits(d, i, <<a, b, c>>) =>
               At(d, i) = a /\ At(d, i + 1) = b /\ At(d, i + 2) = c
         /\ \A a, b, c, e : Sits(d, i, <<a, b, c, e>>) =>
               At(d, i) = a /\ At(d, i + 1) = b /\ At(d, i + 2) = c /\ At(d, i + 3) = e
         /\ \A a, b, c, e, f : Sits(d, i, <<a, b, c, e, f>>) =>
               /\ At(d, i) = a /\ At(d, i + 1) = b /\ At(d, i + 2) = c /\ At(d, i + 3) = e
               /\ At(d, i + 4) = f
<1>1. i + 1 - 1 = i /\ i + 2 - 1 = i + 1 /\ i + 3 - 1 = i + 2 /\ i + 4 - 1 = i + 3 /\ i + 5 - 1 = i + 4
  OBVIOUS
<1> QED
  BY <1>1 DEF Sits

LEMMA StringsWalk ==
  /\ Walks(<<"q", "open", "q">>, 0)
  /\ Walks(<<"q", "b", "q", "begin", "q">>, 0)
  /\ Walks(<<"q", "b", "b", "q">>, 0)
<1>1. ASSUME NEW d \in Seq(Mark), NEW m \in Nat, NEW i \in Places(d), Sits(d, i, <<"q", "open", "q">>)
      PROVE  WalkValue(d, m)[i] = i + 3
  <2>1. i \in Nat \ {0} /\ At(d, i) = "q" /\ At(d, i + 1) = "open" /\ At(d, i + 2) = "q"
    BY <1>1, MarksAt DEF Places
  <2>2. i + 1 \in 1..Len(d) /\ i + 2 \in 1..Len(d)
    BY <2>1, AtFacts DEF Mark
  <2>3. SkipString(d, i + 1) = SkipString(d, i + 1 + 1)
    BY <2>1, <2>2, StringGoes
  <2>4. SkipString(d, i + 2) = i + 2 + 1
    BY <2>1, <2>2, StringGoes
  <2>5. i + 1 + 1 = i + 2 /\ i + 2 + 1 = i + 3
    BY <2>1
  <2> QED
    BY <2>1, <2>3, <2>4, <2>5, QuoteStarts
<1>2. ASSUME NEW d \in Seq(Mark), NEW m \in Nat, NEW i \in Places(d),
             Sits(d, i, <<"q", "b", "q", "begin", "q">>)
      PROVE  WalkValue(d, m)[i] = i + 5
  <2>1. /\ i \in Nat \ {0} /\ At(d, i) = "q" /\ At(d, i + 1) = "b" /\ At(d, i + 2) = "q"
        /\ At(d, i + 3) = "begin" /\ At(d, i + 4) = "q"
    BY <1>2, MarksAt DEF Places
  <2>2. i + 1 \in 1..Len(d) /\ i + 2 \in 1..Len(d) /\ i + 3 \in 1..Len(d) /\ i + 4 \in 1..Len(d)
    BY <2>1, AtFacts DEF Mark
  <2>3. i + 1 + 1 = i + 2 /\ i + 1 + 2 = i + 3 /\ i + 3 + 1 = i + 4 /\ i + 4 + 1 = i + 5
    BY <2>1
  <2>4. SkipString(d, i + 1) = SkipString(d, i + 3)
    BY <2>1, <2>2, <2>3, StringGoes
  <2>5. SkipString(d, i + 3) = SkipString(d, i + 4)
    BY <2>1, <2>2, <2>3, StringGoes
  <2>6. SkipString(d, i + 4) = i + 5
    BY <2>1, <2>2, <2>3, StringGoes
  <2> QED
    BY <2>1, <2>4, <2>5, <2>6, QuoteStarts
<1>3. ASSUME NEW d \in Seq(Mark), NEW m \in Nat, NEW i \in Places(d),
             Sits(d, i, <<"q", "b", "b", "q">>)
      PROVE  WalkValue(d, m)[i] = i + 4
  <2>1. /\ i \in Nat \ {0} /\ At(d, i) = "q" /\ At(d, i + 1) = "b" /\ At(d, i + 2) = "b"
        /\ At(d, i + 3) = "q"
    BY <1>3, MarksAt DEF Places
  <2>2. i + 1 \in 1..Len(d) /\ i + 2 \in 1..Len(d) /\ i + 3 \in 1..Len(d)
    BY <2>1, AtFacts DEF Mark
  <2>3. i + 1 + 1 = i + 2 /\ i + 1 + 2 = i + 3 /\ i + 3 + 1 = i + 4
    BY <2>1
  <2>4. SkipString(d, i + 1) = SkipString(d, i + 3)
    BY <2>1, <2>2, <2>3, StringGoes
  <2>5. SkipString(d, i + 3) = i + 4
    BY <2>1, <2>2, <2>3, StringGoes
  <2> QED
    BY <2>1, <2>4, <2>5, QuoteStarts
<1>4. /\ Len(<<"q", "open", "q">>) = 3 /\ Len(<<"q", "b", "q", "begin", "q">>) = 5
      /\ Len(<<"q", "b", "b", "q">>) = 4 /\ \A m \in Nat : 0 <= m
  OBVIOUS
<1> QED
  BY <1>1, <1>2, <1>3, <1>4 DEF Walks

\* A text that is a value, and begins with it.
Value == {w \in Seq(Mark) : w # <<>> /\ w[1] \in {"open", "begin", "q", "x"}}

LEMMA ScalarsWalk == \A v \in Scalar : v \in Value /\ Walks(v, 0)
<1>1. \A v \in Scalar : Walks(v, 0)
  BY XWalks, StringsWalk DEF Scalar
<1>2. <<"x">> \in Value /\ <<"q", "open", "q">> \in Value
  BY DEF Value, Mark
<1>3. <<"q", "b", "q", "begin", "q">> \in Value /\ <<"q", "b", "b", "q">> \in Value
  BY DEF Value, Mark
<1> QED
  BY <1>1, <1>2, <1>3 DEF Scalar

-----------------------------------------------------------------------------
\* An item that is nested too deeply.
LEMMA ItemFails ==
  ASSUME NEW d \in Seq(Mark), NEW item, NEW closing \in {"close", "end"}, NEW i \in Places(d),
         item[i] = Fails
  PROVE  WalkItems(d, item, closing, i) = Fails
BY ItemsGo

\* An item, and the mark after it.
LEMMA ItemEnds ==
  ASSUME NEW d \in Seq(Mark), NEW item, NEW closing \in {"close", "end"}, NEW i \in Places(d),
         item[i] \in Places(d), item[i] > i
  PROVE  /\ At(d, item[i]) = closing => WalkItems(d, item, closing, i) = item[i] + 1
         /\ At(d, item[i]) = "s" /\ At(d, item[i] + 1) = closing =>
               WalkItems(d, item, closing, i) = item[i] + 2
         /\ At(d, item[i]) = "comma" =>
               WalkItems(d, item, closing, i) = WalkItems(d, item, closing, item[i] + 1)
<1>1. PICK e : e = item[i]
  OBVIOUS
<1>2. e \in Nat /\ i \in Nat /\ e \in Places(d) /\ e > i /\ e + 1 + 1 = e + 2
  BY <1>1 DEF Places
<1>3. item[i] = e /\ item[i] # Fails
  BY <1>1, <1>2 DEF Fails
<1>4. ASSUME At(d, e) \in {closing, "comma"} PROVE e \in i..Len(d) /\ SkipWS(d, e) = e
  <2>1. At(d, e) # "s" /\ At(d, e) \in Mark
    BY <1>4 DEF Mark
  <2> QED
    BY <1>2, <2>1, AtFacts, SkipsNothing
<1>5. ASSUME At(d, e) = "s", At(d, e + 1) = closing
      PROVE  e + 1 \in i..Len(d) /\ SkipWS(d, e) = e + 1
  <2>1. At(d, e + 1) # "s" /\ At(d, e + 1) \in Mark
    BY <1>5 DEF Mark
  <2> QED
    BY <1>2, <1>5, <2>1, AtFacts, SkipsOne
<1>6. ASSUME At(d, e) = closing PROVE WalkItems(d, item, closing, i) = e + 1
  BY <1>3, <1>4, <1>6, ItemsGo
<1>7. ASSUME At(d, e) = "s", At(d, e + 1) = closing PROVE WalkItems(d, item, closing, i) = e + 2
  BY <1>2, <1>3, <1>5, <1>7, ItemsGo
<1>8. ASSUME At(d, e) = "comma"
      PROVE  WalkItems(d, item, closing, i) = WalkItems(d, item, closing, e + 1)
  BY <1>3, <1>4, <1>8, ItemsGo
<1> QED
  BY <1>1, <1>6, <1>7, <1>8

\* A value with a space before it.
LEMMA SpacedValue ==
  ASSUME NEW d \in Seq(Mark), NEW m \in Nat, NEW i \in Places(d), At(d, i) = "s", At(d, i + 1) # "s"
  PROVE  WalkValue(d, m)[i] = WalkValue(d, m)[i + 1]
<1>1. SkipWS(d, i) = i + 1 /\ i + 1 \in Places(d)
  BY SkipsOne
<1>2. SkipWS(d, i + 1) = i + 1
  BY <1>1, SkipsNothing
<1>3. ValueStep(d, WalkValue(d, m - 1), m, i) = ValueStep(d, WalkValue(d, m - 1), m, i + 1)
  BY <1>1, <1>2 DEF ValueStep
<1> QED
  BY <1>1, <1>3, ValueGoes

LEMMA MemberValue ==
  ASSUME NEW d \in Seq(Mark), NEW value, NEW i \in Places(d), Sits(d, i, Key)
  PROVE  Member(d, value, i) = value[i + 5] /\ i + 5 \in Places(d)
<1>1. /\ i \in Nat \ {0} /\ At(d, i) = "q" /\ At(d, i + 1) = "end" /\ At(d, i + 2) = "q"
      /\ At(d, i + 3) = "s" /\ At(d, i + 4) = "colon"
  BY MarksAt DEF Key, Places
<1>2. \A k \in {i, i + 1, i + 2, i + 3, i + 4} : k \in 1..Len(d) /\ k \in Places(d)
  BY <1>1, AtFacts DEF Mark, Places
<1>3. i + 1 + 1 = i + 2 /\ i + 2 + 1 = i + 3 /\ i + 3 + 1 = i + 4 /\ i + 4 + 1 = i + 5
  BY <1>1
<1>4. SkipWS(d, i) = i
  BY <1>1, SkipsNothing
<1>5. SkipString(d, i + 1) = SkipString(d, i + 2)
  BY <1>1, <1>2, <1>3, StringGoes
<1>6. SkipString(d, i + 2) = i + 3
  BY <1>1, <1>2, <1>3, StringGoes
<1>7. SkipWS(d, i + 3) = i + 4
  BY <1>1, <1>2, <1>3, SkipsOne
<1>8. i + 3 # Fails
  BY <1>1 DEF Fails
<1>9. Member(d, value, i) = value[i + 5]
  BY <1>1, <1>3, <1>4, <1>5, <1>6, <1>7, <1>8 DEF Member
<1> QED
  BY <1>1, <1>2, <1>9 DEF Places

\* What is an array or an object from place i on: with an item, or none.
LEMMA ArrayOpens ==
  ASSUME NEW d \in Seq(Mark), NEW m \in Nat, NEW i \in Places(d), At(d, i) = "open"
  PROVE  /\ m = 0 => WalkValue(d, m)[i] = Fails
         /\ m > 0 => WalkValue(d, m)[i] = WalkArray(d, WalkValue(d, m - 1), i + 1)
<1>1. SkipWS(d, i) = i
  BY SkipsNothing
<1>2. /\ m = 0 => ValueStep(d, WalkValue(d, m - 1), m, i) = Fails
      /\ m > 0 => ValueStep(d, WalkValue(d, m - 1), m, i) = WalkArray(d, WalkValue(d, m - 1), i + 1)
  BY <1>1 DEF ValueStep
<1> QED
  BY <1>2, ValueGoes

LEMMA ObjectOpens ==
  ASSUME NEW d \in Seq(Mark), NEW m \in Nat, NEW i \in Places(d), At(d, i) = "begin"
  PROVE  /\ m = 0 => WalkValue(d, m)[i] = Fails
         /\ m > 0 => WalkValue(d, m)[i] = WalkObject(d, WalkValue(d, m - 1), i + 1)
<1>1. SkipWS(d, i) = i
  BY SkipsNothing
<1>2. /\ m = 0 => ValueStep(d, WalkValue(d, m - 1), m, i) = Fails
      /\ m > 0 => ValueStep(d, WalkValue(d, m - 1), m, i) = WalkObject(d, WalkValue(d, m - 1), i + 1)
  BY <1>1 DEF ValueStep
<1> QED
  BY <1>2, ValueGoes

LEMMA ArrayIs ==
  ASSUME NEW d \in Seq(Mark), NEW value, NEW i \in Places(d)
  PROVE  /\ At(d, i) = "close" => WalkArray(d, value, i) = i + 1
         /\ At(d, i) \notin {"close", "s"} => WalkArray(d, value, i) = WalkItems(d, value, "close", i)
         /\ At(d, i) = "s" /\ At(d, i + 1) \notin {"close", "s"} =>
               WalkArray(d, value, i) = WalkItems(d, value, "close", i)
<1>1. At(d, i) # "s" => SkipWS(d, i) = i
  BY SkipsNothing
<1>2. At(d, i) = "s" /\ At(d, i + 1) # "s" => SkipWS(d, i) = i + 1
  BY SkipsOne
<1> QED
  BY <1>1, <1>2 DEF WalkArray

Members(d, value) == [k \in Places(d) |-> Member(d, value, k)]

LEMMA ObjectIs ==
  ASSUME NEW d \in Seq(Mark), NEW value, NEW i \in Places(d), At(d, i) # "s"
  PROVE  /\ At(d, i) = "end" => WalkObject(d, value, i) = i + 1
         /\ At(d, i) # "end" => WalkObject(d, value, i) = WalkItems(d, Members(d, value), "end", i)
<1>1. SkipWS(d, i) = i
  BY SkipsNothing
<1> QED
  BY <1>1 DEF WalkObject, Members

-----------------------------------------------------------------------------
(* The ways to enclose a text: what the walk over each needs.              *)

\* A value that is followed by something.
Follows(d, i, w) ==
    /\ i \in Nat \ {0} /\ w \in Value
    /\ Sits(d, i, w) /\ At(d, i + Len(w)) \in Enders

LEMMA ValueInPlace ==
  ASSUME NEW d \in Seq(Mark), NEW i, NEW w, Follows(d, i, w), NEW n \in Nat, Walks(w, n), NEW m \in Nat
  PROVE  /\ i \in Places(d) /\ At(d, i) \in {"open", "begin", "q", "x"}
         /\ Len(w) \in Nat /\ i + Len(w) \in Places(d) /\ i + Len(w) > i
         /\ WalkValue(d, m)[i] = IF n <= m THEN i + Len(w) ELSE Fails
<1>1. w \in Seq(Mark) /\ w # <<>> /\ w[1] \in {"open", "begin", "q", "x"} /\ i \in Nat \ {0}
  BY DEF Value, Follows
<1>2. Len(w) \in Nat \ {0}
  BY <1>1, EmptySeq
<1>3. i \in 1..Len(d) /\ i + Len(w) \in Places(d) /\ At(d, i) = w[1]
  BY <1>1, SitsInPlaces DEF Follows
<1>4. i \in Places(d)
  BY <1>3 DEF Places
<1> QED
  BY <1>1, <1>2, <1>3, <1>4 DEF Follows, Walks

\* An array with something in it.
LEMMA ArrayAround ==
  ASSUME NEW d \in Seq(Mark), NEW m \in Nat, NEW i \in Nat \ {0}, At(d, i) = "open",
         \/ At(d, i + 1) \notin {"close", "s"}
         \/ At(d, i + 1) = "s" /\ At(d, i + 2) \notin {"close", "s"},
         NEW n \in Nat, NEW e,
         \A k \in Nat : WalkItems(d, WalkValue(d, k), "close", i + 1) = IF n <= k THEN e ELSE Fails
  PROVE  WalkValue(d, m)[i] = IF n + 1 <= m THEN e ELSE Fails
<1>1. i \in Places(d) /\ i + 1 \in Places(d) /\ i + 1 + 1 = i + 2
  BY AtFacts DEF Mark, Places
<1>2. CASE m = 0
  <2>1. ~(n + 1 <= m)
    BY <1>2
  <2> QED
    BY <1>1, <1>2, <2>1, ArrayOpens
<1>3. CASE m # 0
  <2>1. m > 0 /\ m - 1 \in Nat /\ (n <= m - 1 <=> n + 1 <= m)
    BY <1>3
  <2>2. WalkValue(d, m)[i] = WalkArray(d, WalkValue(d, m - 1), i + 1)
    BY <1>1, <2>1, ArrayOpens
  <2>3. WalkArray(d, WalkValue(d, m - 1), i + 1) = WalkItems(d, WalkValue(d, m - 1), "close", i + 1)
    BY <1>1, ArrayIs
  <2> QED
    BY <2>1, <2>2, <2>3
<1> QED
  BY <1>2, <1>3

LEMMA ObjectAround ==
  ASSUME NEW d \in Seq(Mark), NEW m \in Nat, NEW i \in Nat \ {0}, At(d, i) = "begin",
         At(d, i + 1) \notin {"end", "s"}, NEW n \in Nat, NEW e,
         \A k \in Nat : WalkItems(d, Members(d, WalkValue(d, k)), "end", i + 1) = IF n <= k THEN e ELSE Fails
  PROVE  WalkValue(d, m)[i] = IF n + 1 <= m THEN e ELSE Fails
<1>1. i \in Places(d) /\ i + 1 \in Places(d)
  BY AtFacts DEF Mark, Places
<1>2. CASE m = 0
  <2>1. ~(n + 1 <= m)
    BY <1>2
  <2> QED
    BY <1>1, <1>2, <2>1, ObjectOpens
<1>3. CASE m # 0
  <2>1. m > 0 /\ m - 1 \in Nat /\ (n <= m - 1 <=> n + 1 <= m)
    BY <1>3
  <2>2. WalkValue(d, m)[i] = WalkObject(d, WalkValue(d, m - 1), i + 1)
    BY <1>1, <2>1, ObjectOpens
  <2>3. WalkObject(d, WalkValue(d, m - 1), i + 1) =
           WalkItems(d, Members(d, WalkValue(d, m - 1)), "end", i + 1)
    BY <1>1, ObjectIs
  <2> QED
    BY <2>1, <2>2, <2>3
<1> QED
  BY <1>2, <1>3

LEMMA SitsThree ==
  ASSUME NEW d \in Seq(Mark), NEW i \in Nat \ {0},
         NEW a \in Seq(Mark), NEW b \in Seq(Mark), NEW c \in Seq(Mark)
  PROVE  /\ a \o b \o c \in Seq(Mark) /\ Len(a \o b \o c) = Len(a) + Len(b) + Len(c)
         /\ Sits(d, i, a \o b \o c) => /\ Sits(d, i, a) /\ Sits(d, i + Len(a), b)
                                       /\ Sits(d, i + Len(a) + Len(b), c)
<1>1. a \o b \in Seq(Mark) /\ Len(a \o b) = Len(a) + Len(b)
  BY SitsJoined
<1>2. a \o b \o c \in Seq(Mark) /\ Len(a \o b \o c) = Len(a \o b) + Len(c)
  BY <1>1, SitsJoined
<1>3. i + (Len(a) + Len(b)) = i + Len(a) + Len(b)
  OBVIOUS
<1>4. Sits(d, i, a \o b \o c) => Sits(d, i, a \o b) /\ Sits(d, i + Len(a \o b), c)
  BY <1>1, SitsJoined
<1>5. Sits(d, i, a \o b) => Sits(d, i, a) /\ Sits(d, i + Len(a), b)
  BY SitsJoined
<1> QED
  BY <1>1, <1>2, <1>3, <1>4, <1>5

Open == <<"open">>
OpenSpace == <<"open", "s">>
Close == <<"close">>
SpaceClose == <<"s", "close">>
Comma == <<"comma">>
CommaSpace == <<"comma", "s">>
Begin == <<"begin">>
End == <<"end">>

LEMMA BracketsAreText ==
  /\ Open \in Seq(Mark) /\ Close \in Seq(Mark) /\ Begin \in Seq(Mark) /\ End \in Seq(Mark)
  /\ Comma \in Seq(Mark) /\ CommaSpace \in Seq(Mark) /\ OpenSpace \in Seq(Mark)
  /\ SpaceClose \in Seq(Mark) /\ Key \in Seq(Mark)
BY DEF Mark, Key, Open, OpenSpace, Close, SpaceClose, Comma, CommaSpace, Begin, End

LEMMA Brackets ==
  /\ Open \in Seq(Mark) /\ Len(Open) = 1 /\ Close \in Seq(Mark) /\ Len(Close) = 1
  /\ Begin \in Seq(Mark) /\ Len(Begin) = 1 /\ End \in Seq(Mark) /\ Len(End) = 1
  /\ Comma \in Seq(Mark) /\ Len(Comma) = 1 /\ CommaSpace \in Seq(Mark) /\ Len(CommaSpace) = 2
  /\ OpenSpace \in Seq(Mark) /\ Len(OpenSpace) = 2 /\ SpaceClose \in Seq(Mark) /\ Len(SpaceClose) = 2
  /\ Key \in Seq(Mark) /\ Len(Key) = 5
BY DEF Mark, Key, Open, OpenSpace, Close, SpaceClose, Comma, CommaSpace, Begin, End

LEMMA AloneInArray ==
  ASSUME NEW w \in Value, NEW n \in Nat, Walks(w, n)
  PROVE  Walks(Open \o w \o Close, n + 1)
<1> DEFINE W == Open \o w \o Close
<1> SUFFICES ASSUME NEW d \in Seq(Mark), NEW m \in Nat, NEW i \in Places(d), Sits(d, i, W)
             PROVE  WalkValue(d, m)[i] = IF n + 1 <= m THEN i + Len(W) ELSE Fails
  BY DEF Walks
<1> DEFINE e == i + 1 + Len(w)
<1>1. i \in Nat \ {0} /\ w \in Seq(Mark) /\ Len(w) \in Nat
  BY DEF Places, Value
<1>2. Len(W) = 1 + Len(w) + 1 /\ Sits(d, i, Open) /\ Sits(d, i + 1, w) /\ Sits(d, e, Close)
  <2>1. /\ W \in Seq(Mark) /\ Len(W) = Len(Open) + Len(w) + Len(Close)
        /\ Sits(d, i, W) => /\ Sits(d, i, Open) /\ Sits(d, i + Len(Open), w)
                            /\ Sits(d, i + Len(Open) + Len(w), Close)
    BY <1>1, SitsThree, BracketsAreText, Zenon
  <2> HIDE DEF W
  <2> QED
    BY <2>1, Brackets
<1>3. At(d, i) = "open" /\ At(d, e) = "close"
  <2>1. e \in Nat \ {0}
    BY <1>1
  <2> QED
    BY <1>1, <1>2, <2>1, MarksAt DEF Open, OpenSpace, Close, SpaceClose, Comma, CommaSpace, Begin, End
<1>4. Follows(d, i + 1, w)
  BY <1>1, <1>2, <1>3 DEF Follows, Enders
<1>5. ASSUME NEW k \in Nat
      PROVE  WalkItems(d, WalkValue(d, k), "close", i + 1) = IF n <= k THEN e + 1 ELSE Fails
  <2>1. /\ i + 1 \in Places(d) /\ e \in Places(d) /\ e > i + 1
        /\ WalkValue(d, k)[i + 1] = IF n <= k THEN e ELSE Fails
    BY <1>4, ValueInPlace
  <2> HIDE DEF e
  <2> QED
    BY <1>3, <2>1, ItemFails, ItemEnds
<1>6. At(d, i + 1) \notin {"close", "s"}
  BY <1>4, ValueInPlace
<1>7. e + 1 = i + Len(W)
  BY <1>1, <1>2
<1> HIDE DEF e, W
<1>8. WalkValue(d, m)[i] = IF n + 1 <= m THEN e + 1 ELSE Fails
  BY <1>1, <1>3, <1>5, <1>6, ArrayAround
<1> QED
  BY <1>7, <1>8

LEMMA SpacedInArray ==
  ASSUME NEW w \in Value, NEW n \in Nat, Walks(w, n)
  PROVE  Walks(OpenSpace \o w \o SpaceClose, n + 1)
<1> DEFINE W == OpenSpace \o w \o SpaceClose
<1> SUFFICES ASSUME NEW d \in Seq(Mark), NEW m \in Nat, NEW i \in Places(d), Sits(d, i, W)
             PROVE  WalkValue(d, m)[i] = IF n + 1 <= m THEN i + Len(W) ELSE Fails
  BY DEF Walks
<1> DEFINE e == i + 2 + Len(w)
<1>1. i \in Nat \ {0} /\ w \in Seq(Mark) /\ Len(w) \in Nat
  BY DEF Places, Value
<1>2. /\ Len(W) = 2 + Len(w) + 2 /\ Sits(d, i, OpenSpace) /\ Sits(d, i + 2, w)
      /\ Sits(d, e, SpaceClose)
  <2>1. /\ W \in Seq(Mark) /\ Len(W) = Len(OpenSpace) + Len(w) + Len(SpaceClose)
        /\ Sits(d, i, W) => /\ Sits(d, i, OpenSpace) /\ Sits(d, i + Len(OpenSpace), w)
                            /\ Sits(d, i + Len(OpenSpace) + Len(w), SpaceClose)
    BY <1>1, SitsThree, BracketsAreText, Zenon
  <2> HIDE DEF W
  <2> QED
    BY <2>1, Brackets
<1>3. At(d, i) = "open" /\ At(d, i + 1) = "s" /\ At(d, e) = "s" /\ At(d, e + 1) = "close"
  <2>1. e \in Nat \ {0}
    BY <1>1
  <2> QED
    BY <1>1, <1>2, <2>1, MarksAt DEF Open, OpenSpace, Close, SpaceClose, Comma, CommaSpace, Begin, End
<1>4. Follows(d, i + 2, w)
  BY <1>1, <1>2, <1>3 DEF Follows, Enders
<1>5. At(d, i + 2) \notin {"close", "s"} /\ i + 1 \in Places(d) /\ i + 1 + 1 = i + 2
  <2>1. At(d, i + 2) \notin {"close", "s"}
    BY <1>4, ValueInPlace
  <2>2. i + 1 \in Places(d)
    BY <1>3, AtFacts DEF Mark, Places
  <2> QED
    BY <1>1, <2>1, <2>2
<1>6. ASSUME NEW k \in Nat
      PROVE  WalkItems(d, WalkValue(d, k), "close", i + 1) = IF n <= k THEN e + 2 ELSE Fails
  <2>1. WalkValue(d, k)[i + 1] = WalkValue(d, k)[i + 2]
    BY <1>3, <1>5, SpacedValue
  <2>2. WalkValue(d, k)[i + 1] = (IF n <= k THEN e ELSE Fails) /\ e \in Places(d)
    BY <1>4, <2>1, ValueInPlace
  <2>3. e > i + 1
    BY <1>1
  <2> HIDE DEF e
  <2> QED
    BY <1>3, <1>5, <2>2, <2>3, ItemFails, ItemEnds
<1>7. e + 2 = i + Len(W)
  BY <1>1, <1>2
<1> HIDE DEF e, W
<1>8. WalkValue(d, m)[i] = IF n + 1 <= m THEN e + 2 ELSE Fails
  BY <1>1, <1>3, <1>5, <1>6, ArrayAround
<1> QED
  BY <1>7, <1>8

LEMMA SecondInArray ==
  ASSUME NEW w \in Value, NEW n \in Nat, Walks(w, n), NEW v \in Value, Walks(v, 0)
  PROVE  Walks(Open \o v \o CommaSpace \o w \o Close, n + 1)
<1> DEFINE W == Open \o v \o CommaSpace \o w \o Close
<1> SUFFICES ASSUME NEW d \in Seq(Mark), NEW m \in Nat, NEW i \in Places(d), Sits(d, i, W)
             PROVE  WalkValue(d, m)[i] = IF n + 1 <= m THEN i + Len(W) ELSE Fails
  BY DEF Walks
<1> DEFINE c == i + 1 + Len(v)
           e == c + 2 + Len(w)
<1>1. /\ i \in Nat \ {0} /\ w \in Seq(Mark) /\ Len(w) \in Nat /\ v \in Seq(Mark) /\ Len(v) \in Nat
      /\ c \in Nat \ {0} /\ e \in Nat \ {0}
  BY DEF Places, Value
<1>2. /\ Len(W) = 1 + Len(v) + 2 + Len(w) + 1
      /\ Sits(d, i, Open) /\ Sits(d, i + 1, v) /\ Sits(d, c, CommaSpace)
      /\ Sits(d, c + 2, w) /\ Sits(d, e, Close)
  <2> DEFINE U == Open \o v \o CommaSpace
  <2>1. i \in Nat \ {0} /\ v \in Seq(Mark)
    BY <1>1
  <2>2. /\ U \in Seq(Mark) /\ Len(U) = Len(Open) + Len(v) + Len(CommaSpace)
        /\ Sits(d, i, U) => /\ Sits(d, i, Open) /\ Sits(d, i + Len(Open), v)
                            /\ Sits(d, i + Len(Open) + Len(v), CommaSpace)
    BY <2>1, SitsThree, BracketsAreText, Zenon
  <2>3. U \in Seq(Mark) /\ Len(U) = 1 + Len(v) + 2
    BY <1>1, <2>2, Brackets
  <2>4. Sits(d, i, U) => /\ Sits(d, i, Open) /\ Sits(d, i + 1, v) /\ Sits(d, c, CommaSpace)
    BY <2>2, Brackets
  <2>5. i + Len(U) = c + 2 /\ c + 2 + Len(w) = e
    BY <1>1, <2>3
  <2> HIDE DEF U, c, e
  <2>6. W = U \o w \o Close
    BY DEF U
  <2>7. /\ (U \o w \o Close) \in Seq(Mark) /\ Len((U \o w \o Close)) = Len(U) + Len(w) + Len(Close)
        /\ Sits(d, i, (U \o w \o Close)) => /\ Sits(d, i, U) /\ Sits(d, i + Len(U), w)
                            /\ Sits(d, i + Len(U) + Len(w), Close)
    BY <1>1, <2>3, SitsThree, BracketsAreText, Zenon
  <2>8. Sits(d, i, U \o w \o Close)
    BY <2>6, Zenon DEF W
  <2>9. /\ Len(W) = Len(U) + Len(w) + Len(Close) /\ Sits(d, i, U) /\ Sits(d, i + Len(U), w)
        /\ Sits(d, i + Len(U) + Len(w), Close)
    BY <2>6, <2>7, <2>8, Zenon
  <2> QED
    BY <2>3, <2>4, <2>5, <2>9, Brackets
<1>3. At(d, i) = "open" /\ At(d, c) = "comma" /\ At(d, c + 1) = "s" /\ At(d, e) = "close"
  BY <1>1, <1>2, MarksAt DEF Open, OpenSpace, Close, SpaceClose, Comma, CommaSpace, Begin, End
<1>4. Follows(d, i + 1, v) /\ Follows(d, c + 2, w)
  BY <1>1, <1>2, <1>3 DEF Follows, Enders
<1>5. /\ At(d, i + 1) \notin {"close", "s"} /\ At(d, c + 2) \notin {"close", "s"}
      /\ c + 1 \in Places(d) /\ c + 1 + 1 = c + 2
  <2>1. At(d, i + 1) \notin {"close", "s"} /\ At(d, c + 2) \notin {"close", "s"}
    BY <1>4, ValueInPlace
  <2> HIDE DEF c
  <2>2. c + 1 \in Places(d)
    BY <1>3, AtFacts DEF Mark, Places
  <2> QED
    BY <1>1, <2>1, <2>2
<1>6. ASSUME NEW k \in Nat
      PROVE  WalkItems(d, WalkValue(d, k), "close", i + 1) = IF n <= k THEN e + 1 ELSE Fails
  <2>1. WalkValue(d, k)[c + 1] = WalkValue(d, k)[c + 2]
    BY <1>3, <1>5, SpacedValue
  <2>2. WalkValue(d, k)[c + 1] = (IF n <= k THEN e ELSE Fails) /\ e \in Places(d)
    BY <1>4, <2>1, ValueInPlace
  <2>3. e > c + 1
    BY <1>1
  <2>4. /\ i + 1 \in Places(d) /\ c \in Places(d) /\ c > i + 1 /\ 0 <= k
        /\ WalkValue(d, k)[i + 1] = IF 0 <= k THEN c ELSE Fails
    BY <1>4, ValueInPlace
  <2> HIDE DEF c, e
  <2>5. WalkItems(d, WalkValue(d, k), "close", i + 1) = WalkItems(d, WalkValue(d, k), "close", c + 1)
    BY <1>3, <2>4, ItemFails, ItemEnds
  <2>6. WalkItems(d, WalkValue(d, k), "close", c + 1) = IF n <= k THEN e + 1 ELSE Fails
    BY <1>3, <1>5, <2>2, <2>3, ItemFails, ItemEnds
  <2> QED
    BY <2>5, <2>6
<1>7. e + 1 = i + Len(W)
  BY <1>1, <1>2
<1> HIDE DEF c, e, W
<1>8. WalkValue(d, m)[i] = IF n + 1 <= m THEN e + 1 ELSE Fails
  BY <1>1, <1>3, <1>5, <1>6, ArrayAround
<1> QED
  BY <1>7, <1>8

LEMMA FirstInArray ==
  ASSUME NEW w \in Value, NEW n \in Nat, Walks(w, n), NEW v \in Value, Walks(v, 0)
  PROVE  Walks(Open \o w \o Comma \o v \o Close, n + 1)
<1> DEFINE W == Open \o w \o Comma \o v \o Close
<1> SUFFICES ASSUME NEW d \in Seq(Mark), NEW m \in Nat, NEW i \in Places(d), Sits(d, i, W)
             PROVE  WalkValue(d, m)[i] = IF n + 1 <= m THEN i + Len(W) ELSE Fails
  BY DEF Walks
<1> DEFINE c == i + 1 + Len(w)
           e == c + 1 + Len(v)
<1>1. /\ i \in Nat \ {0} /\ w \in Seq(Mark) /\ Len(w) \in Nat /\ v \in Seq(Mark) /\ Len(v) \in Nat
      /\ c \in Nat \ {0} /\ e \in Nat \ {0}
  BY DEF Places, Value
<1>2. /\ Len(W) = 1 + Len(w) + 1 + Len(v) + 1
      /\ Sits(d, i, Open) /\ Sits(d, i + 1, w) /\ Sits(d, c, Comma)
      /\ Sits(d, c + 1, v) /\ Sits(d, e, Close)
  <2> DEFINE U == Open \o w \o Comma
  <2>1. i \in Nat \ {0} /\ w \in Seq(Mark)
    BY <1>1
  <2>2. /\ U \in Seq(Mark) /\ Len(U) = Len(Open) + Len(w) + Len(Comma)
        /\ Sits(d, i, U) => /\ Sits(d, i, Open) /\ Sits(d, i + Len(Open), w)
                            /\ Sits(d, i + Len(Open) + Len(w), Comma)
    BY <2>1, SitsThree, BracketsAreText, Zenon
  <2>3. U \in Seq(Mark) /\ Len(U) = 1 + Len(w) + 1
    BY <1>1, <2>2, Brackets
  <2>4. Sits(d, i, U) => /\ Sits(d, i, Open) /\ Sits(d, i + 1, w) /\ Sits(d, c, Comma)
    BY <2>2, Brackets
  <2>5. i + Len(U) = c + 1 /\ c + 1 + Len(v) = e
    BY <1>1, <2>3
  <2> HIDE DEF U, c, e
  <2>6. W = U \o v \o Close
    BY DEF U
  <2>7. /\ (U \o v \o Close) \in Seq(Mark) /\ Len((U \o v \o Close)) = Len(U) + Len(v) + Len(Close)
        /\ Sits(d, i, (U \o v \o Close)) => /\ Sits(d, i, U) /\ Sits(d, i + Len(U), v)
                            /\ Sits(d, i + Len(U) + Len(v), Close)
    BY <1>1, <2>3, SitsThree, BracketsAreText, Zenon
  <2>8. Sits(d, i, U \o v \o Close)
    BY <2>6, Zenon DEF W
  <2>9. /\ Len(W) = Len(U) + Len(v) + Len(Close) /\ Sits(d, i, U) /\ Sits(d, i + Len(U), v)
        /\ Sits(d, i + Len(U) + Len(v), Close)
    BY <2>6, <2>7, <2>8, Zenon
  <2> QED
    BY <2>3, <2>4, <2>5, <2>9, Brackets
<1>3. At(d, i) = "open" /\ At(d, c) = "comma" /\ At(d, e) = "close"
  BY <1>1, <1>2, MarksAt DEF Open, OpenSpace, Close, SpaceClose, Comma, CommaSpace, Begin, End
<1>4. Follows(d, i + 1, w) /\ Follows(d, c + 1, v)
  BY <1>1, <1>2, <1>3 DEF Follows, Enders
<1>5. At(d, i + 1) \notin {"close", "s"}
  BY <1>4, ValueInPlace
<1>6. ASSUME NEW k \in Nat
      PROVE  WalkItems(d, WalkValue(d, k), "close", i + 1) = IF n <= k THEN e + 1 ELSE Fails
  <2>1. /\ i + 1 \in Places(d) /\ c \in Places(d) /\ c > i + 1
        /\ WalkValue(d, k)[i + 1] = IF n <= k THEN c ELSE Fails
    BY <1>4, ValueInPlace
  <2>2. /\ c + 1 \in Places(d) /\ e \in Places(d) /\ e > c + 1 /\ 0 <= k
        /\ WalkValue(d, k)[c + 1] = IF 0 <= k THEN e ELSE Fails
    BY <1>4, ValueInPlace
  <2> HIDE DEF c, e
  <2>3. WalkItems(d, WalkValue(d, k), "close", i + 1) =
           IF n <= k THEN WalkItems(d, WalkValue(d, k), "close", c + 1) ELSE Fails
    BY <1>3, <2>1, ItemFails, ItemEnds
  <2>4. WalkItems(d, WalkValue(d, k), "close", c + 1) = e + 1
    BY <1>3, <2>2, ItemFails, ItemEnds
  <2> QED
    BY <2>3, <2>4
<1>7. e + 1 = i + Len(W)
  BY <1>1, <1>2
<1> HIDE DEF c, e, W
<1>8. WalkValue(d, m)[i] = IF n + 1 <= m THEN e + 1 ELSE Fails
  BY <1>1, <1>3, <1>5, <1>6, ArrayAround
<1> QED
  BY <1>7, <1>8

LEMMA MemberInPlace ==
  ASSUME NEW d \in Seq(Mark), NEW i \in Nat \ {0}, Sits(d, i, Key),
         NEW w, Follows(d, i + 5, w), NEW n \in Nat, Walks(w, n), NEW m \in Nat
  PROVE  /\ i \in Places(d) /\ At(d, i) = "q"
         /\ Len(w) \in Nat /\ i + 5 + Len(w) \in Places(d) /\ i + 5 + Len(w) > i
         /\ Members(d, WalkValue(d, m))[i] = IF n <= m THEN i + 5 + Len(w) ELSE Fails
<1>1. At(d, i) = "q" /\ i \in Places(d)
  <2>1. At(d, i) = "q"
    BY MarksAt DEF Key
  <2> QED
    BY <2>1, AtFacts DEF Mark, Places
<1>2. Members(d, WalkValue(d, m))[i] = WalkValue(d, m)[i + 5]
  BY <1>1, MemberValue DEF Members
<1>3. /\ Len(w) \in Nat /\ i + 5 + Len(w) \in Places(d) /\ i + 5 + Len(w) > i + 5
      /\ WalkValue(d, m)[i + 5] = IF n <= m THEN i + 5 + Len(w) ELSE Fails
  BY ValueInPlace
<1>4. i + 5 + Len(w) > i
  BY <1>3
<1> QED
  BY <1>1, <1>2, <1>3, <1>4

LEMMA AloneInObject ==
  ASSUME NEW w \in Value, NEW n \in Nat, Walks(w, n)
  PROVE  Walks(Begin \o Key \o w \o End, n + 1)
<1> DEFINE W == Begin \o Key \o w \o End
<1> SUFFICES ASSUME NEW d \in Seq(Mark), NEW m \in Nat, NEW i \in Places(d), Sits(d, i, W)
             PROVE  WalkValue(d, m)[i] = IF n + 1 <= m THEN i + Len(W) ELSE Fails
  BY DEF Walks
<1> DEFINE e == i + 1 + 5 + Len(w)
<1>1. i \in Nat \ {0} /\ w \in Seq(Mark) /\ Len(w) \in Nat /\ e \in Nat \ {0}
  BY DEF Places, Value
<1>2. /\ Len(W) = 1 + 5 + Len(w) + 1 /\ Sits(d, i, Begin) /\ Sits(d, i + 1, Key)
      /\ Sits(d, i + 1 + 5, w) /\ Sits(d, e, End)
  <2> DEFINE U == Begin \o Key
  <2>1. /\ U \in Seq(Mark) /\ Len(U) = Len(Begin) + Len(Key)
        /\ Sits(d, i, U) => Sits(d, i, Begin) /\ Sits(d, i + Len(Begin), Key)
    BY <1>1, SitsJoined, BracketsAreText, Zenon
  <2>2. /\ U \in Seq(Mark) /\ Len(U) = 1 + 5
        /\ Sits(d, i, U) => Sits(d, i, Begin) /\ Sits(d, i + 1, Key)
    BY <2>1, Brackets
  <2>3. i + Len(U) = i + 1 + 5
    BY <1>1, <2>2
  <2> HIDE DEF U
  <2>4. W = U \o w \o End
    BY DEF U
  <2>5. /\ (U \o w \o End) \in Seq(Mark) /\ Len((U \o w \o End)) = Len(U) + Len(w) + Len(End)
        /\ Sits(d, i, (U \o w \o End)) => /\ Sits(d, i, U) /\ Sits(d, i + Len(U), w)
                            /\ Sits(d, i + Len(U) + Len(w), End)
    BY <1>1, <2>2, SitsThree, BracketsAreText, Zenon
  <2>6. Sits(d, i, U \o w \o End)
    BY <2>4, Zenon DEF W
  <2>7. /\ Len(W) = Len(U) + Len(w) + Len(End) /\ Sits(d, i, U) /\ Sits(d, i + Len(U), w)
        /\ Sits(d, i + Len(U) + Len(w), End)
    BY <2>4, <2>5, <2>6, Zenon
  <2> QED
    BY <2>2, <2>3, <2>7, Brackets
<1>3. At(d, i) = "begin" /\ At(d, e) = "end"
  BY <1>1, <1>2, MarksAt DEF Open, OpenSpace, Close, SpaceClose, Comma, CommaSpace, Begin, End
<1>4. Follows(d, i + 1 + 5, w)
  BY <1>1, <1>2, <1>3 DEF Follows, Enders
<1>5. ASSUME NEW k \in Nat
      PROVE  /\ WalkItems(d, Members(d, WalkValue(d, k)), "end", i + 1) = IF n <= k THEN e + 1 ELSE Fails
             /\ At(d, i + 1) = "q"
  <2>1. /\ i + 1 \in Places(d) /\ At(d, i + 1) = "q" /\ e \in Places(d) /\ e > i + 1
        /\ Members(d, WalkValue(d, k))[i + 1] = IF n <= k THEN e ELSE Fails
    BY <1>1, <1>2, <1>4, MemberInPlace
  <2> HIDE DEF e
  <2> QED
    BY <1>3, <2>1, ItemFails, ItemEnds
<1>6. e + 1 = i + Len(W)
  BY <1>1, <1>2
<1> HIDE DEF e, W
<1>7. WalkValue(d, m)[i] = IF n + 1 <= m THEN e + 1 ELSE Fails
  BY <1>1, <1>3, <1>5, ObjectAround
<1> QED
  BY <1>6, <1>7

LEMMA SecondInObject ==
  ASSUME NEW w \in Value, NEW n \in Nat, Walks(w, n), NEW v \in Value, Walks(v, 0)
  PROVE  Walks(Begin \o Key \o v \o Comma \o Key \o w \o End, n + 1)
<1> DEFINE W == Begin \o Key \o v \o Comma \o Key \o w \o End
<1> SUFFICES ASSUME NEW d \in Seq(Mark), NEW m \in Nat, NEW i \in Places(d), Sits(d, i, W)
             PROVE  WalkValue(d, m)[i] = IF n + 1 <= m THEN i + Len(W) ELSE Fails
  BY DEF Walks
<1> DEFINE c == i + 1 + 5 + Len(v)
           e == c + 1 + 5 + Len(w)
<1>1. /\ i \in Nat \ {0} /\ w \in Seq(Mark) /\ Len(w) \in Nat /\ v \in Seq(Mark) /\ Len(v) \in Nat
      /\ c \in Nat \ {0} /\ e \in Nat \ {0}
  BY DEF Places, Value
<1>2. /\ Len(W) = 1 + 5 + Len(v) + 1 + 5 + Len(w) + 1
      /\ Sits(d, i, Begin) /\ Sits(d, i + 1, Key) /\ Sits(d, i + 1 + 5, v) /\ Sits(d, c, Comma)
      /\ Sits(d, c + 1, Key) /\ Sits(d, c + 1 + 5, w) /\ Sits(d, e, End)
  <2> DEFINE U == Begin \o Key
             X == U \o v \o Comma
             Y == X \o Key \o w
  <2>1. /\ U \in Seq(Mark) /\ Len(U) = Len(Begin) + Len(Key)
        /\ Sits(d, i, U) => Sits(d, i, Begin) /\ Sits(d, i + Len(Begin), Key)
    BY <1>1, SitsJoined, BracketsAreText, Zenon
  <2>2. /\ U \in Seq(Mark) /\ Len(U) = 1 + 5
        /\ Sits(d, i, U) => Sits(d, i, Begin) /\ Sits(d, i + 1, Key)
    BY <2>1, Brackets
  <2>3. i + Len(U) = i + 1 + 5
    BY <1>1, <2>2
  <2>4. W = Y \o End
    OBVIOUS
  <2> HIDE DEF U, W, c, e
  <2>5. /\ X \in Seq(Mark) /\ Len(X) = Len(U) + Len(v) + Len(Comma)
        /\ Sits(d, i, X) => /\ Sits(d, i, U) /\ Sits(d, i + Len(U), v)
                            /\ Sits(d, i + Len(U) + Len(v), Comma)
    BY <1>1, <2>2, SitsThree, BracketsAreText, Zenon
  <2> HIDE DEF X
  <2>6. /\ Y \in Seq(Mark) /\ Len(Y) = Len(X) + Len(Key) + Len(w)
        /\ Sits(d, i, Y) => /\ Sits(d, i, X) /\ Sits(d, i + Len(X), Key)
                            /\ Sits(d, i + Len(X) + Len(Key), w)
    BY <1>1, <2>5, SitsThree, BracketsAreText, Zenon
  <2> HIDE DEF Y
  <2>7. /\ Len(W) = Len(Y) + Len(End) /\ Sits(d, i, Y)
        /\ Sits(d, i + Len(Y), End)
    BY <1>1, <2>6, <2>4, SitsJoined, BracketsAreText, Zenon
  <2>8. i + Len(U) + Len(v) = c /\ i + Len(X) = c + 1
    BY <1>1, <2>3, <2>2, <2>5, Brackets DEF c
  <2>9. i + Len(X) + Len(Key) = c + 1 + 5
    BY <1>1, <2>8, Brackets
  <2>10. i + Len(Y) = e
    <3>1. Len(X) \in Nat /\ Len(Y) = Len(X) + 5 + Len(w)
      BY <2>5, <2>6, Brackets
    <3>2. i + Len(Y) = i + Len(X) + 5 + Len(w)
      BY <1>1, <3>1
    <3> QED
      BY <2>8, <3>2 DEF e
  <2>11. Len(W) = 1 + 5 + Len(v) + 1 + 5 + Len(w) + 1
    BY <1>1, <2>2, <2>5, <2>6, <2>7, Brackets
  <2> QED
    BY <2>2, <2>3, <2>5, <2>6, <2>7, <2>8, <2>9, <2>11, <2>10
<1>3. At(d, i) = "begin" /\ At(d, c) = "comma" /\ At(d, e) = "end"
  BY <1>1, <1>2, MarksAt DEF Open, OpenSpace, Close, SpaceClose, Comma, CommaSpace, Begin, End
<1>4. Follows(d, i + 1 + 5, v) /\ Follows(d, c + 1 + 5, w)
  BY <1>1, <1>2, <1>3 DEF Follows, Enders
<1>5. ASSUME NEW k \in Nat
      PROVE  /\ WalkItems(d, Members(d, WalkValue(d, k)), "end", i + 1) = IF n <= k THEN e + 1 ELSE Fails
             /\ At(d, i + 1) = "q"
  <2>1. /\ i + 1 \in Places(d) /\ At(d, i + 1) = "q" /\ c \in Places(d) /\ c > i + 1
        /\ Members(d, WalkValue(d, k))[i + 1] = IF 0 <= k THEN c ELSE Fails
    BY <1>1, <1>2, <1>4, MemberInPlace
  <2>2. /\ c + 1 \in Places(d) /\ e \in Places(d) /\ e > c + 1 /\ 0 <= k
        /\ Members(d, WalkValue(d, k))[c + 1] = IF n <= k THEN e ELSE Fails
    BY <1>1, <1>2, <1>4, MemberInPlace
  <2> HIDE DEF c, e
  <2> DEFINE item == Members(d, WalkValue(d, k))
  <2> HIDE DEF item
  <2>3. WalkItems(d, item, "end", i + 1) = WalkItems(d, item, "end", c + 1)
    BY <1>3, <2>1, <2>2, ItemFails, ItemEnds DEF item
  <2>4. WalkItems(d, item, "end", c + 1) = IF n <= k THEN e + 1 ELSE Fails
    BY <1>3, <2>2, ItemFails, ItemEnds DEF item
  <2> QED
    BY <2>1, <2>3, <2>4 DEF item
<1>6. e + 1 = i + Len(W)
  BY <1>1, <1>2
<1> HIDE DEF c, e, W
<1>7. WalkValue(d, m)[i] = IF n + 1 <= m THEN e + 1 ELSE Fails
  BY <1>1, <1>3, <1>5, ObjectAround
<1> QED
  BY <1>6, <1>7

LEMMA AfterEmpties ==
  ASSUME NEW w \in Value, NEW n \in Nat, n > 0, Walks(w, n)
  PROVE  Walks(Empties \o w \o Close, n + 1)
<1> DEFINE W == Empties \o w \o Close
<1> SUFFICES ASSUME NEW d \in Seq(Mark), NEW m \in Nat, NEW i \in Places(d), Sits(d, i, W)
             PROVE  WalkValue(d, m)[i] = IF n + 1 <= m THEN i + Len(W) ELSE Fails
  BY DEF Walks
<1> DEFINE e == i + 7 + Len(w)
<1>1. i \in Nat \ {0} /\ w \in Seq(Mark) /\ Len(w) \in Nat /\ e \in Nat \ {0}
  BY DEF Places, Value
<1>2. /\ Len(W) = 7 + Len(w) + 1 /\ Sits(d, i, Empties) /\ Sits(d, i + 7, w) /\ Sits(d, e, Close)
  <2>1. Empties \in Seq(Mark) /\ Len(Empties) = 7
    BY DEF Empties, Mark
  <2>2. /\ W \in Seq(Mark) /\ Len(W) = Len(Empties) + Len(w) + Len(Close)
        /\ Sits(d, i, W) => /\ Sits(d, i, Empties) /\ Sits(d, i + Len(Empties), w)
                            /\ Sits(d, i + Len(Empties) + Len(w), Close)
    BY <1>1, <2>1, SitsThree, BracketsAreText, Zenon
  <2> HIDE DEF W
  <2> QED
    BY <2>1, <2>2, Brackets
<1>3. /\ At(d, i) = "open" /\ At(d, i + 1) = "begin" /\ At(d, i + 2) = "end" /\ At(d, i + 3) = "comma"
      /\ At(d, i + 4) = "open" /\ At(d, i + 5) = "close" /\ At(d, i + 6) = "comma" /\ At(d, e) = "close"
  <2>1. \A k \in 1..7 : At(d, i + k - 1) = Empties[k]
    BY <1>2 DEF Sits, Empties
  <2>2. /\ i + 1 - 1 = i /\ i + 2 - 1 = i + 1 /\ i + 3 - 1 = i + 2 /\ i + 4 - 1 = i + 3
        /\ i + 5 - 1 = i + 4 /\ i + 6 - 1 = i + 5 /\ i + 7 - 1 = i + 6
    BY <1>1
  <2>3. At(d, e) = "close"
    BY <1>1, <1>2, MarksAt DEF Open, OpenSpace, Close, SpaceClose, Comma, CommaSpace, Begin, End
  <2> QED
    BY <2>1, <2>2, <2>3 DEF Empties
<1>4. Follows(d, i + 7, w)
  BY <1>1, <1>2, <1>3 DEF Follows, Enders
<1>5. /\ \A p \in {i + 1, i + 2, i + 3, i + 4, i + 5, i + 6} : p \in Places(d)
      /\ i + 1 + 1 = i + 2 /\ i + 2 + 1 = i + 3 /\ i + 3 + 1 = i + 4 /\ i + 4 + 1 = i + 5
      /\ i + 5 + 1 = i + 6 /\ i + 6 + 1 = i + 7
  BY <1>1, <1>3, AtFacts DEF Mark, Places
<1>6. ASSUME NEW k \in Nat
      PROVE  WalkItems(d, WalkValue(d, k), "close", i + 1) = IF n <= k THEN e + 1 ELSE Fails
  <2> DEFINE value == WalkValue(d, k)
  <2>1. value[i + 1] = IF 1 <= k THEN i + 3 ELSE Fails
    <3>1. k > 0 => WalkObject(d, WalkValue(d, k - 1), i + 2) = i + 3
      BY <1>3, <1>5, ObjectIs
    <3> QED
      BY <1>3, <1>5, <3>1, ObjectOpens
  <2>2. value[i + 4] = IF 1 <= k THEN i + 6 ELSE Fails
    <3>1. k > 0 => WalkArray(d, WalkValue(d, k - 1), i + 5) = i + 6
      BY <1>3, <1>5, ArrayIs
    <3> QED
      BY <1>3, <1>5, <3>1, ArrayOpens
  <2>3. /\ i + 7 \in Places(d) /\ e \in Places(d) /\ e > i + 7
        /\ value[i + 7] = IF n <= k THEN e ELSE Fails
    BY <1>4, ValueInPlace
  <2> HIDE DEF e, value
  <2>4. WalkItems(d, value, "close", i + 1) = IF 1 <= k THEN WalkItems(d, value, "close", i + 4) ELSE Fails
    <3>1. i + 3 > i + 1
      BY <1>1
    <3> QED
      BY <1>3, <1>5, <2>1, <3>1, ItemFails, ItemEnds
  <2>5. WalkItems(d, value, "close", i + 4) = IF 1 <= k THEN WalkItems(d, value, "close", i + 7) ELSE Fails
    <3>1. i + 6 > i + 4
      BY <1>1
    <3> QED
      BY <1>3, <1>5, <2>2, <3>1, ItemFails, ItemEnds
  <2>6. WalkItems(d, value, "close", i + 7) = IF n <= k THEN e + 1 ELSE Fails
    BY <1>3, <2>3, ItemFails, ItemEnds
  <2>7. n <= k => 1 <= k
    OBVIOUS
  <2> QED
    BY <2>4, <2>5, <2>6, <2>7 DEF value
<1>7. e + 1 = i + Len(W)
  BY <1>1, <1>2
<1> HIDE DEF e, W
<1>8. WalkValue(d, m)[i] = IF n + 1 <= m THEN e + 1 ELSE Fails
  BY <1>1, <1>3, <1>6, ArrayAround
<1> QED
  BY <1>7, <1>8

DepthInv ==
    /\ data \in Value /\ nested \in Nat
    /\ Walks(data, nested)
    /\ nested = 0 <=> data[1] \in {"q", "x"}

\* A text with a bracket in front of another.
LEMMA Enclosed ==
  ASSUME NEW u \in Seq(Mark), u # <<>>, u[1] \in {"open", "begin"}, NEW w \in Seq(Mark)
  PROVE  u \o w \in Value /\ (u \o w)[1] \in {"open", "begin"}
<1>1. Len(u) \in Nat \ {0} /\ Len(w) \in Nat
  BY EmptySeq
<1>2. u \o w \in Seq(Mark) /\ Len(u \o w) = Len(u) + Len(w) /\ (u \o w)[1] = u[1]
  BY <1>1
<1>3. u \o w # <<>>
  BY <1>1, <1>2
<1> QED
  BY <1>2, <1>3 DEF Value

\* What is put around a text begins with a bracket.
LEMMA Around ==
  ASSUME NEW u \in Seq(Mark), u # <<>>, u[1] \in {"open", "begin"},
         NEW w \in Seq(Mark), NEW v \in Seq(Mark)
  PROVE  u \o w \o v \in Value /\ (u \o w \o v)[1] \in {"open", "begin"}
<1>1. u \o w \in Seq(Mark) /\ u \o w # <<>> /\ (u \o w)[1] \in {"open", "begin"}
  BY Enclosed DEF Value
<1> QED
  BY <1>1, Enclosed

LEMMA EncloseKeeps == ASSUME DepthInv, Enclose PROVE DepthInv'
<1>1. PICK w : w = data
  OBVIOUS
<1>2. PICK n : n = nested
  OBVIOUS
<1>3. w \in Value /\ w \in Seq(Mark) /\ n \in Nat /\ Walks(w, n) /\ nested' = n + 1
  BY <1>1, <1>2 DEF DepthInv, Value, Enclose
<1>4. \A v \in Scalar : v \in Value /\ v \in Seq(Mark) /\ Walks(v, 0)
  BY ScalarsWalk DEF Value
<1>5. \A t : t \in Value /\ t[1] \in {"open", "begin"} /\ Walks(t, n + 1) /\ data' = t => DepthInv'
  BY <1>3 DEF DepthInv
<1>6. Open[1] = "open" /\ OpenSpace[1] = "open" /\ Begin[1] = "begin" /\ Empties[1] = "open"
      /\ Open # <<>> /\ OpenSpace # <<>> /\ Begin # <<>> /\ Empties # <<>>
      /\ Empties \in Seq(Mark)
  BY DEF Empties, Mark, Open, OpenSpace, Begin
<1>7. CASE data' = Open \o w \o Close
  BY <1>3, <1>5, <1>6, <1>7, AloneInArray, Around, Brackets
<1>8. CASE data' = OpenSpace \o w \o SpaceClose
  BY <1>3, <1>5, <1>6, <1>8, SpacedInArray, Around, Brackets
<1>9. ASSUME NEW v \in Scalar, data' = Open \o v \o CommaSpace \o w \o Close PROVE DepthInv'
  <2> DEFINE u == Open \o v \o CommaSpace
  <2>1. u \in Seq(Mark) /\ u # <<>> /\ u[1] \in {"open", "begin"}
    BY <1>4, <1>6, Around, Brackets DEF Value
  <2> HIDE DEF u
  <2>2. u \o w \o Close \in Value /\ (u \o w \o Close)[1] \in {"open", "begin"}
    BY <1>3, <2>1, Around, Brackets
  <2>3. Walks(u \o w \o Close, n + 1)
    BY <1>3, <1>4, SecondInArray DEF u
  <2> QED
    BY <1>5, <1>9, <2>2, <2>3 DEF u
<1>10. ASSUME NEW v \in Scalar, data' = Open \o w \o Comma \o v \o Close PROVE DepthInv'
  <2> DEFINE u == Open \o w \o Comma
  <2>1. u \in Seq(Mark) /\ u # <<>> /\ u[1] \in {"open", "begin"}
    BY <1>3, <1>6, Around, Brackets DEF Value
  <2> HIDE DEF u
  <2>2. u \o v \o Close \in Value /\ (u \o v \o Close)[1] \in {"open", "begin"}
    BY <1>4, <2>1, Around, Brackets
  <2>3. Walks(u \o v \o Close, n + 1)
    BY <1>3, <1>4, FirstInArray DEF u
  <2> QED
    BY <1>5, <1>10, <2>2, <2>3 DEF u
<1>11. CASE data' = Begin \o Key \o w \o End
  <2> DEFINE u == Begin \o Key
  <2>1. u \in Seq(Mark) /\ u # <<>> /\ u[1] \in {"open", "begin"}
    BY <1>6, Enclosed, Brackets DEF Value
  <2> HIDE DEF u
  <2>2. u \o w \o End \in Value /\ (u \o w \o End)[1] \in {"open", "begin"}
    BY <1>3, <2>1, Around, Brackets
  <2>3. Walks(u \o w \o End, n + 1)
    BY <1>3, AloneInObject DEF u
  <2> QED
    BY <1>5, <1>11, <2>2, <2>3 DEF u
<1>12. ASSUME NEW v \in Scalar, data' = Begin \o Key \o v \o Comma \o Key \o w \o End
       PROVE  DepthInv'
  <2> DEFINE u == Begin \o Key
             x == u \o v \o Comma
             y == x \o Key
  <2>1. u \in Seq(Mark) /\ u # <<>> /\ u[1] \in {"open", "begin"}
    BY <1>6, Enclosed, Brackets DEF Value
  <2>2. y \o w \o End = Begin \o Key \o v \o Comma \o Key \o w \o End
    OBVIOUS
  <2> HIDE DEF u
  <2>3. x \in Seq(Mark) /\ x # <<>> /\ x[1] \in {"open", "begin"}
    BY <1>4, <2>1, Around, Brackets DEF Value
  <2> HIDE DEF x
  <2>4. y \in Seq(Mark) /\ y # <<>> /\ y[1] \in {"open", "begin"}
    BY <2>3, Enclosed, Brackets DEF Value
  <2> HIDE DEF y
  <2>5. y \o w \o End \in Value /\ (y \o w \o End)[1] \in {"open", "begin"}
    BY <1>3, <2>4, Around, Brackets
  <2>6. Walks(y \o w \o End, n + 1)
    BY <1>3, <1>4, <2>2, SecondInObject
  <2> QED
    BY <1>5, <1>12, <2>2, <2>5, <2>6
<1>13. CASE n > 0 /\ data' = Empties \o w \o Close
  BY <1>3, <1>5, <1>6, <1>13, AfterEmpties, Around, Brackets
<1>14. \/ data' = Open \o w \o Close
       \/ data' = OpenSpace \o w \o SpaceClose
       \/ \E v \in Scalar : data' = Open \o v \o CommaSpace \o w \o Close
       \/ \E v \in Scalar : data' = Open \o w \o Comma \o v \o Close
       \/ data' = Begin \o Key \o w \o End
       \/ \E v \in Scalar : data' = Begin \o Key \o v \o Comma \o Key \o w \o End
       \/ n > 0 /\ data' = Empties \o w \o Close
  BY <1>1, <1>2 DEF Enclose, Open, OpenSpace, Close, SpaceClose, Comma,
                            CommaSpace, Begin, End
<1> QED
  BY <1>7, <1>8, <1>9, <1>10, <1>11, <1>12, <1>13, <1>14

LEMMA DepthInvHolds == DepthSpec => []DepthInv
<1>1. DepthInit => DepthInv
  <2> SUFFICES ASSUME DepthInit PROVE DepthInv
    OBVIOUS
  <2>1. \A v \in Scalar : v[1] \in {"q", "x"}
    BY DEF Scalar
  <2> QED
    BY <2>1, ScalarsWalk DEF DepthInit, DepthInv
<1>2. DepthInv /\ [Enclose]_depthVars => DepthInv'
  <2>1. CASE Enclose
    BY <2>1, EncloseKeeps
  <2>2. CASE UNCHANGED depthVars
    BY <2>2 DEF depthVars, DepthInv
  <2> QED
    BY <2>1, <2>2
<1> QED
  BY <1>1, <1>2, PTL DEF DepthSpec

(* Unmarshal lets a text through if and only if it is nested no deeper     *)
(* than maxDepth: for any limit and texts nested to any depth.             *)
THEOREM DepthIsLimited == DepthSpec => []LimitIsExact
<1>1. DepthInv => LimitIsExact
  <2> SUFFICES ASSUME DepthInv PROVE LimitIsExact
    OBVIOUS
  <2>1. PICK d : d = data
    OBVIOUS
  <2>2. d \in Seq(Mark) /\ d # <<>> /\ d[1] \in {"open", "begin", "q", "x"}
        /\ Walks(d, nested) /\ nested \in Nat
        /\ (nested = 0 <=> d[1] \in {"q", "x"})
    BY <2>1 DEF DepthInv, Value
  <2>3. Len(d) \in Nat \ {0}
    BY <2>2, EmptySeq
  <2>4. 1 \in Places(d) /\ At(d, 1) = d[1] /\ At(d, 1 + Len(d)) \in Enders
    BY <2>2, <2>3, AtFacts DEF Places, Enders, Mark
  <2>5. Sits(d, 1, d)
    <3>1. \A k \in 1..Len(d) : 1 + k - 1 = k /\ At(d, k) = d[k]
      BY <2>2, AtFacts
    <3> QED
      BY <3>1 DEF Sits
  <2>6. WalkValue(d, MaxDepth)[1] = IF nested <= MaxDepth THEN 1 + Len(d) ELSE Fails
    BY <2>2, <2>4, <2>5, DepthAssumption DEF Walks
  <2>7. SkipWS(d, 1) = 1
    BY <2>2, <2>4, SkipsNothing
  <2>8. 1 + Len(d) # Fails
    BY <2>3 DEF Fails
  <2>9. CASE d[1] = "open"
    <3>1. WalkArray(d, WalkValue(d, MaxDepth - 1), 1 + 1) = WalkValue(d, MaxDepth)[1]
      BY <2>2, <2>4, <2>9, ArrayOpens, DepthAssumption
    <3> QED
      BY <2>1, <2>4, <2>6, <2>7, <2>8, <2>9, <3>1 DEF LimitIsExact, PassesDepthCheck
  <2>10. CASE d[1] = "begin"
    <3>1. WalkObject(d, WalkValue(d, MaxDepth - 1), 1 + 1) = WalkValue(d, MaxDepth)[1]
      BY <2>2, <2>4, <2>10, ObjectOpens, DepthAssumption
    <3> QED
      BY <2>1, <2>4, <2>6, <2>7, <2>8, <2>10, <3>1 DEF LimitIsExact, PassesDepthCheck
  <2>11. CASE d[1] \in {"q", "x"}
    <3>1. nested <= MaxDepth
      BY <2>2, <2>11, DepthAssumption
    <3>2. 1 <= Len(d)
      BY <2>3
    <3> QED
      BY <2>1, <2>4, <2>7, <2>11, <3>1, <3>2 DEF LimitIsExact, PassesDepthCheck
  <2> QED
    BY <2>2, <2>9, <2>10, <2>11
<1> QED
  BY <1>1, DepthInvHolds, PTL
=============================================================================
