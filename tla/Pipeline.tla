------------------------------ MODULE Pipeline ------------------------------
(***************************************************************************)
(* One request through ServeHTTP, runPipeline and processBatch of          *)
(* internal/proxy/pipeline.go, with the handler of handler.go as upstream. *)
(* Every middleware is present, as main.go builds it, and the tool catalog *)
(* is not.  What the authenticator, the limiter and the RBAC engine answer *)
(* is not determined here (Authenticator, RateLimiter and Rbac model it),  *)
(* nor is what the upstream server answers.                                *)
(***************************************************************************)
EXTENDS Sequences, SequencesExt, FiniteSets, Integers

CONSTANT MaxItems      \* bound: requests in a batch

ASSUME PipelineAssumption == MaxItems \in Nat \ {0}

VARIABLES pc,          \* the stage the request has reached
          req,         \* the request
          next,        \* the item of it that is handled next
          checked,     \* items RBAC has let pass
          forwarded,   \* history: items sent upstream, with what was masked
          answers,     \* what each item is answered
          audit,       \* the entries logged for this request
          response     \* what the client got

vars == <<pc, req, next, checked, forwarded, answers, audit, response>>

\* sensitive: the call's arguments and its answer hold data to mask.
Item == [method : {"tools/list", "other"}, sensitive : {FALSE}] \cup
        [method : {"tools/call", "resources/read"}, sensitive : BOOLEAN]

\* route: what ServeHTTP makes of the method and the path.
\* form: what the body is.  A batch may hold something that does not parse,
\* and then none of it does; another body may not parse at all.  size says
\* where the limit is passed: in the Content-Length, or only when read.
Request ==
    {r \in [route : {"preflight", "health", "auth", "mcp"},
            form : {"none", "single", "batch", "badSingle", "badBatch"},
            items : BoundedSeq(Item, MaxItems),
            size : {"small", "declaredLarge", "readLarge"},
            sse : BOOLEAN, admin : BOOLEAN] :
        /\ r.route # "mcp" => r.form = "none"
        /\ r.form = "single" => Len(r.items) = 1
        /\ r.form \in {"none", "badSingle", "badBatch"} => r.items = <<>>
        /\ r.form = "none" => r.size = "small"}

Refused(code) == [code |-> code, body |-> "error", lost |-> FALSE]

Init ==
    /\ pc = "route"
    /\ req \in Request
    /\ next = 1
    /\ checked = {}
    /\ forwarded = {}
    /\ answers = <<>>
    /\ audit = <<>>
    /\ response = Refused(0)

\* item 0: the entry is about the request as a whole.
Entry(i, ok) == [item |-> i, allowed |-> ok]
Log(i, ok) == audit' = Append(audit, Entry(i, ok))

Go(from, to) == pc = from /\ pc' = to

\* The request is refused as a whole without an entry.
RefuseUnlogged(from, code) ==
    /\ Go(from, "done")
    /\ response' = Refused(code)
    /\ UNCHANGED <<req, next, checked, forwarded, answers, audit>>

\* The same, and it is logged.
Refuse(from, code) ==
    /\ Go(from, "done")
    /\ Log(0, FALSE)
    /\ response' = Refused(code)
    /\ UNCHANGED <<req, next, checked, forwarded, answers>>

Pass(from, to) ==
    /\ Go(from, to)
    /\ UNCHANGED <<req, next, checked, forwarded, answers, audit, response>>

-----------------------------------------------------------------------------
(* The stages before the body is parsed.                                   *)

\* Preflights and health checks are answered at once, OAuth's routes by the
\* authenticator's handlers: the pipeline is for the rest.
Route ==
    \/ req.route = "mcp" /\ Pass("route", "size")
    \/ req.route # "mcp" /\ RefuseUnlogged("route", 200)

CheckSize ==
    IF req.size = "declaredLarge" THEN Refuse("size", 413) ELSE Pass("size", "auth")

Authenticate == Refuse("auth", 401) \/ Pass("auth", "rate")

RateLimit == Refuse("rate", 429) \/ Pass("rate", "sse")

CheckSSE ==
    IF req.sse /\ ~req.admin THEN Refuse("sse", 403) ELSE Pass("sse", "body")

\* Reading the body may fail; a body that is read beyond the limit is refused.
ReadBody ==
    \/ req.form # "none" /\ RefuseUnlogged("body", 400)
    \/ IF req.size = "readLarge" THEN Refuse("body", 413) ELSE Pass("body", "parse")

Parse ==
    CASE req.form = "badBatch" -> RefuseUnlogged("parse", 400)
      [] req.form = "batch"    -> Pass("parse", "item")
      [] req.form = "single"   -> Pass("parse", "single")
      [] OTHER                 -> Pass("parse", "unparsed")

-----------------------------------------------------------------------------
(* Upstream.  It answers JSON, or text that is not (an error page), or     *)
(* nothing (a 502 for a server that is down).                              *)

\* tools/list, tools/call and resources/read are answered into a buffer.
\* That is no http.Flusher: ProxySSE gives up on it before it connects.
Buffered(item) == item.method # "other"

Bodies(buffered) ==
    IF req.sse /\ buffered THEN {"empty"} ELSE {"json", "text", "empty"}

\* ProxySSE sends a GET of its own instead of the request.
Sent(i, masked) == IF req.sse THEN {} ELSE {[item |-> i, masked |-> masked]}

Masks(item) == item.method \in {"tools/call", "resources/read"} /\ item.sensitive

\* The answer to an item: masking and filtering fail open on what they
\* cannot parse.
Answer(item, body) ==
    [body |-> body,
     masked |-> body = "json" /\ Masks(item),
     filtered |-> body = "json" /\ item.method = "tools/list"]

Denied == [body |-> "error", masked |-> FALSE, filtered |-> FALSE]

-----------------------------------------------------------------------------
(* A request that is not a batch.                                          *)

\* MaskRequest, then Process: denied.
DenySingle ==
    /\ Go("single", "done")
    /\ Log(1, FALSE)
    /\ answers' = <<Denied>>
    /\ response' = Refused(403)
    /\ UNCHANGED <<req, next, checked, forwarded>>

AllowSingle ==
    /\ Go("single", "forward")
    /\ checked' = {1}
    /\ UNCHANGED <<req, next, forwarded, answers, audit, response>>

\* tools/call goes out masked.
SentSingle == Sent(1, req.items[1].method = "tools/call" /\ req.items[1].sensitive)

ForwardSingle ==
    /\ Go("forward", "done")
    /\ forwarded' = SentSingle
    /\ \E body \in Bodies(Buffered(req.items[1])) :
          /\ answers' = <<Answer(req.items[1], body)>>
          /\ response' = [code |-> 200, body |-> body, lost |-> FALSE]
    /\ Log(1, TRUE)
    /\ UNCHANGED <<req, next, checked>>

\* No body, or one that does not parse: RBAC and masking do not apply.
ForwardUnparsed ==
    /\ Go("unparsed", "done")
    /\ forwarded' = Sent(0, FALSE)
    /\ \E body \in Bodies(FALSE) :
          response' = [code |-> 200, body |-> body, lost |-> FALSE]
    /\ Log(0, TRUE)
    /\ UNCHANGED <<req, next, checked, answers>>

\* The upstream server breaks off inside its answer: ReverseProxy panics
\* with ErrAbortHandler, and runPipeline is left without an entry.
Abort(from, sent) ==
    /\ ~req.sse
    /\ Go(from, "aborted")
    /\ forwarded' = forwarded \cup sent
    /\ UNCHANGED <<req, next, checked, answers, audit, response>>

AbortSingle == Abort("forward", SentSingle)

AbortUnparsed == Abort("unparsed", Sent(0, FALSE))

-----------------------------------------------------------------------------
(* processBatch, one item after the other.                                 *)

Handling == pc = "item" /\ next <= Len(req.items)

\* Wrong: the answers are collected for the items that pass only.
DenyItemUnanswered ==
    /\ Handling
    /\ next' = next + 1
    /\ Log(next, FALSE)
    /\ UNCHANGED <<pc, req, checked, forwarded, answers, response>>

\* Wrong: "continue" is missing, the item is forwarded nevertheless.
DenyItemAndForward ==
    /\ Handling
    /\ next' = next + 1
    /\ audit' = audit \o <<Entry(next, FALSE), Entry(next, TRUE)>>
    /\ forwarded' = forwarded \cup Sent(next, FALSE)
    /\ \E body \in Bodies(TRUE) :
          answers' = Append(answers, Answer(req.items[next], body))
    /\ UNCHANGED <<pc, req, checked, response>>

\* Process denies the item: it is answered with an error.
DenyItem ==
    /\ Handling
    /\ next' = next + 1
    /\ Log(next, FALSE)
    /\ answers' = Append(answers, Denied)
    /\ UNCHANGED <<pc, req, checked, forwarded, response>>

\* Wrong: the answers of a batch are neither masked nor filtered.
ForwardItemUnguarded ==
    /\ Handling
    /\ next' = next + 1
    /\ checked' = checked \cup {next}
    /\ forwarded' = forwarded \cup Sent(next, FALSE)
    /\ \E body \in Bodies(TRUE) :
          answers' = Append(answers, [body |-> body, masked |-> FALSE, filtered |-> FALSE])
    /\ Log(next, TRUE)
    /\ UNCHANGED <<pc, req, response>>

\* Process passes, the item is sent as it is (nothing calls MaskRequest),
\* and its answer is buffered, masked and filtered.
ForwardItem ==
    /\ Handling
    /\ next' = next + 1
    /\ checked' = checked \cup {next}
    /\ forwarded' = forwarded \cup Sent(next, FALSE)
    /\ \E body \in Bodies(TRUE) :
          answers' = Append(answers, Answer(req.items[next], body))
    /\ Log(next, TRUE)
    /\ UNCHANGED <<pc, req, response>>

AbortItem ==
    /\ Handling
    /\ ~req.sse
    /\ pc' = "aborted"
    /\ checked' = checked \cup {next}
    /\ forwarded' = forwarded \cup Sent(next, FALSE)
    /\ UNCHANGED <<req, next, answers, audit, response>>

\* The answers are marshalled together.  Text that is not JSON makes that
\* fail, and nothing is written; an empty answer becomes null.
RespondBatch ==
    /\ next > Len(req.items)
    /\ Go("item", "done")
    /\ response' = [code |-> 200, body |-> "json",
                    lost |-> \E i \in DOMAIN answers : answers[i].body = "text"]
    /\ UNCHANGED <<req, next, checked, forwarded, answers, audit>>

Next ==
    \/ Route \/ CheckSize \/ Authenticate \/ RateLimit \/ CheckSSE
    \/ ReadBody \/ Parse
    \/ DenySingle \/ AllowSingle \/ ForwardSingle \/ AbortSingle
    \/ ForwardUnparsed \/ AbortUnparsed
    \/ DenyItem \/ ForwardItem \/ AbortItem \/ RespondBatch

Spec == Init /\ [][Next]_vars

-----------------------------------------------------------------------------
(* Properties.                                                             *)

Stage == {"route", "size", "auth", "rate", "sse", "body", "parse", "single",
          "forward", "unparsed", "item", "done", "aborted"}

\* Every variable has its type; no request logs more entries than it has
\* items (logAudit of runPipeline and processBatch).
TypeOK ==
    /\ pc \in Stage
    /\ req \in Request
    /\ next \in 1..(MaxItems + 1)
    /\ checked \subseteq 1..Len(req.items)
    /\ forwarded \subseteq [item : 0..MaxItems, masked : BOOLEAN]
    /\ \A i \in DOMAIN answers : answers[i] \in [body : {"json", "text", "empty", "error"},
                                                masked : BOOLEAN, filtered : BOOLEAN]
    /\ audit \in BoundedSeq([item : 0..MaxItems, allowed : BOOLEAN], MaxItems)
    /\ response \in [code : {0, 200, 400, 401, 403, 413, 429},
                     body : {"json", "text", "empty", "error"}, lost : BOOLEAN]

EntriesOf(i) == {k \in DOMAIN audit : audit[k].item = i}

\* Each item that is answered has one entry in the audit log, saying of it
\* what RBAC decided, and is answered by an error exactly if that was no; a
\* request refused or forwarded as a whole has one entry and no others.
\* Lines 309-320, 450-457 and 603-625 of pipeline.go return or continue
\* after what they log.
AuditMatchesOutcome ==
    /\ \A i \in DOMAIN answers : \E k \in DOMAIN audit :
          /\ EntriesOf(i) = {k}
          /\ audit[k].allowed <=> i \in checked
          /\ audit[k].allowed <=> answers[i].body # "error"
    /\ EntriesOf(0) # {} => Len(audit) = 1 /\ answers = <<>>
    /\ req.form = "batch" /\ pc \in {"item", "done"} /\ response.code \in {0, 200} =>
          Len(answers) = next - 1

\* Nothing that RBAC parsed goes upstream unless it let it pass, and nothing
\* at all goes upstream for a request the client is told was refused: every
\* check of runPipeline comes before the first call of the upstream handler,
\* and each item of a batch is checked for itself.
OnlyAllowedIsForwarded ==
    /\ \A f \in forwarded : f.item = 0 \/ f.item \in checked
    /\ response.code \notin {0, 200} => forwarded = {}
    /\ req.form \in {"single", "batch"} => \A f \in forwarded : f.item # 0

\* Whichever path a tools/list, tools/call or resources/read takes, alone or
\* in a batch, an answer the proxy can parse is filtered or masked before it
\* is written (runPipeline steps 6a and 6b, and processBatch).
AnswersAreGuarded ==
    \A i \in DOMAIN answers : answers[i].body = "json" =>
        /\ req.items[i].method = "tools/list" => answers[i].filtered
        /\ req.items[i].sensitive => answers[i].masked

\* A request that was answered left an entry, and so did each item of it that
\* went upstream, but for a body that cannot be read, a batch that does not
\* parse or a batch without items: every other return of runPipeline and
\* every continue of processBatch comes after a logAudit.
AuditedUnlessMalformed ==
    pc = "done" /\ req.route = "mcp" =>
        /\ audit = <<>> => response.code = 400 \/ (req.form = "batch" /\ req.items = <<>>)
        /\ \A f \in forwarded : EntriesOf(f.item) # {}

\* Together: the trail says what was done with each request, and of each that
\* was done it says something.
AuditIsTrue == TypeOK /\ AuditMatchesOutcome /\ AuditedUnlessMalformed
=============================================================================
