---------------------------- MODULE MCAlgorithms -----------------------------
(***************************************************************************)
(* Four parts of the program that share no state: the configuration, the   *)
(* masker, the names of aggregated tools and the depth limiter.  Each      *)
(* behaviour runs one of them, and the others rest.                        *)
(***************************************************************************)
EXTENDS Configuration, Masker, ToolNames, DepthLimit

VARIABLE part

vars == <<part, configVars, maskerVars, nameVars, depthVars>>

MCName == STRING

Blank == [upstream |-> TRUE, servers |-> <<>>, default |-> "", roles |-> <<>>,
          userDefault |-> "", mapping |-> <<>>, rules |-> <<>>, levels |-> <<>>,
          toolLevels |-> <<>>, patterns |-> <<>>, classes |-> <<>>, assigned |-> <<>>,
          sinks |-> <<>>]

UpTo(n, S) == UNION {[1..k -> S] : k \in 0..n}

PartialMaps(D, R) == UNION {[E -> R] : E \in SUBSET D}

\* What a file may say of each subject, and the rest left out: nothing that
\* is read or validated depends on two of them.
Saying(f) == [upstream : f.upstream, servers : f.servers, default : f.default,
              roles : f.roles, userDefault : f.userDefault, mapping : f.mapping,
              rules : f.rules, levels : f.levels, toolLevels : f.toolLevels,
              patterns : f.patterns, classes : f.classes, assigned : f.assigned,
              sinks : f.sinks]

Nothing == [k \in DOMAIN Blank |-> {Blank[k]}]

RegistryFiles == Saying([Nothing EXCEPT
    !.upstream = BOOLEAN,
    !.servers = UpTo(2, [name : {"", "files", "mail"}, enabled : BOOLEAN]),
    !.default = {"", "files", "default"}])

RoleFiles == Saying([Nothing EXCEPT
    !.roles = UpTo(2, [name : {"", "admin", "ops"}, level : {""}]),
    !.userDefault = {"", "ops"},
    !.mapping = PartialMaps({"ann"}, {"", "admin", "ops"}),
    !.rules = UpTo(2, [claim : {"", "team", "rank"}, role : {"", "readonly", "ops"}])])

LevelFiles == Saying([Nothing EXCEPT
    !.roles = UpTo(1, [name : {"admin", "ops"}, level : {"", "Public", "Low"}]),
    !.levels = UpTo(3, {"", "Public", "Low"}),
    !.toolLevels = PartialMaps({"get_a", "put"}, {"Public", "Low", "Sensitive"})])

MaskingFiles == Saying([Nothing EXCEPT
    !.patterns = UpTo(2, {"", "mail", "phone"}),
    !.classes = UpTo(2, [name : {"", "low", "high"}, patterns : {{}, {"mail"}, {"mail", "phone"}}]),
    !.assigned = PartialMaps({"get_a", "get_*"}, {"low", "high"})])

SinkFiles == Saying([Nothing EXCEPT
    !.sinks = UpTo(1, [type : {"", "ocsf", "cef", "json_http", "other"}, transport : {"", "tcp", "https"},
                       enabled : BOOLEAN, batch : -1..1, flush : -1..1, buffer : -1..1])])

MCFiles == {RegistryFiles, RoleFiles, LevelFiles, MaskingFiles, SinkFiles}

MCIdentity == [email : {"ann", "bob"}, holds : SUBSET {"team", "rank"}]

MCMatching == {<<"get_a", "get_a">>, <<"get_*", "get_a">>, <<"get_*", "get_b">>}

\* Digits and letters: a number of two or three digits, a code that begins
\* with a letter, and single letters.
MCWords == [number |-> {<<"9", "9">>, <<"9", "9", "9">>},
            code |-> {<<"a", "9">>, <<"a", "9", "9">>},
            letter |-> {<<"a">>}]

MCShowFirst == [number |-> -1, code |-> 1, letter |-> 0]

MCShowLast == [number |-> 1, code |-> 1, letter |-> 0]

MCText == UpTo(5, {"9", "a", " "})

MCPart == {"files", "mail", "chat", "read", "list"}

\* Servers and tools without a dot, and some of each with one.
MCListing == [{<<"files">>, <<"mail">>, <<"read">>} -> UpTo(2, {<<"read">>, <<"list">>})]
             \cup [{<<"files">>, <<"mail">>, <<"chat">>} -> UpTo(2, {<<"read">>, <<"list">>})]
             \cup [{<<"files">>, <<"mail">>} -> UpTo(2, {<<"read">>, <<"read", "list">>})]
             \cup [{<<"files">>, <<"files", "read">>} -> UpTo(1, {<<"read">>, <<"read", "read">>})]

ConfigRests == stage = "read" /\ file = Blank /\ cfg = Blank /\ answer = [to |-> "nobody"]

MaskerRests ==
    /\ message = [dir |-> "request", method |-> "other", place |-> "value"]
    /\ original = <<>> /\ text = <<>> /\ fields = {} /\ todo = {}

NamesRest == tools = <<>> /\ waiting = {} /\ globalNames = {} /\ aggregated = <<>>

DepthRests == data = <<"x">> /\ nested = 0

Init ==
    \/ part = "config" /\ ConfigInit /\ MaskerRests /\ NamesRest /\ DepthRests
    \/ part = "masker" /\ MaskerInit /\ ConfigRests /\ NamesRest /\ DepthRests
    \/ part = "names" /\ NamesInit /\ ConfigRests /\ MaskerRests /\ DepthRests
    \/ part = "depth" /\ DepthInit /\ ConfigRests /\ MaskerRests /\ NamesRest

Next ==
    \/ part = "config" /\ ConfigNext /\ UNCHANGED <<part, maskerVars, nameVars, depthVars>>
    \/ part = "masker" /\ MaskerNext /\ UNCHANGED <<part, configVars, nameVars, depthVars>>
    \/ part = "names" /\ NamesNext /\ UNCHANGED <<part, configVars, maskerVars, depthVars>>
    \/ part = "depth" /\ Enclose /\ UNCHANGED <<part, configVars, maskerVars, nameVars>>

Spec == Init /\ [][Next]_vars
=============================================================================
