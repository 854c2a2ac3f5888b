---------------------------- MODULE Configuration ----------------------------
(***************************************************************************)
(* The configuration from the file to the components that use it:          *)
(* applyDefaults and Validate of internal/config, and what NewServerRouter,*)
(* the authenticator's roles, NewEngine and pii.New make of a file that    *)
(* was accepted.  Those pass over what they do not know without an error,  *)
(* and rely on Validate for it.                                            *)
(*                                                                         *)
(* A name is a string, and "" one that is not set.  A number is -1, 0 or   *)
(* Some.  Left out are the options that are only compared with a list of   *)
(* values, and the fields of a sink that have to be there.                 *)
(***************************************************************************)
EXTENDS Integers, Sequences, Functions

CONSTANTS Name,        \* strings
          Files,       \* the files to choose from: a set for each subject
          Path,        \* first segments of request paths
          Identity,    \* what the provider says: [email, holds], where
                       \* `holds' are the claims whose rule matches
          Tool,
          Matching     \* external, regexp: <<tool pattern, tool>>

VARIABLES stage,       \* "read", "defaulted", "running" or "refused"
          file,        \* what the file says
          cfg,         \* the Config in memory
          answer       \* of a component, to a request

configVars == <<stage, file, cfg, answer>>

BuiltIn == <<"admin", "readonly", "restricted">>

Some == 1              \* a number, or a default, that is positive

\* What can be read from a file: of a map, that it is one.
IsConfig(c) ==
    c \in [upstream : BOOLEAN, servers : Seq([name : Name, enabled : BOOLEAN]), default : Name,
           roles : Seq([name : Name, level : Name]), userDefault : Name,
           mapping : {c.mapping}, rules : Seq([claim : Name, role : Name]),
           levels : Seq(Name), toolLevels : {c.toolLevels},
           patterns : Seq(Name), classes : Seq([name : Name, patterns : SUBSET Name]),
           assigned : {c.assigned},
           sinks : Seq([type : Name, transport : Name, enabled : BOOLEAN,
                        batch : Int, flush : Int, buffer : Int])]

\* The names that applyDefaults brings in.
ASSUME NameAssumption ==
    {"", "default", "admin", "readonly", "restricted", "Public", "Sensitive", "Confidential"}
        \subseteq Name

ASSUME FilesAssumption == \A subject \in Files : \A f \in subject : IsConfig(f)

NamesOf(s) == {s[i].name : i \in DOMAIN s}

Named(s, n) == {i \in DOMAIN s : s[i].name = n}

Distinct(s) == \A i, j \in DOMAIN s : s[i] = s[j] => i = j

ConfigInit ==
    /\ stage = "read"
    /\ \E subject \in Files : file \in subject
    /\ cfg = file
    /\ answer = [to |-> "nobody"]
-----------------------------------------------------------------------------
\* upstream_url alone becomes the one server, and the default.
RegistryDefaults(c) ==
    IF c.upstream /\ c.servers = <<>>
    THEN [c EXCEPT !.servers = <<[name |-> "default", enabled |-> TRUE]>>, !.default = "default"]
    ELSE [c EXCEPT !.servers = [i \in DOMAIN @ |-> [@[i] EXCEPT !.enabled = TRUE]]]

OrSome(n) == IF n = 0 THEN Some ELSE n

\* Of a CEF sink, only one over https has batches.
Batches(sink) == sink.type # "cef" \/ sink.transport = "https"

SinkDefaults(sink) ==
    [sink EXCEPT !.enabled = @ \/ sink.type # "",
                 !.batch = IF Batches(sink) THEN OrSome(@) ELSE @,
                 !.flush = IF Batches(sink) THEN OrSome(@) ELSE @,
                 !.buffer = OrSome(@)]

\* The roles that are not built in.
CustomRoles(roles) ==
    LET custom[n \in 0..Len(roles)] ==
            IF n = 0 THEN <<>>
            ELSE IF roles[n].name \in Range(BuiltIn) THEN custom[n - 1]
            ELSE Append(custom[n - 1], roles[n])
    IN  custom[Len(roles)]

\* mergeRoles: the last of several definitions of a built-in role counts.
MergeRoles(roles) ==
    [i \in DOMAIN BuiltIn |->
        LET own == Named(roles, BuiltIn[i])
        IN  IF own = {} THEN [name |-> BuiltIn[i], level |-> ""]
            ELSE roles[CHOOSE j \in own : \A k \in own : k <= j]]
    \o CustomRoles(roles)

Defaulted(c) ==
    [RegistryDefaults(c) EXCEPT
        !.userDefault = IF @ = "" THEN "readonly" ELSE @,
        !.levels = IF @ = <<>> THEN <<"Public", "Sensitive", "Confidential">> ELSE @,
        !.sinks = [i \in DOMAIN @ |-> SinkDefaults(@[i])],
        !.roles = MergeRoles(@)]

ApplyDefaults ==
    /\ stage = "read"
    /\ stage' = "defaulted"
    /\ cfg' = Defaulted(cfg)
    /\ UNCHANGED <<file, answer>>
-----------------------------------------------------------------------------
RegistryIsValid(c) ==
    /\ c.upstream \/ c.servers # <<>>
    /\ "" \notin NamesOf(c.servers)
    /\ Distinct([i \in DOMAIN c.servers |-> c.servers[i].name])
    /\ c.default \in NamesOf(c.servers) \cup {""}

RolesAreValid(c) ==
    /\ "" \notin NamesOf(c.roles)
    /\ {c.userDefault} \cup Range(c.mapping) \cup {c.rules[i].role : i \in DOMAIN c.rules}
          \subseteq NamesOf(c.roles) \cup {""}
    /\ \A i \in DOMAIN c.rules : c.rules[i].claim # ""

LevelsAreValid(c) ==
    /\ Distinct(c.levels) /\ "" \notin Range(c.levels)
    /\ Range(c.toolLevels) \subseteq Range(c.levels)
    /\ {c.roles[i].level : i \in DOMAIN c.roles} \subseteq Range(c.levels) \cup {""}

\* Wrong: a class may name patterns that are defined nowhere.
MaskingIsValidButPatterns(c) ==
    /\ Distinct(c.patterns) /\ "" \notin Range(c.patterns)
    /\ Distinct([i \in DOMAIN c.classes |-> c.classes[i].name]) /\ "" \notin NamesOf(c.classes)
    /\ Range(c.assigned) \subseteq NamesOf(c.classes)

MaskingIsValid(c) ==
    /\ Distinct(c.patterns) /\ "" \notin Range(c.patterns)
    /\ Distinct([i \in DOMAIN c.classes |-> c.classes[i].name]) /\ "" \notin NamesOf(c.classes)
    /\ \A i \in DOMAIN c.classes : c.classes[i].patterns \subseteq Range(c.patterns)
    /\ Range(c.assigned) \subseteq NamesOf(c.classes)

SinksAreValid(c) ==
    \A i \in DOMAIN c.sinks :
        /\ c.sinks[i].type \in {"ocsf", "cef", "json_http"}
        /\ c.sinks[i].type = "ocsf" => c.sinks[i].batch >= 1

Valid(c) ==
    /\ RegistryIsValid(c) /\ RolesAreValid(c) /\ LevelsAreValid(c)
    /\ MaskingIsValid(c) /\ SinksAreValid(c)

\* main builds the components, or ends.
Validate ==
    /\ stage = "defaulted"
    /\ stage' = IF Valid(cfg) THEN "running" ELSE "refused"
    /\ UNCHANGED <<file, cfg, answer>>
-----------------------------------------------------------------------------
Servers == {cfg.servers[i].name : i \in {i \in DOMAIN cfg.servers : cfg.servers[i].enabled}}

\* ResolveForRequest: the server of that name, or else the default; none is
\* ErrUnknownServer.
Resolved(path) == IF path \in Servers THEN {path} ELSE {cfg.default} \cap Servers

Route(path) ==
    /\ stage = "running"
    /\ answer' = [to |-> "path", asked |-> path, got |-> Resolved(path)]
    /\ UNCHANGED <<stage, file, cfg>>

\* resolveRole: the mapping, or else the default.
MappedRole(email) ==
    IF email \in DOMAIN cfg.mapping THEN cfg.mapping[email]
    ELSE IF cfg.userDefault # "" THEN cfg.userDefault ELSE "readonly"

\* evaluateClaimRules: the first rule that matches; one without a role is
\* like none.
RoleOf(id) ==
    LET hits == {i \in DOMAIN cfg.rules : cfg.rules[i].claim \in id.holds}
        role == IF hits = {} THEN ""
                ELSE cfg.rules[CHOOSE i \in hits : \A j \in hits : i <= j].role
    IN  IF role # "" THEN role ELSE MappedRole(id.email)

Identify(id) ==
    /\ stage = "running"
    /\ answer' = [to |-> "identity", asked |-> id, got |-> RoleOf(id)]
    /\ UNCHANGED <<stage, file, cfg>>

\* checkClassification: a level without a rank counts as the lowest.
Rank(tool) ==
    IF tool \in DOMAIN cfg.toolLevels /\ cfg.toolLevels[tool] \in Range(cfg.levels)
    THEN CHOOSE i \in DOMAIN cfg.levels : cfg.levels[i] = cfg.toolLevels[tool]
    ELSE 1

Classify(tool) ==
    /\ stage = "running"
    /\ answer' = [to |-> "level", asked |-> tool, got |-> cfg.levels[Rank(tool)]]
    /\ UNCHANGED <<stage, file, cfg>>

\* compileRole: a level without a rank is no limit; the last of several
\* definitions of a role counts.
LimitOf(role) ==
    LET own == Named(cfg.roles, role)
        level == IF own = {} THEN "" ELSE cfg.roles[CHOOSE i \in own : \A j \in own : j <= i].level
    IN  IF level \in Range(cfg.levels) THEN level ELSE ""

Limit(role) ==
    /\ stage = "running"
    /\ answer' = [to |-> "limit", asked |-> role, got |-> LimitOf(role)]
    /\ UNCHANGED <<stage, file, cfg>>

\* pii.New: classes without a pattern that is known, and assignments to a
\* class that is not, are skipped.
CompiledClass(n) ==
    UNION {cfg.classes[i].patterns \cap Range(cfg.patterns) : i \in Named(cfg.classes, n)}

\* GetSensitiveFields: the patterns of every class assigned to the tool.
SensitiveFields(tool) ==
    UNION {CompiledClass(cfg.assigned[k]) :
             k \in {k \in DOMAIN cfg.assigned : <<k, tool>> \in Matching}}

Mask(tool) ==
    /\ stage = "running"
    /\ answer' = [to |-> "masking", asked |-> tool, got |-> SensitiveFields(tool)]
    /\ UNCHANGED <<stage, file, cfg>>

\* Wrong: the constructor only looks for a number that is not set.
AtLeastOneUnlessSet(n) == IF n = 0 THEN Some ELSE n

\* What the constructors put in the place of a number below one.
AtLeastOne(n) == IF n < 1 THEN Some ELSE n

\* NewOCFSSink, NewCEFSink and NewJSONHTTPSink: the channel is made and the
\* goroutine started, with a ticker if there are batches.
StartSink(i) ==
    LET sink == cfg.sinks[i]
    IN  /\ stage = "running" /\ sink.enabled
        /\ answer' = [to |-> "sink", asked |-> i, ticks |-> Batches(sink),
                      batch |-> IF Batches(sink) THEN AtLeastOne(sink.batch) ELSE sink.batch,
                      flush |-> IF Batches(sink) THEN AtLeastOne(sink.flush) ELSE sink.flush,
                      buffer |-> AtLeastOne(sink.buffer)]
        /\ UNCHANGED <<stage, file, cfg>>

ConfigNext ==
    \/ ApplyDefaults
    \/ Validate
    \/ \E p \in Path : Route(p)
    \/ \E id \in Identity : Identify(id)
    \/ \E t \in Tool : Classify(t) \/ Mask(t)
    \/ \E i \in DOMAIN file.roles : Limit(file.roles[i].name)
    \/ \E i \in DOMAIN cfg.sinks : StartSink(i)

ConfigSpec == ConfigInit /\ [][ConfigNext]_configVars
-----------------------------------------------------------------------------
(* Type invariant. *)
ConfigTypeOK ==
    /\ stage \in {"read", "defaulted", "running", "refused"}
    /\ stage = "running" => Servers # {} /\ cfg.levels # <<>> /\ cfg.userDefault # ""
    /\ stage # "read" => Range(BuiltIn) \cup NamesOf(file.roles) = NamesOf(cfg.roles)
    /\ answer.to \in {"nobody", "path", "identity", "level", "limit", "masking", "sink"}

(* No path is unknown to a proxy whose file names a default server, or one *)
(* upstream and no other: the router finds the default among its servers.  *)
DefaultTakesTheRest ==
    answer.to = "path" /\ answer.got = {} =>
        /\ file.default = ""
        /\ file.upstream => file.servers # <<>>
        /\ answer.asked \notin NamesOf(file.servers)

(* Whoever is let in has a role that the engine knows, by whichever of the *)
(* rules, the mapping and the default it was given; save for the empty one *)
(* of the mapping, which the engine refuses everything.                    *)
RolesAreKnown ==
    answer.to = "identity" =>
        \/ answer.got \in NamesOf(cfg.roles)
        \/ answer.got = "" /\ answer.asked.email \in DOMAIN file.mapping

(* A tool that the file gives a level is held to that level, never to the  *)
(* lowest for want of a rank; and a role is limited as one of the file's   *)
(* definitions of it says, never left without a limit for want of a rank.  *)
LevelsAreHeldTo ==
    /\ answer.to = "level" /\ answer.asked \in DOMAIN file.toolLevels =>
          answer.got = file.toolLevels[answer.asked]
    /\ answer.to = "limit" =>
          answer.got \in {file.roles[i].level : i \in Named(file.roles, answer.asked)}

(* A tool is masked by each pattern of each class that the file assigns to *)
(* it by name or by wildcard: none is passed over as pii.New builds them.  *)
AssignedIsMasked ==
    answer.to = "masking" =>
        answer.got = UNION {file.classes[i].patterns : i \in
            {i \in DOMAIN file.classes : \E k \in DOMAIN file.assigned :
                <<k, answer.asked>> \in Matching /\ file.assigned[k] = file.classes[i].name}}

(* Whatever numbers the file gives a sink, those below zero included, its  *)
(* goroutine gets a channel and a ticker that can be made: neither make    *)
(* nor NewTicker panics, and no batch is full while it is empty.           *)
SinksCanRun ==
    answer.to = "sink" =>
        /\ answer.buffer > 0
        /\ answer.ticks => answer.flush > 0 /\ answer.batch > 0

(* What the file asks for is what the program does: where NewServerRouter, *)
(* Authenticate, the RBAC engine and pii.New skip a name they cannot find, *)
(* validate has made sure that there is none to skip.                      *)
AcceptedIsHonoured ==
    ConfigTypeOK /\ DefaultTakesTheRest /\ RolesAreKnown /\ LevelsAreHeldTo /\ AssignedIsMasked
=============================================================================
