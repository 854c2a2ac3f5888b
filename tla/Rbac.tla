------------------------------- MODULE Rbac -------------------------------
(***************************************************************************)
(* The RBAC engine of internal/rbac/engine.go with the roles mergeRoles    *)
(* (internal/config/config.go) gives it: what NewEngine compiles a role    *)
(* to, what Process decides, the session floors checkClassification keeps, *)
(* and what FilterToolsList shows.  Calls of one session run concurrently: *)
(* the floor is read under a read lock and raised, later, under a write    *)
(* lock.                                                                   *)
(***************************************************************************)
EXTENDS Integers

CONSTANTS Tool,         \* the tools upstream offers
          Session,      \* session identifiers
          Call,         \* requests that can be in Process together
          Level,        \* ranks of the classification levels: 0..n-1
          UserRoles,    \* role sections of the configuration: [names -> Config]
          Assignments,  \* tool_assignments, as ranks: a subset of [Tool -> Level]
          None          \* no session, no tool

Config == [allowed : SUBSET (Tool \cup {"tools/list"}), deny : SUBSET Tool,
           level : Level \cup {-1}]

ASSUME RbacAssumption ==
    /\ Level \subseteq Nat
    /\ \A u \in UserRoles : u \in [DOMAIN u -> Config]
    /\ Assignments \subseteq [Tool -> Level]

VARIABLES config,       \* cfg.Roles after mergeRoles
          roles,        \* e.permissions
          classified,   \* levels and assignments are both configured
          rank,         \* rank of each tool's level, the lowest if unassigned
          roleOf,       \* the role of the identity each session belongs to
          floors,       \* e.sessionFloors
          pc,           \* "raise": the call is between the two locks
          session, tool, \* what each call is about
          seen,         \* the floor the call read, or NoFloor
          reply,        \* what Process returned to the call
          peak,         \* history: highest rank passed in each session
          over,         \* history: that rank when the call read the floor
          raced         \* history: sessions with two calls that saw no floor

policy == <<config, roles, classified, rank, roleOf>>
call == <<pc, session, tool, seen, reply>>
history == <<peak, over, raced>>
vars == <<policy, floors, call, history>>

NoFloor == -1

-----------------------------------------------------------------------------
(* Roles.                                                                  *)

BuiltIn == {"admin", "readonly", "restricted"}
Method == {"initialize", "tools/list", "tools/call", "resources/read",
           "prompts/get", "resources/list"}

\* defaultRoles: "tools/list" is no tool, so restricted may call none.  The
\* names readonly lists are no tools either, and are never looked at.
DefaultRole(name) ==
    [allowed |-> IF name = "admin" THEN {} ELSE {"tools/list"},
     deny |-> {}, level |-> -1]

\* mergeRoles: the user's roles, over and beside the built-in ones.
MergeRoles(user) ==
    [name \in BuiltIn \cup DOMAIN user |->
        IF name \in DOMAIN user THEN user[name] ELSE DefaultRole(name)]

ReadMethods == {"initialize", "tools/list", "resources/read", "prompts/get"}

Methods(name) ==
    CASE name = "admin" -> Method
      [] name = "readonly" -> ReadMethods
      [] name = "restricted" -> ReadMethods \cup {"tools/call"}
      [] OTHER -> {}

\* compileRole; everyTool stands for a nil allowedTools.
CompileRole(name, rc, active) ==
    [methods   |-> Methods(name),
     everyTool |-> name \in {"admin", "readonly"} \/ (name = "restricted" /\ rc.allowed = {}),
     tools     |-> IF name = "restricted" THEN rc.allowed ELSE {},
     noCalls   |-> name = "readonly",
     deny      |-> rc.deny,
     max       |-> IF active THEN rc.level ELSE -1]

Known(s) == roleOf[s] \in DOMAIN roles
Perm(s) == roles[roleOf[s]]

MayUse(s, m) == m = "initialize" \/ (Known(s) /\ m \in Perm(s).methods)

MayCall(s, t) ==
    /\ MayUse(s, "tools/call")
    /\ ~Perm(s).noCalls
    /\ t \notin Perm(s).deny
    /\ Perm(s).everyTool \/ t \in Perm(s).tools

WithinLevel(s, t) == Perm(s).max >= 0 => rank[t] <= Perm(s).max

\* Everything Process checks before the session floor.
Admits(s, t) == MayCall(s, t) /\ (classified => WithinLevel(s, t))

BelowFloor(s, t) == s \in DOMAIN floors /\ rank[t] < floors[s]

\* Process, on a tools/call that nothing else interrupts.
WouldPass(s, t) == Admits(s, t) /\ (classified => ~BelowFloor(s, t))

\* Wrong: a tool at the floor is taken to be below it.
ListedAboveFloor(s, t) ==
    /\ Known(s)
    /\ \/ Perm(s).everyTool \/ Perm(s).noCalls
       \/ /\ t \in Perm(s).tools
          /\ classified => WithinLevel(s, t) /\ (s \in DOMAIN floors => rank[t] > floors[s])

\* FilterToolsList leaves t in the list.
Listed(s, t) ==
    /\ Known(s)
    /\ \/ Perm(s).everyTool \/ Perm(s).noCalls
       \/ /\ t \in Perm(s).tools
          /\ classified => WithinLevel(s, t) /\ ~BelowFloor(s, t)

-----------------------------------------------------------------------------
\* NewEngine, for some configuration; sessions belong to any role, one that
\* is not configured included.
Init ==
    /\ config \in {MergeRoles(user) : user \in UserRoles}
    /\ classified \in BOOLEAN
    /\ roles = [name \in DOMAIN config |-> CompileRole(name, config[name], classified)]
    /\ roleOf \in [Session -> DOMAIN config \cup {"unknown"}]
    /\ rank \in Assignments
    /\ floors = [s \in {} |-> 0]
    /\ pc = [c \in Call |-> "idle"]
    /\ session = [c \in Call |-> None]
    /\ tool = [c \in Call |-> None]
    /\ seen = [c \in Call |-> NoFloor]
    /\ reply = [c \in Call |-> "none"]
    /\ peak = [s \in Session |-> NoFloor]
    /\ over = [c \in Call |-> NoFloor]
    /\ raced = {}

-----------------------------------------------------------------------------
(* Process.  Up to the session floor it reads only what never changes.     *)

Return(c, s, t, result) ==
    /\ session' = [session EXCEPT ![c] = s]
    /\ tool' = [tool EXCEPT ![c] = t]
    /\ reply' = [reply EXCEPT ![c] = result]

\* Any method but tools/call.
Answer(c, s, m) ==
    /\ pc[c] = "idle"
    /\ m # "tools/call"
    /\ Return(c, s, None, IF MayUse(s, m) THEN "passed" ELSE "denied")
    /\ UNCHANGED <<policy, floors, pc, seen, history>>

\* A tools/call denied for its role, its tool or the role's own level.
Deny(c, s, t) ==
    /\ pc[c] = "idle"
    /\ ~Admits(s, t)
    /\ Return(c, s, t, "denied")
    /\ UNCHANGED <<policy, floors, pc, seen, history>>

\* Without classification the rest of Process is skipped.
PassUnclassified(c, s, t) ==
    /\ pc[c] = "idle"
    /\ Admits(s, t)
    /\ ~classified
    /\ Return(c, s, t, "passed")
    /\ UNCHANGED <<policy, floors, pc, seen, history>>

\* RLock: the tool is below the floor.
DenyBelow(c, s, t) ==
    /\ pc[c] = "idle"
    /\ Admits(s, t)
    /\ classified
    /\ BelowFloor(s, t)
    /\ Return(c, s, t, "below")
    /\ UNCHANGED <<policy, floors, pc, seen, history>>

\* Wrong: the floor is read and not compared.
ReadFloorOnly(c, s, t) ==
    /\ pc[c] = "idle"
    /\ Admits(s, t)
    /\ classified
    /\ pc' = [pc EXCEPT ![c] = "raise"]
    /\ Return(c, s, t, "none")
    /\ seen' = [seen EXCEPT ![c] = IF s \in DOMAIN floors THEN floors[s] ELSE NoFloor]
    /\ over' = [over EXCEPT ![c] = peak[s]]
    /\ UNCHANGED <<policy, floors, peak, raced>>

\* RLock: there is no floor, or the tool is not below it.
ReadFloor(c, s, t) ==
    /\ pc[c] = "idle"
    /\ Admits(s, t)
    /\ classified
    /\ ~BelowFloor(s, t)
    /\ pc' = [pc EXCEPT ![c] = "raise"]
    /\ Return(c, s, t, "none")
    /\ seen' = [seen EXCEPT ![c] = IF s \in DOMAIN floors THEN floors[s] ELSE NoFloor]
    /\ over' = [over EXCEPT ![c] = peak[s]]
    /\ UNCHANGED <<policy, floors, peak, raced>>

SetFloor(s, r) == floors' = [x \in DOMAIN floors \cup {s} |->
                                IF x = s THEN r ELSE floors[x]]

Passed(c) ==
    /\ pc' = [pc EXCEPT ![c] = "idle"]
    /\ seen' = [seen EXCEPT ![c] = NoFloor]
    /\ over' = [over EXCEPT ![c] = NoFloor]
    /\ reply' = [reply EXCEPT ![c] = "passed"]
    /\ peak' = [peak EXCEPT ![session[c]] =
                   IF rank[tool[c]] > @ THEN rank[tool[c]] ELSE @]
    /\ raced' = IF seen[c] = NoFloor /\ session[c] \in DOMAIN floors
                THEN raced \cup {session[c]} ELSE raced
    /\ UNCHANGED <<policy, session, tool>>

\* Wrong: the rank is compared with the floor read under the read lock.
RaiseAgainstSeen(c) ==
    /\ pc[c] = "raise"
    /\ LET s == session[c]
           r == rank[tool[c]]
       IN  IF seen[c] = NoFloor \/ r > seen[c] THEN SetFloor(s, r)
           ELSE UNCHANGED floors
    /\ Passed(c)

\* Wrong: the floor follows every call.
RaiseAlways(c) ==
    /\ pc[c] = "raise"
    /\ SetFloor(session[c], rank[tool[c]])
    /\ Passed(c)

\* Lock: compared with the floor there is now, unless none was seen before.
Raise(c) ==
    /\ pc[c] = "raise"
    /\ LET s == session[c]
           r == rank[tool[c]]
       IN  IF seen[c] = NoFloor \/ r > floors[s] THEN SetFloor(s, r)
           ELSE UNCHANGED floors
    /\ Passed(c)

Step(c) ==
    \/ \E s \in Session, m \in Method : Answer(c, s, m)
    \/ \E s \in Session, t \in Tool :
          \/ Deny(c, s, t)
          \/ PassUnclassified(c, s, t)
          \/ DenyBelow(c, s, t)
          \/ ReadFloor(c, s, t)
    \/ Raise(c)

Next == \E c \in Call : Step(c)

Spec == Init /\ [][Next]_vars

-----------------------------------------------------------------------------
\* Types: a floor is a configured level, and a call between the locks is a
\* call of a session on a tool.
TypeOK ==
    /\ classified \in BOOLEAN
    /\ rank \in [Tool -> Level]
    /\ floors \in [DOMAIN floors -> Level]
    /\ DOMAIN floors \subseteq Session
    /\ pc \in [Call -> {"idle", "raise"}]
    /\ session \in [Call -> Session \cup {None}]
    /\ tool \in [Call -> Tool \cup {None}]
    /\ \A c \in Call : pc[c] = "raise" => session[c] \in Session /\ tool[c] \in Tool
    /\ seen \in [Call -> Level \cup {NoFloor}]
    /\ reply \in [Call -> {"none", "passed", "denied", "below"}]
    /\ peak \in [Session -> Level \cup {NoFloor}]
    /\ over \in [Call -> Level \cup {NoFloor}]
    /\ raced \subseteq Session

\* checkClassification: unless two calls of the session both found no floor,
\* the floor is the highest level any call of the session passed with,
\* however its later calls overlapped.
FloorIsPeak ==
    \A s \in Session \ raced :
        peak[s] = (IF s \in DOMAIN floors THEN floors[s] ELSE NoFloor)

\* checkClassification: a call is never let through at a level below one
\* that a call of its session had passed with before it began ("prevents
\* information leakage"), again unless two first calls raced.
NoDeclassification ==
    \A c \in Call :
        pc[c] = "raise" /\ session[c] \notin raced => rank[tool[c]] >= over[c]

\* s has a floor, and no call in progress has missed it.
Settled(s) ==
    /\ s \in DOMAIN floors
    /\ \A c \in Call : pc[c] = "raise" /\ session[c] = s => seen[c] # NoFloor

\* checkClassification: once a session's floor is there for every call in
\* progress to see, it is there for good and never drops.
SettledFloorsRise ==
    [][\A s \in Session : Settled(s) =>
          s \in DOMAIN floors' /\ floors'[s] >= floors[s] /\ Settled(s)']_vars

\* FilterToolsList hides nothing from a session that Process would let it
\* call: such a session may list tools, and finds the tool in the list.
CallableIsListed ==
    \A s \in Session, t \in Tool :
        WouldPass(s, t) => MayUse(s, "tools/list") /\ Listed(s, t)
=============================================================================
