-------------------------- MODULE LifecycleProofs --------------------------
(***************************************************************************)
(* Proofs about SessionStore, for any sessions, clients and times to live, *)
(* about Lifecycle, which runs the store, for any connections, and about   *)
(* Configuration, from which main builds everything.                       *)
(*                                                                         *)
(* Kept says where a session that was deleted may still be: nowhere in the *)
(* map; and once a save began after that, neither in what it encodes nor,  *)
(* once it is completed, in the file.  Reached says of a save in progress  *)
(* that it has reached, or has yet to reach, whatever has been in the map  *)
(* since it began.                                                         *)
(*                                                                         *)
(* That Lifecycle implements SessionStore carries what is proved of the    *)
(* store over to the store as main and its handlers use it.  LifeInv says  *)
(* how far main is when the audit engine closes, and that handlers are     *)
(* gone by then unless Shutdown ran out of time.                           *)
(*                                                                         *)
(* Configuration is at the end, for any files.  ConfigInv says that what   *)
(* is in memory is the file with its defaults, and that it was found valid *)
(* before any component is built from it.                                  *)
(***************************************************************************)
EXTENDS Lifecycle, Configuration, SequenceTheorems, WellFoundedInduction, TLAPS

Kept ==
    /\ deleted \cap DOMAIN sessions = {}
    /\ settled \subseteq deleted /\ gone \subseteq deleted
    /\ (settled \cup gone) \cap DOMAIN copy = {}
    /\ gone \cap DOMAIN disk = {}

Reached ==
    /\ steady \subseteq DOMAIN sessions
    /\ loop \in Saving => steady \subseteq unread \cup DOMAIN copy

\* Nothing of a process that has ended is left.
DownOK == ~up => sessions = NoSessions /\ settled = {} /\ steady = {} /\ loop = "ended"

Inv == TypeOK /\ Kept /\ Reached /\ DownOK

-----------------------------------------------------------------------------
\* A map of sessions, each that of the client it was issued for.
MapOK(map) ==
    /\ DOMAIN map \subseteq DOMAIN issued
    /\ \A s \in DOMAIN map : map[s] \in Session /\ map[s].client = issued[s]

IdsOK(ids) == ids \subseteq DOMAIN issued

IssuedOK == DOMAIN issued \subseteq SessionId /\ \A s \in DOMAIN issued : issued[s] \in Client

\* TypeOK, one conjunct for each variable.
TypeParts ==
    /\ IssuedOK
    /\ MapOK(sessions) /\ MapOK(disk) /\ MapOK(copy)
    /\ now \in 0..MaxTime
    /\ up \in BOOLEAN /\ stopping \in BOOLEAN
    /\ loop \in Saving \cup {"waiting", "cleaned", "ended"}
    /\ IdsOK(unread) /\ IdsOK(deleted) /\ IdsOK(settled) /\ IdsOK(gone) /\ IdsOK(steady)

LEMMA TypeOKParts == TypeOK <=> TypeParts
BY DEF TypeOK, TypeParts, MapOK, IdsOK, IssuedOK

LEMMA InitInv == Init => Inv
<1> SUFFICES ASSUME Init PROVE Inv
  OBVIOUS
<1>1. DOMAIN NoSessions = {}
  BY DEF NoSessions
<1>2. TypeParts
  <2>1. IssuedOK /\ MapOK(sessions) /\ MapOK(disk) /\ MapOK(copy)
    BY <1>1 DEF Init, MapOK, IssuedOK
  <2>2. IdsOK(unread) /\ IdsOK(deleted) /\ IdsOK(settled) /\ IdsOK(gone) /\ IdsOK(steady)
    BY DEF Init, IdsOK
  <2>3. now \in 0..MaxTime
    BY MaxTimeAssumption DEF Init
  <2> QED
    BY <2>1, <2>2, <2>3 DEF Init, TypeParts
<1>3. Kept /\ Reached /\ DownOK
  BY <1>1 DEF Init, Kept, Reached, DownOK, Saving
<1> QED
  BY <1>2, <1>3, TypeOKParts DEF Inv

\* What the locked methods do to the map: they issue new identifiers only,
\* and keep each session its client's.
Methods ==
    \/ \E id \in SessionId, c \in Client : Create(id, c)
    \/ \E id \in SessionId : GetLive(id) \/ GetExpired(id) \/ Delete(id)
    \/ RemoveExpired

LEMMA MethodsKeepMaps ==
  ASSUME TypeParts, Methods
  PROVE  /\ IssuedOK'
         /\ DOMAIN issued \subseteq DOMAIN issued'
         /\ \A s \in DOMAIN issued : issued'[s] = issued[s]
         /\ MapOK(sessions)'
<1> DEFINE Goal == /\ IssuedOK'
                   /\ DOMAIN issued \subseteq DOMAIN issued'
                   /\ \A s \in DOMAIN issued : issued'[s] = issued[s]
                   /\ MapOK(sessions)'
<1> USE DEF IssuedOK
<1>1. now + SessionTTL \in Nat /\ MapOK(sessions)
  BY SessionTTLAssumption, MaxTimeAssumption DEF TypeParts
<1>2. ASSUME NEW id \in SessionId, NEW c \in Client, Create(id, c)
      PROVE  Goal
  <2>1. NewSession(c) \in Session /\ NewSession(c).client = c
    BY <1>1 DEF NewSession, Session
  <2> QED
    BY <1>1, <1>2, <2>1 DEF Create, With, TypeParts, MapOK
<1>3. ASSUME NEW id \in SessionId, GetLive(id)
      PROVE  Goal
  <2>1. [sessions[id] EXCEPT !.expiresAt = now + SessionTTL] \in Session
    BY <1>1, <1>3 DEF GetLive, MapOK, Session
  <2> QED
    BY <1>1, <1>3, <2>1 DEF GetLive, TypeParts, MapOK, Session
<1>4. ASSUME NEW ids, sessions' = Removing(ids), UNCHANGED issued
      PROVE  Goal
  BY <1>1, <1>4 DEF Removing, TypeParts, MapOK
<1> QED
  BY <1>2, <1>3, <1>4 DEF Methods, GetExpired, Delete, RemoveExpired

\* What MapOK and IdsOK say stays true when identifiers are issued.
LEMMA IssuingKeeps ==
  ASSUME DOMAIN issued \subseteq DOMAIN issued',
         \A s \in DOMAIN issued : issued'[s] = issued[s]
  PROVE  /\ MapOK(disk) /\ UNCHANGED disk => MapOK(disk)'
         /\ MapOK(copy) /\ UNCHANGED copy => MapOK(copy)'
         /\ \A ids : IdsOK(ids) => ids \subseteq DOMAIN issued'
<1>1. MapOK(disk) /\ UNCHANGED disk => MapOK(disk)'
  BY DEF MapOK
<1>2. MapOK(copy) /\ UNCHANGED copy => MapOK(copy)'
  BY DEF MapOK
<1> QED
  BY <1>1, <1>2 DEF IdsOK

\* No step leaves the types.
LEMMA NextTypeOK == ASSUME TypeParts, [Next]_vars PROVE TypeParts'
<1> DEFINE Ids == /\ IdsOK(unread) /\ IdsOK(deleted) /\ IdsOK(settled)
                  /\ IdsOK(gone) /\ IdsOK(steady)
           Maps == IssuedOK /\ MapOK(sessions) /\ MapOK(disk) /\ MapOK(copy)
           Rest == /\ now \in 0..MaxTime /\ up \in BOOLEAN /\ stopping \in BOOLEAN
                   /\ loop \in Saving \cup {"waiting", "cleaned", "ended"}
<1>1. Ids /\ Maps /\ Rest
  BY DEF TypeParts
<1>2. ASSUME Methods, UNCHANGED <<disk, copy>>
      PROVE  /\ Maps' /\ DOMAIN issued \subseteq DOMAIN issued'
  BY <1>1, <1>2, MethodsKeepMaps, IssuingKeeps
<1>3. ASSUME NEW id \in SessionId, NEW c \in Client, HandleCreate(id, c)
      PROVE  Ids' /\ Maps'
  <2>1. Methods /\ id \in DOMAIN issued'
    BY <1>3 DEF HandleCreate, Methods, Create, With
  <2> QED
    BY <1>1, <1>2, <1>3, <2>1 DEF HandleCreate, history, IdsOK
<1>4. ASSUME Methods, RecordRemoved, UNCHANGED <<disk, unread, copy>>
      PROVE  Ids' /\ Maps'
  <2>1. DOMAIN sessions \subseteq DOMAIN issued
    BY <1>1 DEF MapOK
  <2> QED
    BY <1>1, <1>2, <1>4, <2>1 DEF RecordRemoved, IdsOK
<1>5. ASSUME NEW id \in SessionId, HandleGet(id) \/ HandleDelete(id)
      PROVE  Ids' /\ Maps'
  <2>1. Methods
    BY <1>5 DEF HandleGet, HandleDelete, Methods
  <2>2. RecordRemoved /\ UNCHANGED <<disk, unread, copy>>
    BY <1>5 DEF HandleGet, HandleDelete, saving
  <2> QED
    BY <1>4, <2>1, <2>2
<1>6. ASSUME OnTick
      PROVE  Ids' /\ Maps'
  <2>1. Methods /\ RecordRemoved /\ UNCHANGED <<disk, unread, copy>>
    BY <1>6 DEF OnTick, Methods, saving
  <2> QED
    BY <1>4, <2>1
<1>7. ASSUME UNCHANGED issued,
             sessions' \in {sessions, disk, NoSessions}, disk' \in {disk, copy},
             copy' \in {copy, NoSessions} \/ MapOK(copy)'
      PROVE  Maps'
  <2>1. MapOK(NoSessions)
    BY DEF MapOK, NoSessions
  <2>2. IssuedOK'
    BY <1>1, <1>7 DEF IssuedOK
  <2>3. MapOK(sessions)'
    BY <1>1, <1>7, <2>1 DEF MapOK
  <2>4. MapOK(disk)'
    BY <1>1, <1>7, <2>1 DEF MapOK
  <2>5. MapOK(copy)'
    BY <1>1, <1>7, <2>1 DEF MapOK
  <2> QED
    BY <2>2, <2>3, <2>4, <2>5
<1>8. ASSUME BeginSave
      PROVE  Ids' /\ Maps'
  <2>1. DOMAIN sessions \subseteq DOMAIN issued
    BY <1>1 DEF MapOK
  <2> QED
    BY <1>1, <1>7, <1>8, <2>1 DEF BeginSave, IdsOK
<1>9. ASSUME NEW id \in SessionId, ReadOne(id)
      PROVE  Ids' /\ Maps'
  <2>1. MapOK(copy)'
    BY <1>1, <1>9 DEF ReadOne, With, MapOK
  <2> QED
    BY <1>1, <1>7, <1>9, <2>1 DEF ReadOne, history, IdsOK
<1>10. ASSUME Commit \/ SaveFails
       PROVE  Ids' /\ Maps'
  BY <1>1, <1>7, <1>10 DEF Commit, SaveFails, saving, history, IdsOK
<1>11. ASSUME Stop \/ Tick \/ UNCHANGED vars
       PROVE  Ids' /\ Maps'
  BY <1>1, <1>7, <1>11 DEF Stop, Tick, vars, saving, history, IdsOK
<1>12. ASSUME Down \/ Restart
       PROVE  Ids' /\ Maps'
  BY <1>1, <1>7, <1>12 DEF Down, Restart, saving, IdsOK
<1>13. Ids' /\ Maps'
  BY <1>3, <1>5, <1>6, <1>7, <1>8, <1>9, <1>10, <1>11, <1>12 DEF Next, Exit, Crash
<1>14. Rest'
  <2>1. now' \in 0..MaxTime
    BY <1>1, MaxTimeAssumption DEF Next, HandleCreate, HandleGet, HandleDelete, ReadOne, OnTick,
       BeginSave, Commit, SaveFails, Stop, Exit, Crash, Down, Restart, Tick, vars
  <2>2. up' \in BOOLEAN /\ stopping' \in BOOLEAN
    BY <1>1 DEF Next, HandleCreate, HandleGet, HandleDelete, ReadOne, OnTick,
       BeginSave, Commit, SaveFails, Stop, Exit, Crash, Down, Restart, Tick, vars
  <2>3. loop' \in Saving \cup {"waiting", "cleaned", "ended"}
    BY <1>1 DEF Next, HandleCreate, HandleGet, HandleDelete, ReadOne, OnTick,
       BeginSave, Commit, SaveFails, AfterSave, Stop, Exit, Crash, Down, Restart, Tick, Saving, vars
  <2> QED
    BY <2>1, <2>2, <2>3
<1> QED
  BY <1>13, <1>14 DEF TypeParts

-----------------------------------------------------------------------------
\* Get, Delete and cleanup only remove sessions.
LEMMA OthersRemove ==
  ASSUME (\E id \in SessionId : HandleGet(id) \/ HandleDelete(id)) \/ OnTick
  PROVE  /\ DOMAIN sessions' \subseteq DOMAIN sessions
         /\ RecordRemoved
         /\ UNCHANGED <<disk, up, unread, copy>>
         /\ loop' \in {loop, "cleaned"}
         /\ up
<1>1. DOMAIN sessions' \subseteq DOMAIN sessions
  BY DEF HandleGet, HandleDelete, OnTick, GetLive, GetExpired, Delete, RemoveExpired, Removing
<1> QED
  BY <1>1 DEF HandleGet, HandleDelete, OnTick, saving

\* A session that was deleted is not stored again, for no identifier is
\* issued twice; and a save begins without those deleted before it.
LEMMA NextKept == ASSUME TypeParts, Kept, DownOK, [Next]_vars PROVE Kept'
<1>1. ASSUME NEW id \in SessionId, NEW c \in Client, HandleCreate(id, c)
      PROVE  Kept'
  <2>1. DOMAIN sessions' = DOMAIN sessions \cup {id} /\ id \notin deleted
    BY <1>1 DEF HandleCreate, Create, With, TypeParts, IdsOK
  <2> QED
    BY <1>1, <2>1 DEF HandleCreate, history, Kept
<1>2. CASE (\E id \in SessionId : HandleGet(id) \/ HandleDelete(id)) \/ OnTick
  BY <1>2, OthersRemove DEF Kept, RecordRemoved
<1>3. CASE BeginSave
  <2>1. DOMAIN copy' = {}
    BY <1>3 DEF BeginSave, NoSessions
  <2> QED
    BY <1>3, <2>1 DEF BeginSave, Kept
<1>4. ASSUME NEW id \in SessionId, ReadOne(id)
      PROVE  Kept'
  <2>1. DOMAIN copy' \subseteq DOMAIN copy \cup ({id} \cap DOMAIN sessions)
    BY <1>4 DEF ReadOne, With
  <2> QED
    BY <1>4, <2>1 DEF ReadOne, history, Kept
<1>5. CASE Commit
  BY <1>5 DEF Commit, saving, Kept
<1>6. CASE SaveFails \/ Stop \/ Tick \/ UNCHANGED vars
  BY <1>6 DEF SaveFails, Stop, Tick, vars, saving, history, Kept
<1>7. CASE Down
  <2>1. DOMAIN sessions' = {} /\ DOMAIN copy' = {}
    BY <1>7 DEF Down, NoSessions
  <2> QED
    BY <1>7, <2>1 DEF Down, Kept
<1>8. CASE Restart
  <2>1. settled = {} /\ DOMAIN sessions' \subseteq DOMAIN disk
    BY <1>8 DEF Restart, DownOK, NoSessions
  <2> QED
    BY <1>8, <2>1 DEF Restart, saving, Kept
<1> QED
  BY <1>1, <1>2, <1>3, <1>4, <1>5, <1>6, <1>7, <1>8 DEF Next, Exit, Crash

\* The encoder has reached, or has still to reach, all that stayed.
LEMMA NextReached == ASSUME Reached, DownOK, [Next]_vars PROVE Reached'
<1>1. ASSUME NEW id \in SessionId, NEW c \in Client, HandleCreate(id, c)
      PROVE  Reached'
  <2>1. DOMAIN sessions' = DOMAIN sessions \cup {id} /\ unread \subseteq unread'
    BY <1>1 DEF HandleCreate, Create, With
  <2> QED
    BY <1>1, <2>1 DEF HandleCreate, history, Reached
<1>2. CASE (\E id \in SessionId : HandleGet(id) \/ HandleDelete(id)) \/ OnTick
  BY <1>2, OthersRemove DEF Reached, RecordRemoved, Saving
<1>3. CASE BeginSave
  BY <1>3 DEF BeginSave, Reached
<1>4. ASSUME NEW id \in SessionId, ReadOne(id)
      PROVE  Reached'
  <2>1. DOMAIN copy' = DOMAIN copy \cup ({id} \cap DOMAIN sessions)
    BY <1>4 DEF ReadOne, With
  <2> QED
    BY <1>4, <2>1 DEF ReadOne, history, Reached
<1>5. CASE Commit \/ SaveFails
  BY <1>5 DEF Commit, SaveFails, AfterSave, saving, history, Saving, Reached
<1>6. CASE Stop \/ Tick \/ UNCHANGED vars
  BY <1>6 DEF Stop, Tick, vars, saving, history, Reached
<1>7. CASE Down
  BY <1>7 DEF Down, Reached
<1>8. CASE Restart
  BY <1>8 DEF Restart, saving, DownOK, Reached, Saving
<1> QED
  BY <1>1, <1>2, <1>3, <1>4, <1>5, <1>6, <1>7, <1>8 DEF Next, Exit, Crash

LEMMA NextDownOK == ASSUME DownOK, [Next]_vars PROVE DownOK'
<1>1. CASE Down
  BY <1>1 DEF Down, DownOK
<1>2. CASE up' = TRUE
  BY <1>2 DEF DownOK
<1>3. CASE Tick \/ UNCHANGED vars
  BY <1>3 DEF Tick, vars, history, DownOK
<1> QED
  BY <1>1, <1>2, <1>3 DEF Next, HandleCreate, HandleGet, HandleDelete, ReadOne, OnTick,
     BeginSave, Commit, SaveFails, Stop, Exit, Crash, Restart

LEMMA NextInv == ASSUME Inv, [Next]_vars PROVE Inv'
<1>1. TypeParts
  BY TypeOKParts DEF Inv
<1>2. TypeParts'
  BY <1>1, NextTypeOK
<1>3. TypeOK'
  BY <1>2 DEF TypeOK, TypeParts, MapOK, IdsOK, IssuedOK
<1> QED
  BY <1>1, <1>3, NextKept, NextReached, NextDownOK DEF Inv

-----------------------------------------------------------------------------
(* The types, and that each session of the map, of a save in progress and  *)
(* of the file is that of the client it was issued for.                    *)
THEOREM TypeCorrect == Spec => []TypeOK
<1>1. Inv /\ [Next]_vars => Inv'
  BY NextInv
<1>2. Inv => TypeOK
  BY DEF Inv
<1> QED
  BY InitInv, <1>1, <1>2, PTL DEF Spec

(* What was deleted before a completed save began is brought back by no    *)
(* restart, although Save reads the map without the lock.                  *)
THEOREM NoneComesBack == Spec => []DeletedStaysDeleted
<1>1. Inv /\ [Next]_vars => Inv'
  BY NextInv
<1>2. Inv => DeletedStaysDeleted
  BY DEF Inv, Kept, DeletedStaysDeleted
<1> QED
  BY InitInv, <1>1, <1>2, PTL DEF Spec

(* A completed save has every session that was there throughout.           *)
THEOREM SavesAreComplete == Spec => SaveIsComplete
<1>1. Inv /\ [Next]_vars => Inv'
  BY NextInv
<1>2. Inv /\ [Next]_vars => [disk' # disk => steady \subseteq DOMAIN disk']_vars
  <2>1. ASSUME Inv, Next, disk' # disk
        PROVE  steady \subseteq DOMAIN disk'
    <3>1. Commit
      BY <2>1 DEF Next, HandleCreate, HandleGet, HandleDelete, ReadOne, OnTick, BeginSave,
         SaveFails, Stop, Exit, Crash, Down, Restart, Tick
    <3> QED
      BY <2>1, <3>1 DEF Inv, Reached, Commit
  <2> QED
    BY <2>1
<1> QED
  BY InitInv, <1>1, <1>2, PTL DEF Spec, SaveIsComplete

-----------------------------------------------------------------------------
(* Lifecycle.                                                              *)

Quiet == main \in {"returning", "closing", "closed", "last"} => forced \/ handler = AllIdle

AuditOK ==
    /\ main \in {"serving", "signalled", "shutting", "returning"} => audit = "open"
    /\ main = "closing" => audit = "closing"
    /\ main \in {"closed", "last"} => audit = "closed"

LifeInv ==
    /\ LifeTypeOK
    /\ Quiet /\ AuditOK
    /\ late => forced
    /\ ~up => ~stopping

-----------------------------------------------------------------------------
\* Main and the handlers do to the store what SessionStore says may be done.
LEMMA LifeStepIsStoreStep == [LifeNext]_lifeVars => [Next]_vars
<1> SUFFICES ASSUME [LifeNext]_lifeVars PROVE [Next]_vars
  OBVIOUS
<1>1. ASSUME NEW r \in Request, Accept(r) \/ LogAndReturn(r)
      PROVE  UNCHANGED vars
  BY <1>1 DEF Accept, LogAndReturn
<1>2. ASSUME NEW r \in Request, UseSession(r)
      PROVE  [Next]_vars
  BY <1>2 DEF UseSession, Next
<1>3. CASE Signal \/ ShutdownReturns \/ ShutdownTimesOut \/ CloseAudit \/ AuditClosed \/ StopCleanupAgain
  BY <1>3 DEF Signal, ShutdownReturns, ShutdownTimesOut, CloseAudit, AuditClosed, StopCleanupAgain
<1>4. CASE StopBackground \/ Start \/ Background
  BY <1>4 DEF StopBackground, Start, Background, Next
<1>5. CASE Killed \/ StopSessionsAgain
  BY <1>5 DEF Killed, StopSessionsAgain, Panic, Ends, Next
<1>6. CASE UNCHANGED lifeVars
  BY <1>6 DEF lifeVars
<1> QED
  BY <1>1, <1>2, <1>3, <1>4, <1>5, <1>6 DEF LifeNext, MainReturns

LEMMA InitLifeInv == LifeInit => LifeInv
<1> SUFFICES ASSUME LifeInit PROVE LifeInv
  OBVIOUS
<1>1. LifeTypeOK
  BY DEF LifeInit, Init, LifeTypeOK, AllIdle
<1> QED
  BY <1>1 DEF LifeInit, Init, LifeInv, Quiet, AuditOK

\* Only Stop, the end of the process and its restart change these two.
LEMMA StoreSteps ==
  ASSUME \/ \E r \in Request : UseSession(r)
         \/ Background
  PROVE  UNCHANGED <<up, stopping>>
BY DEF UseSession, Background, HandleCreate, HandleGet, HandleDelete, OnTick, BeginSave, Commit,
   SaveFails, ReadOne, Tick, vars

LEMMA NextLifeInv == ASSUME LifeInv, [LifeNext]_lifeVars PROVE LifeInv'
<1> USE DEF LifeInv, Quiet, AuditOK
<1>1. ASSUME NEW r \in Request, Accept(r)
      PROVE  LifeInv'
  BY <1>1 DEF Accept, LifeTypeOK, vars
<1>2. ASSUME NEW r \in Request, UseSession(r)
      PROVE  LifeInv'
  <2>1. main \notin {"returning", "closing", "closed", "last"} \/ forced
    BY <1>2 DEF UseSession, AllIdle
  <2>2. UNCHANGED <<up, stopping>>
    BY <1>2, StoreSteps
  <2> QED
    BY <1>2, <2>1, <2>2 DEF UseSession, LifeTypeOK
<1>3. ASSUME NEW r \in Request, LogAndReturn(r)
      PROVE  LifeInv'
  <2>1. main \notin {"returning", "closing", "closed", "last"} \/ forced
    BY <1>3 DEF LogAndReturn, AllIdle
  <2> QED
    BY <1>3, <2>1 DEF LogAndReturn, LifeTypeOK, vars
<1>4. CASE Signal \/ ShutdownReturns \/ ShutdownTimesOut \/ CloseAudit \/ AuditClosed \/ StopCleanupAgain
  <2>1. CASE Signal
    BY <2>1 DEF Signal, LifeTypeOK, vars
  <2>2. CASE ShutdownReturns
    BY <2>2 DEF ShutdownReturns, LifeTypeOK, vars
  <2>3. CASE ShutdownTimesOut
    BY <2>3 DEF ShutdownTimesOut, LifeTypeOK, vars
  <2>4. CASE CloseAudit
    BY <2>4 DEF CloseAudit, LifeTypeOK, vars
  <2>5. CASE AuditClosed
    BY <2>5 DEF AuditClosed, LifeTypeOK, vars
  <2>6. CASE StopCleanupAgain
    BY <2>6 DEF StopCleanupAgain, LifeTypeOK, vars
  <2> QED
    BY <1>4, <2>1, <2>2, <2>3, <2>4, <2>5, <2>6
<1>5. CASE StopBackground
  BY <1>5 DEF StopBackground, Stop, LifeTypeOK
<1>6. CASE Start
  BY <1>6 DEF Start, Restart, LifeTypeOK, AllIdle
<1>7. CASE Killed \/ StopSessionsAgain
  <2>1. /\ main' = "ended" /\ handler' = AllIdle
        /\ up' = FALSE /\ stopping' = FALSE
        /\ UNCHANGED <<audit, closed, forced, late>>
    BY <1>7 DEF Killed, StopSessionsAgain, Panic, Ends, Crash, Exit, Down
  <2>2. panicked' \in BOOLEAN
    BY <1>7 DEF Killed, StopSessionsAgain, Panic, LifeTypeOK
  <2> QED
    BY <2>1, <2>2 DEF LifeTypeOK, AllIdle
<1>8. CASE Background
  BY <1>8, StoreSteps DEF Background, processVars, LifeTypeOK
<1>9. CASE UNCHANGED lifeVars
  BY <1>9 DEF lifeVars, processVars, vars, LifeTypeOK
<1> QED
  BY <1>1, <1>2, <1>3, <1>4, <1>5, <1>6, <1>7, <1>8, <1>9 DEF LifeNext, MainReturns

-----------------------------------------------------------------------------
(* main and its handlers keep to what SessionStore allows its environment. *)
THEOREM ImplementsSessionStore == LifeSpec => UsesTheSessionStore
<1>1. LifeInit => Init
  BY DEF LifeInit
<1> QED
  BY <1>1, LifeStepIsStoreStep, PTL DEF LifeSpec, UsesTheSessionStore, Spec

(* A request is logged to a closed engine only when Shutdown ran out of    *)
(* time, however many connections there are.                               *)
THEOREM AnsweredIsLogged == LifeSpec => []LoggedBeforeClose
<1>1. LifeSpec => []LifeInv
  <2>1. LifeInv /\ [LifeNext]_lifeVars => LifeInv'
    BY NextLifeInv
  <2> QED
    BY InitLifeInv, <2>1, PTL DEF LifeSpec
<1>2. LifeSpec => []TypeOK
  BY ImplementsSessionStore, TypeCorrect, PTL DEF UsesTheSessionStore
<1>3. LifeInv /\ TypeOK => LoggedBeforeClose
  BY DEF LifeInv, LoggedBeforeClose
<1> QED
  BY <1>1, <1>2, <1>3, PTL

(* The panic of the second Stop comes when the handlers have returned or   *)
(* were given up, and the audit engine is closed.                          *)
THEOREM PanicComesLast == LifeSpec => PanicsLast
<1>1. LifeInv /\ [LifeNext]_lifeVars => LifeInv'
  BY NextLifeInv
<1>2. LifeInv /\ [LifeNext]_lifeVars =>
        [panicked' # panicked /\ panicked' =>
             /\ main = "last" /\ audit = "closed"
             /\ forced \/ handler = AllIdle]_lifeVars
  <2>1. ASSUME LifeInv, LifeNext, panicked' # panicked, panicked'
        PROVE  main = "last" /\ audit = "closed" /\ (forced \/ handler = AllIdle)
    <3>1. StopSessionsAgain
      BY <2>1 DEF LifeNext, MainReturns, Accept, UseSession, LogAndReturn, Signal, StopBackground,
         ShutdownReturns, ShutdownTimesOut, CloseAudit, AuditClosed, StopCleanupAgain, Killed,
         Start, Background, processVars
    <3> QED
      BY <2>1, <3>1 DEF StopSessionsAgain, LifeInv, Quiet, AuditOK
  <2> QED
    BY <2>1
<1> QED
  BY InitLifeInv, <1>1, <1>2, PTL DEF LifeSpec, PanicsLast

(* What is proved of the store holds of it in the running program.         *)
THEOREM NoneComesBackInProgram == LifeSpec => []DeletedStaysDeleted
BY ImplementsSessionStore, NoneComesBack, PTL DEF UsesTheSessionStore

THEOREM SavesAreCompleteInProgram == LifeSpec => SaveIsComplete
BY ImplementsSessionStore, SavesAreComplete, PTL DEF UsesTheSessionStore
-----------------------------------------------------------------------------
(* Configuration.  CustomRoles is a recursive function: what it returns is *)
(* proved by induction, from there being a least natural number among the  *)
(* exceptions.                                                             *)

LEMMA LeastNatural ==
  ASSUME NEW T, T \subseteq Nat, T # {}
  PROVE  \E n \in T : \A m \in T : n <= m
<1>1. PICK n \in T : \A m \in T : ~(<<m, n>> \in OpToRel(<, Nat))
  BY NatLessThanWellFounded, WFMin
<1>2. \A m \in T : m < n => <<m, n>> \in OpToRel(<, Nat)
  BY DEF OpToRel
<1>3. \A m \in T : ~(m < n)
  BY <1>1, <1>2, Zenon
<1> QED
  BY <1>3

LEMMA Induction ==
  ASSUME NEW S, 0 \in S, \A n \in Nat : n \in S => n + 1 \in S
  PROVE  Nat \subseteq S
<1> SUFFICES ASSUME Nat \ S # {} PROVE FALSE
  OBVIOUS
<1>1. PICK n \in Nat \ S : \A m \in Nat \ S : n <= m
  BY LeastNatural
<1>2. n - 1 \in Nat
  BY <1>1
<1> QED
  BY <1>1, <1>2

RoleConfig == [name : Name, level : Name]

IsCustom(role) == role.name \notin Range(BuiltIn)

CustomStep(roles, f, n) ==
    IF n = 0 THEN <<>>
    ELSE IF roles[n].name \in Range(BuiltIn) THEN f[n - 1]
    ELSE Append(f[n - 1], roles[n])

CustomTo(roles, n, f) == f = [i \in 0..n |-> CustomStep(roles, f, i)]

LEMMA CustomIsDefined ==
  ASSUME NEW roles \in Seq(RoleConfig)
  PROVE  \E f : CustomTo(roles, Len(roles), f) /\ CustomRoles(roles) = f[Len(roles)]
<1> DEFINE S == {n \in Nat : \E f : CustomTo(roles, n, f)}
<1>1. 0 \in S
  <2>1. CustomTo(roles, 0, [i \in 0..0 |-> <<>>])
    BY DEF CustomTo, CustomStep
  <2> QED
    BY <2>1
<1>2. ASSUME NEW n \in Nat, n \in S PROVE n + 1 \in S
  <2>1. PICK f : CustomTo(roles, n, f)
    BY <1>2
  <2> DEFINE x == CustomStep(roles, f, n + 1)
             g == [i \in 0..n + 1 |-> IF i = n + 1 THEN x ELSE f[i]]
  <2>2. \A i \in 0..n : f[i] = CustomStep(roles, f, i)
    BY <2>1 DEF CustomTo
  <2>3. \A i \in 0..n + 1 : i # 0 => i - 1 \in 0..n /\ g[i - 1] = f[i - 1]
    OBVIOUS
  <2>4. \A i \in 0..n + 1 : CustomStep(roles, g, i) = CustomStep(roles, f, i)
    BY <2>3 DEF CustomStep
  <2>5. \A i \in 0..n + 1 : g[i] = CustomStep(roles, g, i)
    BY <2>2, <2>4
  <2> HIDE DEF x
  <2>6. CustomTo(roles, n + 1, g)
    BY <2>5 DEF CustomTo
  <2> QED
    BY <2>6
<1> HIDE DEF S
<1>3. Len(roles) \in S
  BY <1>1, <1>2, Induction
<1>4. \E f : CustomTo(roles, Len(roles), f)
  BY <1>3 DEF S
<1>5. CustomRoles(roles) = (CHOOSE f : CustomTo(roles, Len(roles), f))[Len(roles)]
  BY DEF CustomRoles, CustomTo, CustomStep
<1> QED
  BY <1>4, <1>5, Zenon

\* t has the custom roles among the first n, and no other.
Gathers(t, roles, n) ==
    /\ t \in Seq(RoleConfig)
    /\ \A j \in 1..Len(t) : \E i \in 1..n : t[j] = roles[i] /\ IsCustom(roles[i])
    /\ \A i \in 1..n : IsCustom(roles[i]) => \E j \in 1..Len(t) : t[j] = roles[i]

LEMMA CustomAreGathered ==
  ASSUME NEW roles \in Seq(RoleConfig)
  PROVE  Gathers(CustomRoles(roles), roles, Len(roles))
<1>1. PICK f : CustomTo(roles, Len(roles), f) /\ CustomRoles(roles) = f[Len(roles)]
  BY CustomIsDefined
<1> DEFINE L == Len(roles)
           S == {n \in Nat : n <= L => Gathers(f[n], roles, n)}
<1>2. \A i \in 0..L : f[i] = CustomStep(roles, f, i)
  BY <1>1 DEF CustomTo
<1>3. L \in Nat /\ \A i \in 1..L : roles[i] \in RoleConfig
  OBVIOUS
<1>4. 0 \in S
  <2>1. f[0] = <<>>
    BY <1>2, <1>3 DEF CustomStep
  <2>2. PICK t : t = f[0]
    OBVIOUS
  <2>3. t \in Seq(RoleConfig) /\ Len(t) = 0
    BY <2>1, <2>2
  <2>4. Gathers(t, roles, 0)
    BY <2>3 DEF Gathers
  <2> QED
    BY <2>2, <2>4
<1>5. ASSUME NEW n \in Nat, n \in S PROVE n + 1 \in S
  <2> SUFFICES ASSUME n + 1 <= L PROVE Gathers(f[n + 1], roles, n + 1)
    OBVIOUS
  <2>1. Gathers(f[n], roles, n) /\ n + 1 \in 1..L /\ n + 1 \in 0..L
    BY <1>3, <1>5
  <2>2. f[n + 1] = IF IsCustom(roles[n + 1]) THEN Append(f[n], roles[n + 1]) ELSE f[n]
    BY <1>2, <2>1 DEF CustomStep, IsCustom
  <2>3. CASE ~IsCustom(roles[n + 1])
    BY <2>1, <2>2, <2>3 DEF Gathers
  <2>4. CASE IsCustom(roles[n + 1])
    <3> DEFINE t == f[n]
               u == Append(t, roles[n + 1])
    <3>1. t \in Seq(RoleConfig) /\ roles[n + 1] \in RoleConfig
      BY <1>3, <2>1 DEF Gathers
    <3>2. /\ u \in Seq(RoleConfig) /\ Len(u) = Len(t) + 1 /\ u[Len(t) + 1] = roles[n + 1]
          /\ \A j \in 1..Len(t) : u[j] = t[j]
      BY <3>1
    <3> HIDE DEF u
    <3>3. \A j \in 1..Len(u) : \E i \in 1..n + 1 : u[j] = roles[i] /\ IsCustom(roles[i])
      <4>1. \A j \in 1..Len(t) : \E i \in 1..n + 1 : u[j] = roles[i] /\ IsCustom(roles[i])
        <5>1. \A j \in 1..Len(t) : \E i \in 1..n : t[j] = roles[i] /\ IsCustom(roles[i])
          BY <2>1 DEF Gathers
        <5> QED
          BY <3>2, <5>1
      <4>2. n + 1 \in 1..n + 1
        OBVIOUS
      <4>3. \A j \in 1..Len(u) : j \in 1..Len(t) \/ j = Len(t) + 1
        BY <3>1, <3>2
      <4> QED
        BY <2>4, <3>2, <4>1, <4>2, <4>3
    <3>4. \A i \in 1..n + 1 : IsCustom(roles[i]) => \E j \in 1..Len(u) : u[j] = roles[i]
      BY <2>1, <2>4, <3>1, <3>2 DEF Gathers
    <3> QED
      <4>1. Gathers(u, roles, n + 1)
        BY <3>2, <3>3, <3>4 DEF Gathers
      <4> QED
        BY <2>2, <2>4, <4>1 DEF u
  <2> QED
    BY <2>3, <2>4
<1> HIDE DEF S
<1>6. L \in S
  BY <1>3, <1>4, <1>5, Induction
<1> QED
  BY <1>1, <1>3, <1>6 DEF S
LEMMA GreatestBelow ==
  ASSUME NEW n \in Nat, NEW T, T \subseteq 1..n, T # {}
  PROVE  \E j \in T : \A k \in T : k <= j
<1> DEFINE D == {n - j : j \in T}
<1>1. D \subseteq Nat /\ D # {}
  <2>1. PICK j : j \in T
    OBVIOUS
  <2>2. n - j \in D
    BY <2>1
  <2> QED
    BY <2>2
<1> HIDE DEF D
<1>2. PICK d \in D : \A e \in D : d <= e
  BY <1>1, LeastNatural
<1> USE DEF D
<1>3. PICK j \in T : d = n - j
  BY <1>2
<1>4. \A k \in T : n - j <= n - k
  BY <1>2, <1>3
<1>5. \A k \in T : k <= j
  BY <1>3, <1>4
<1> QED
  BY <1>5

BuiltInNames == {"admin", "readonly", "restricted"}

LEMMA BuiltInAre ==
  /\ DOMAIN BuiltIn = 1..3 /\ Range(BuiltIn) = BuiltInNames
  /\ \A i \in 1..3 : BuiltIn[i] \in Name /\ BuiltIn[i] \in BuiltInNames
<1>1. DOMAIN BuiltIn = 1..3
  BY DEF BuiltIn
<1>2. BuiltIn[1] = "admin" /\ BuiltIn[2] = "readonly" /\ BuiltIn[3] = "restricted"
  BY DEF BuiltIn
<1>3. 1..3 = {1, 2, 3}
  OBVIOUS
<1> HIDE DEF BuiltIn
<1>4. Range(BuiltIn) = BuiltInNames
  BY <1>1, <1>2, <1>3 DEF Range, BuiltInNames
<1>5. \A s \in BuiltInNames : s \in Name
  BY NameAssumption DEF BuiltInNames
<1>6. \A i \in 1..3 : BuiltIn[i] \in BuiltInNames
  BY <1>2, <1>3 DEF BuiltInNames
<1> QED
  BY <1>1, <1>4, <1>5, <1>6

\* What is made of a built-in role that the file defines, or does not.
BuiltInRole(roles, b) ==
    LET own == Named(roles, b)
    IN  IF own = {} THEN [name |-> b, level |-> ""]
        ELSE roles[CHOOSE j \in own : \A k \in own : k <= j]

LEMMA BuiltInRoleIs ==
  ASSUME NEW roles \in Seq(RoleConfig), NEW b \in Name
  PROVE  /\ BuiltInRole(roles, b) \in RoleConfig
         /\ BuiltInRole(roles, b).name = b
         /\ Named(roles, b) # {} => \E i \in 1..Len(roles) : BuiltInRole(roles, b) = roles[i]
<1> DEFINE own == Named(roles, b)
<1>1. CASE own = {}
  <2>1. BuiltInRole(roles, b) = [name |-> b, level |-> ""]
    BY <1>1 DEF BuiltInRole
  <2>2. [name |-> b, level |-> ""] \in RoleConfig
    <3>1. "" \in Name
      BY NameAssumption
    <3> QED
      BY <3>1 DEF RoleConfig
  <2>3. [name |-> b, level |-> ""].name = b
    OBVIOUS
  <2> QED
    BY <1>1, <2>1, <2>2, <2>3
<1>2. CASE own # {}
  <2>1. own \subseteq 1..Len(roles) /\ Len(roles) \in Nat
    BY DEF Named
  <2> DEFINE j == CHOOSE j \in own : \A k \in own : k <= j
  <2>2. j \in own
    BY <1>2, <2>1, GreatestBelow
  <2>3. BuiltInRole(roles, b) = roles[j]
    BY <1>2 DEF BuiltInRole
  <2> HIDE DEF j
  <2>4. j \in 1..Len(roles) /\ roles[j].name = b /\ roles[j] \in RoleConfig
    BY <2>1, <2>2 DEF Named
  <2> QED
    BY <2>3, <2>4
<1> QED
  BY <1>1, <1>2

\* A merged role is one of the file's, or a built-in one the file leaves alone.
IsMerged(role, roles) ==
    \/ \E i \in 1..Len(roles) : role = roles[i]
    \/ role.name \in BuiltInNames /\ Named(roles, role.name) = {}

LEMMA MergedAre ==
  ASSUME NEW roles \in Seq(RoleConfig)
  PROVE  /\ MergeRoles(roles) \in Seq(RoleConfig)
         /\ \A j \in 1..Len(MergeRoles(roles)) : IsMerged(MergeRoles(roles)[j], roles)
         /\ NamesOf(MergeRoles(roles)) = BuiltInNames \cup NamesOf(roles)
<1>0. PICK m : m = MergeRoles(roles)
  OBVIOUS
<1>1. PICK b : b = [i \in 1..3 |-> BuiltInRole(roles, BuiltIn[i])]
  OBVIOUS
<1>2. PICK c : c = CustomRoles(roles)
  OBVIOUS
<1>3. m = b \o c
  BY <1>0, <1>1, <1>2, BuiltInAre DEF MergeRoles, BuiltInRole
<1>4. Gathers(c, roles, Len(roles))
  BY <1>2, CustomAreGathered
<1>5. \A i \in 1..3 : /\ b[i] \in RoleConfig /\ b[i].name = BuiltIn[i]
                      /\ Named(roles, BuiltIn[i]) # {} => \E k \in 1..Len(roles) : b[i] = roles[k]
  BY <1>1, BuiltInAre, BuiltInRoleIs
<1>6. b \in Seq(RoleConfig) /\ Len(b) = 3 /\ c \in Seq(RoleConfig) /\ Len(c) \in Nat
  <2>1. c \in Seq(RoleConfig)
    BY <1>4 DEF Gathers
  <2>2. b \in [1..3 -> RoleConfig]
    BY <1>1, <1>5
  <2>3. b \in Seq(RoleConfig)
    <3>1. 3 \in Nat
      OBVIOUS
    <3>2. \E n \in Nat : b \in [1..n -> RoleConfig]
      BY <2>2, <3>1
    <3> QED
      BY <3>2
  <2>4. Len(b) = 3
    BY <2>2, <2>3, LenProperties
  <2> QED
    BY <2>1, <2>3, <2>4
<1>7. /\ m \in Seq(RoleConfig) /\ Len(m) = 3 + Len(c) /\ DOMAIN m = 1..(3 + Len(c))
      /\ \A i \in 1..3 : m[i] = b[i]
      /\ \A i \in 1..Len(c) : m[i + 3] = c[i]
  <2>1. /\ b \o c \in Seq(RoleConfig) /\ Len(b \o c) = 3 + Len(c)
        /\ \A i \in 1..3 + Len(c) : (b \o c)[i] = IF i <= 3 THEN b[i] ELSE c[i - 3]
    <3>1. /\ b \o c \in Seq(RoleConfig) /\ Len(b \o c) = Len(b) + Len(c)
          /\ \A i \in 1..Len(b) + Len(c) :
                (b \o c)[i] = IF i <= Len(b) THEN b[i] ELSE c[i - Len(b)]
      BY <1>6, ConcatProperties, Zenon
    <3> QED
      BY <1>6, <3>1
  <2>2. \A i \in 1..Len(c) : i + 3 \in 1..3 + Len(c) /\ ~(i + 3 <= 3) /\ i + 3 - 3 = i
    BY <1>6
  <2>3. \A i \in 1..3 : i \in 1..3 + Len(c) /\ i <= 3
    BY <1>6
  <2> QED
    BY <1>3, <2>1, <2>2, <2>3, LenProperties
<1>8. ASSUME NEW j \in 1..Len(m)
      PROVE  j \in 1..3 \/ \E i \in 1..Len(c) : j = i + 3
  <2>1. j \in 1..3 \/ j - 3 \in 1..Len(c)
    BY <1>6, <1>7
  <2> QED
    BY <2>1
<1>9. ASSUME NEW j \in 1..Len(m) PROVE IsMerged(m[j], roles)
  <2>1. CASE j \in 1..3
    BY <1>5, <1>7, <2>1, BuiltInAre DEF IsMerged
  <2>2. ASSUME NEW i \in 1..Len(c), j = i + 3 PROVE IsMerged(m[j], roles)
    <3>1. \E k \in 1..Len(roles) : c[i] = roles[k]
      BY <1>4 DEF Gathers
    <3>2. m[j] = c[i]
      BY <1>7, <2>2
    <3> QED
      BY <3>1, <3>2 DEF IsMerged
  <2> QED
    BY <1>8, <2>1, <2>2
<1>10. ASSUME NEW n \in NamesOf(m) PROVE n \in BuiltInNames \cup NamesOf(roles)
  <2>1. PICK j \in 1..Len(m) : m[j].name = n
    BY <1>7 DEF NamesOf
  <2> QED
    BY <1>9, <2>1 DEF IsMerged, NamesOf
<1>11. ASSUME NEW n \in BuiltInNames PROVE n \in NamesOf(m)
  <2>1. PICK i \in 1..3 : BuiltIn[i] = n
    BY BuiltInAre DEF Range
  <2>2. i \in DOMAIN m /\ m[i].name = n
    BY <1>5, <1>6, <1>7, <2>1
  <2> QED
    BY <2>2 DEF NamesOf
<1>12. ASSUME NEW n \in NamesOf(roles) PROVE n \in NamesOf(m)
  <2>1. PICK i \in 1..Len(roles) : roles[i].name = n
    BY DEF NamesOf
  <2>2. CASE n \in BuiltInNames
    BY <1>11, <2>2
  <2>3. CASE n \notin BuiltInNames
    <3>1. PICK j \in 1..Len(c) : c[j] = roles[i]
      BY <1>4, <2>1, <2>3, BuiltInAre DEF Gathers, IsCustom
    <3>2. j + 3 \in DOMAIN m /\ m[j + 3].name = n
      BY <1>6, <1>7, <2>1, <3>1
    <3> QED
      BY <3>2 DEF NamesOf
  <2> QED
    BY <2>2, <2>3
<1> QED
  BY <1>0, <1>7, <1>9, <1>10, <1>11, <1>12
-----------------------------------------------------------------------------
(* The configuration in memory follows from the file: ConfigInv says so,   *)
(* and of an answer, which component gave it.                              *)

Running == stage = "running"

ConfigInv ==
    /\ stage \in {"read", "defaulted", "running", "refused"}
    /\ IsConfig(file)
    /\ cfg = IF stage = "read" THEN file ELSE Defaulted(file)
    /\ Running => Valid(cfg)
    /\ answer.to \in {"nobody", "path", "identity", "level", "limit", "masking", "sink"}
    /\ answer.to # "nobody" => Running
    /\ answer.to = "path" => answer.got = Resolved(answer.asked)
    /\ answer.to = "identity" => answer.got = RoleOf(answer.asked)
    /\ answer.to = "level" => answer.got = cfg.levels[Rank(answer.asked)]
    /\ answer.to = "limit" =>
          answer.asked \in NamesOf(file.roles) /\ answer.got = LimitOf(answer.asked)
    /\ answer.to = "masking" => answer.got = SensitiveFields(answer.asked)
    /\ SinksCanRun

LEMMA InitConfigInv == ConfigInit => ConfigInv
BY FilesAssumption DEF ConfigInit, ConfigInv, Running, SinksCanRun

\* What applyDefaults makes of a file, subject by subject.
IsDefaulted(c, f) ==
    /\ IF f.upstream /\ f.servers = <<>>
       THEN c.servers = <<[name |-> "default", enabled |-> TRUE]>> /\ c.default = "default"
       ELSE /\ c.servers = [i \in DOMAIN f.servers |-> [f.servers[i] EXCEPT !.enabled = TRUE]]
            /\ c.default = f.default
    /\ c.upstream = f.upstream
    /\ c.userDefault = IF f.userDefault = "" THEN "readonly" ELSE f.userDefault
    /\ c.levels = IF f.levels = <<>> THEN <<"Public", "Sensitive", "Confidential">> ELSE f.levels
    /\ c.sinks = [i \in DOMAIN f.sinks |-> SinkDefaults(f.sinks[i])]
    /\ c.roles = MergeRoles(f.roles)
    /\ c.mapping = f.mapping /\ c.rules = f.rules /\ c.toolLevels = f.toolLevels
    /\ c.patterns = f.patterns /\ c.classes = f.classes /\ c.assigned = f.assigned

LEMMA DefaultedIs ==
  ASSUME NEW f, IsConfig(f)
  PROVE  IsDefaulted(Defaulted(f), f)
<1>1. CASE f.upstream /\ f.servers = <<>>
  BY <1>1 DEF Defaulted, RegistryDefaults, IsConfig, IsDefaulted
<1>2. CASE ~(f.upstream /\ f.servers = <<>>)
  BY <1>2 DEF Defaulted, RegistryDefaults, IsConfig, IsDefaulted
<1> QED
  BY <1>1, <1>2

LEMMA ConfigIsDefaulted ==
  ASSUME ConfigInv, stage # "read"
  PROVE  IsDefaulted(cfg, file)
<1>1. PICK f : f = file
  OBVIOUS
<1>2. IsConfig(f) /\ cfg = Defaulted(f)
  BY <1>1 DEF ConfigInv
<1>3. IsDefaulted(Defaulted(f), f)
  BY <1>2, DefaultedIs
<1> QED
  BY <1>1, <1>2, <1>3

\* Every server of a file is enabled, and has its name.
LEMMA ServersAre ==
  ASSUME ConfigInv, stage # "read"
  PROVE  /\ Servers = NamesOf(cfg.servers)
         /\ IF file.upstream /\ file.servers = <<>>
            THEN cfg.default = "default" /\ NamesOf(cfg.servers) = {"default"}
            ELSE cfg.default = file.default /\ NamesOf(cfg.servers) = NamesOf(file.servers)
<1>0. IsConfig(file) /\ IsDefaulted(cfg, file)
  BY ConfigIsDefaulted DEF ConfigInv
<1>1. CASE file.upstream /\ file.servers = <<>>
  <2>1. cfg.servers = <<[name |-> "default", enabled |-> TRUE]>> /\ cfg.default = "default"
    BY <1>0, <1>1 DEF IsDefaulted
  <2>2. DOMAIN cfg.servers = {1} /\ cfg.servers[1].name = "default" /\ cfg.servers[1].enabled
    BY <2>1
  <2>3. NamesOf(cfg.servers) = {"default"} /\ Servers = {"default"}
    BY <2>2 DEF NamesOf, Servers
  <2> QED
    BY <1>1, <2>1, <2>3
<1>2. CASE ~(file.upstream /\ file.servers = <<>>)
  <2>1. /\ cfg.servers = [i \in DOMAIN file.servers |-> [file.servers[i] EXCEPT !.enabled = TRUE]]
        /\ cfg.default = file.default
    BY <1>0, <1>2 DEF IsDefaulted
  <2>2. \A i \in DOMAIN file.servers : file.servers[i] \in [name : Name, enabled : BOOLEAN]
    <3>1. file.servers \in Seq([name : Name, enabled : BOOLEAN])
      BY <1>0 DEF IsConfig
    <3>2. DOMAIN file.servers = 1..Len(file.servers)
      BY <3>1
    <3> QED
      BY <3>1, <3>2, ElementOfSeq
  <2>3. /\ DOMAIN cfg.servers = DOMAIN file.servers
        /\ \A i \in DOMAIN file.servers :
              cfg.servers[i].name = file.servers[i].name /\ cfg.servers[i].enabled
    BY <2>1, <2>2
  <2>4. NamesOf(cfg.servers) = NamesOf(file.servers) /\ Servers = NamesOf(cfg.servers)
    BY <2>3 DEF NamesOf, Servers
  <2> QED
    BY <1>2, <2>1, <2>4
<1> QED
  BY <1>1, <1>2

LEMMA RolesAre ==
  ASSUME ConfigInv, stage # "read"
  PROVE  /\ file.roles \in Seq(RoleConfig) /\ cfg.roles \in Seq(RoleConfig)
         /\ \A j \in 1..Len(cfg.roles) : IsMerged(cfg.roles[j], file.roles)
         /\ NamesOf(cfg.roles) = Range(BuiltIn) \cup NamesOf(file.roles)
         /\ cfg.userDefault # ""
<1>1. file.roles \in Seq(RoleConfig)
  BY DEF ConfigInv, IsConfig, RoleConfig
<1>2. cfg.roles = MergeRoles(file.roles) /\ cfg.userDefault # ""
  BY ConfigIsDefaulted DEF IsDefaulted
<1>3. PICK roles : roles = file.roles
  OBVIOUS
<1> QED
  BY <1>1, <1>2, <1>3, MergedAre, BuiltInAre

LEMMA LevelsAre ==
  ASSUME ConfigInv, stage # "read"
  PROVE  /\ cfg.levels # <<>> /\ cfg.toolLevels = file.toolLevels
         /\ cfg.mapping = file.mapping /\ cfg.assigned = file.assigned
         /\ cfg.classes = file.classes
         /\ cfg.rules = file.rules /\ cfg.rules \in Seq([claim : Name, role : Name])
<1>1. IsConfig(file) /\ IsDefaulted(cfg, file)
  BY ConfigIsDefaulted DEF ConfigInv
<1>2. <<"Public", "Sensitive", "Confidential">> # <<>>
  OBVIOUS
<1>3. file.rules \in Seq([claim : Name, role : Name])
  BY <1>1 DEF IsConfig
<1> QED
  BY <1>1, <1>2, <1>3 DEF IsDefaulted

LEMMA SinksAre ==
  ASSUME ConfigInv, stage # "read", NEW i \in DOMAIN cfg.sinks
  PROVE  cfg.sinks[i].batch \in Int /\ cfg.sinks[i].flush \in Int /\ cfg.sinks[i].buffer \in Int
<1> DEFINE Sink == [type : Name, transport : Name, enabled : BOOLEAN,
                    batch : Int, flush : Int, buffer : Int]
<1>1. file.sinks \in Seq(Sink)
  BY DEF ConfigInv, IsConfig
<1>2. cfg.sinks = [j \in DOMAIN file.sinks |-> SinkDefaults(file.sinks[j])]
  BY ConfigIsDefaulted DEF IsDefaulted
<1>3. file.sinks[i] \in Sink /\ cfg.sinks[i] = SinkDefaults(file.sinks[i])
  BY <1>1, <1>2, LenProperties, ElementOfSeq
<1> QED
  BY <1>3 DEF SinkDefaults, OrSome, Some, Batches

\* When the proxy runs there is a server.
LEMMA RunningTypes == ASSUME ConfigInv PROVE ConfigTypeOK
<1>1. ASSUME Running PROVE Servers # {} /\ cfg.levels # <<>> /\ cfg.userDefault # ""
  <2>1. stage # "read" /\ RegistryIsValid(cfg)
    BY <1>1 DEF Running, ConfigInv, Valid
  <2>2. CASE file.upstream /\ file.servers = <<>>
    BY <2>1, <2>2, ServersAre, RolesAre, LevelsAre
  <2>3. CASE file.servers # <<>>
    <3>1. file.servers \in Seq([name : Name, enabled : BOOLEAN])
      BY DEF ConfigInv, IsConfig
    <3>2. 1 \in DOMAIN file.servers
      BY <2>3, <3>1
    <3>3. file.servers[1].name \in NamesOf(file.servers)
      BY <3>2 DEF NamesOf
    <3> QED
      BY <2>1, <2>3, <3>3, ServersAre, RolesAre, LevelsAre
  <2>4. CASE ~file.upstream /\ file.servers = <<>>
    <3>1. cfg.upstream = file.upstream /\ cfg.servers = <<>>
      <4>1. IsDefaulted(cfg, file)
        BY <2>1, ConfigIsDefaulted
      <4>2. cfg.upstream = file.upstream
        BY <4>1 DEF IsDefaulted
      <4>3. cfg.servers = [i \in DOMAIN file.servers |-> [file.servers[i] EXCEPT !.enabled = TRUE]]
        BY <2>4, <4>1 DEF IsDefaulted
      <4>4. DOMAIN file.servers = {}
        BY <2>4
      <4>5. cfg.servers = file.servers
        <5>1. file.servers = [i \in {} |-> file.servers[i]]
          BY <2>4
        <5> QED
          BY <4>3, <4>4, <5>1
      <4> QED
        BY <2>4, <4>2, <4>5
    <3> QED
      BY <2>1, <2>4, <3>1 DEF RegistryIsValid
  <2> QED
    BY <2>2, <2>3, <2>4
<1>2. stage # "read" => Range(BuiltIn) \cup NamesOf(file.roles) = NamesOf(cfg.roles)
  BY RolesAre
<1> QED
  BY <1>1, <1>2 DEF ConfigTypeOK, ConfigInv, Running
LEMMA PathsAreHonoured == ASSUME ConfigInv PROVE DefaultTakesTheRest
<1> SUFFICES ASSUME answer.to = "path", answer.got = {}
             PROVE  /\ file.default = ""
                    /\ file.upstream => file.servers # <<>>
                    /\ answer.asked \notin NamesOf(file.servers)
  BY DEF DefaultTakesTheRest
<1>1. stage # "read" /\ RegistryIsValid(cfg) /\ Resolved(answer.asked) = {}
  BY DEF ConfigInv, Running, Valid
<1>2. answer.asked \notin Servers /\ cfg.default \notin Servers
  BY <1>1 DEF Resolved
<1>3. cfg.default = "" /\ "" \notin NamesOf(cfg.servers)
  BY <1>1, <1>2, ServersAre DEF RegistryIsValid
<1>4. CASE file.upstream /\ file.servers = <<>>
  BY <1>1, <1>3, <1>4, ServersAre
<1>5. CASE ~(file.upstream /\ file.servers = <<>>)
  BY <1>1, <1>2, <1>3, <1>5, ServersAre
<1> QED
  BY <1>4, <1>5

LEMMA RolesAreHonoured == ASSUME ConfigInv PROVE RolesAreKnown
<1> SUFFICES ASSUME answer.to = "identity"
             PROVE  \/ answer.got \in NamesOf(cfg.roles)
                    \/ answer.got = "" /\ answer.asked.email \in DOMAIN file.mapping
  BY DEF RolesAreKnown
<1> DEFINE id == answer.asked
           hits == {i \in DOMAIN cfg.rules : cfg.rules[i].claim \in id.holds}
           first == CHOOSE i \in hits : \A j \in hits : i <= j
           role == IF hits = {} THEN "" ELSE cfg.rules[first].role
<1>1. stage # "read" /\ RolesAreValid(cfg) /\ answer.got = RoleOf(id)
  BY DEF ConfigInv, Running, Valid
<1>2. /\ cfg.userDefault \in NamesOf(cfg.roles) \cup {""}
      /\ \A r \in Range(cfg.mapping) : r \in NamesOf(cfg.roles) \cup {""}
      /\ \A i \in DOMAIN cfg.rules : cfg.rules[i].role \in NamesOf(cfg.roles) \cup {""}
  BY <1>1 DEF RolesAreValid
<1>3. cfg.userDefault # "" /\ cfg.mapping = file.mapping
  BY <1>1, RolesAre, LevelsAre
<1>4. role \in NamesOf(cfg.roles) \cup {""}
  <2>1. ASSUME hits # {} PROVE first \in hits
    <3>1. DOMAIN cfg.rules = 1..Len(cfg.rules) /\ Len(cfg.rules) \in Nat
      BY <1>1, LevelsAre, LenProperties
    <3>2. hits \subseteq Nat
      BY <3>1
    <3> HIDE DEF hits
    <3>3. \E i \in hits : \A j \in hits : i <= j
      BY <2>1, <3>2, LeastNatural
    <3> QED
      BY <3>3
  <2> HIDE DEF first
  <2> QED
    BY <1>2, <2>1
<1>5. RoleOf(id) = IF role # "" THEN role ELSE MappedRole(id.email)
  BY DEF RoleOf
<1> HIDE DEF role
<1>6. CASE role # ""
  BY <1>1, <1>4, <1>5, <1>6
<1>7. CASE role = ""
  <2>1. answer.got = MappedRole(id.email)
    BY <1>1, <1>5, <1>7
  <2>2. CASE id.email \in DOMAIN cfg.mapping
    <3>1. cfg.mapping[id.email] \in Range(cfg.mapping)
      BY <2>2 DEF Range
    <3> QED
      BY <1>2, <1>3, <2>1, <2>2, <3>1 DEF MappedRole
  <2>3. CASE id.email \notin DOMAIN cfg.mapping
    BY <1>2, <1>3, <2>1, <2>3 DEF MappedRole
  <2> QED
    BY <2>2, <2>3
<1> QED
  BY <1>6, <1>7

LEMMA LevelsAreHonoured == ASSUME ConfigInv PROVE LevelsAreHeldTo
<1>1. ASSUME answer.to = "level", answer.asked \in DOMAIN file.toolLevels
      PROVE  answer.got = file.toolLevels[answer.asked]
  <2> DEFINE l == file.toolLevels[answer.asked]
             Has(i) == cfg.levels[i] = l
  <2>1. /\ stage # "read" /\ LevelsAreValid(cfg) /\ answer.got = cfg.levels[Rank(answer.asked)]
        /\ cfg.toolLevels = file.toolLevels
    BY <1>1, LevelsAre DEF ConfigInv, Running, Valid
  <2>2. l \in Range(cfg.levels)
    BY <1>1, <2>1 DEF LevelsAreValid, Range
  <2>3. \E i \in DOMAIN cfg.levels : Has(i)
    BY <2>2 DEF Range
  <2>4. Rank(answer.asked) = CHOOSE i \in DOMAIN cfg.levels : Has(i)
    BY <1>1, <2>1, <2>2 DEF Rank
  <2> HIDE DEF Has
  <2>5. Has(Rank(answer.asked))
    BY <2>3, <2>4
  <2> QED
    BY <2>1, <2>5 DEF Has
<1>2. ASSUME answer.to = "limit"
      PROVE  answer.got \in {file.roles[i].level : i \in Named(file.roles, answer.asked)}
  <2> DEFINE role == answer.asked
             own == Named(cfg.roles, role)
             last == CHOOSE i \in own : \A j \in own : j <= i
  <2>1. /\ stage # "read" /\ LevelsAreValid(cfg) /\ answer.got = LimitOf(role)
        /\ role \in NamesOf(file.roles)
    BY <1>2 DEF ConfigInv, Running, Valid
  <2>2. /\ cfg.roles \in Seq(RoleConfig) /\ DOMAIN cfg.roles = 1..Len(cfg.roles)
        /\ Len(cfg.roles) \in Nat
        /\ file.roles \in Seq(RoleConfig) /\ DOMAIN file.roles = 1..Len(file.roles)
    BY <2>1, RolesAre, LenProperties
  <2>3. own \subseteq 1..Len(cfg.roles) /\ own # {}
    <3>1. role \in NamesOf(cfg.roles)
      BY <2>1, RolesAre
    <3> QED
      BY <2>2, <3>1 DEF Named, NamesOf
  <2>4. last \in own
    <3> HIDE DEF own
    <3>1. \E i \in own : \A j \in own : j <= i
      BY <2>2, <2>3, GreatestBelow
    <3> QED
      BY <3>1
  <2>5. LimitOf(role) = IF cfg.roles[last].level \in Range(cfg.levels) THEN cfg.roles[last].level ELSE ""
    <3> DEFINE level == IF own = {} THEN "" ELSE cfg.roles[last].level
    <3>1. LimitOf(role) = IF level \in Range(cfg.levels) THEN level ELSE ""
      BY DEF LimitOf
    <3>2. level = cfg.roles[last].level
      BY <2>3
    <3> HIDE DEF level
    <3> QED
      BY <3>1, <3>2
  <2> HIDE DEF last
  <2>6. last \in 1..Len(cfg.roles) /\ cfg.roles[last].name = role
    BY <2>2, <2>4 DEF Named
  <2>7. cfg.roles[last].level \in Range(cfg.levels) \cup {""}
    BY <2>1, <2>2, <2>6 DEF LevelsAreValid
  <2>8. answer.got = cfg.roles[last].level
    BY <2>1, <2>5, <2>7
  <2>9. Named(file.roles, role) # {}
    BY <2>1 DEF Named, NamesOf
  <2>10. PICK k \in 1..Len(file.roles) : cfg.roles[last] = file.roles[k]
    BY <2>1, <2>6, <2>9, RolesAre DEF IsMerged
  <2> QED
    BY <2>2, <2>6, <2>8, <2>10 DEF Named
<1> QED
  BY <1>1, <1>2 DEF LevelsAreHeldTo

LEMMA MaskingIsHonoured == ASSUME ConfigInv PROVE AssignedIsMasked
<1> SUFFICES ASSUME answer.to = "masking"
             PROVE  answer.got = UNION {file.classes[i].patterns : i \in
                       {i \in DOMAIN file.classes : \E k \in DOMAIN file.assigned :
                          <<k, answer.asked>> \in Matching /\ file.assigned[k] = file.classes[i].name}}
  BY DEF AssignedIsMasked
<1> DEFINE tool == answer.asked
<1>1. /\ stage # "read" /\ MaskingIsValid(cfg) /\ answer.got = SensitiveFields(tool)
      /\ cfg.classes = file.classes /\ cfg.assigned = file.assigned
  BY LevelsAre DEF ConfigInv, Running, Valid
<1>2. \A i \in DOMAIN file.classes : file.classes[i].patterns \subseteq Range(cfg.patterns)
  BY <1>1 DEF MaskingIsValid
<1>3. \A n : CompiledClass(n) = UNION {file.classes[i].patterns : i \in Named(file.classes, n)}
  BY <1>1, <1>2 DEF CompiledClass, Named
<1> DEFINE Assigned(k) == k \in DOMAIN file.assigned /\ <<k, tool>> \in Matching
           ByFile == {i \in DOMAIN file.classes : \E k \in DOMAIN file.assigned :
                        <<k, tool>> \in Matching /\ file.assigned[k] = file.classes[i].name}
<1>4. \A x : x \in SensitiveFields(tool) <=>
                \E k : Assigned(k) /\ x \in CompiledClass(file.assigned[k])
  BY <1>1 DEF SensitiveFields
<1>5. \A n, x : x \in CompiledClass(n) <=>
                   \E i \in DOMAIN file.classes : file.classes[i].name = n /\ x \in file.classes[i].patterns
  BY <1>3 DEF Named
<1>6. \A x : x \in SensitiveFields(tool) <=>
                \E i \in DOMAIN file.classes :
                   x \in file.classes[i].patterns /\ \E k : Assigned(k) /\ file.assigned[k] = file.classes[i].name
  <2>1. \A k, x : x \in CompiledClass(file.assigned[k]) <=>
                   \E i \in DOMAIN file.classes :
                      file.classes[i].name = file.assigned[k] /\ x \in file.classes[i].patterns
    BY <1>5
  <2> HIDE DEF Assigned
  <2>2. ASSUME NEW x, x \in SensitiveFields(tool)
        PROVE  \E i \in DOMAIN file.classes :
                  x \in file.classes[i].patterns /\ \E k : Assigned(k) /\ file.assigned[k] = file.classes[i].name
    <3>1. PICK k : Assigned(k) /\ x \in CompiledClass(file.assigned[k])
      BY <1>4, <2>2
    <3>2. PICK i \in DOMAIN file.classes :
             file.classes[i].name = file.assigned[k] /\ x \in file.classes[i].patterns
      BY <2>1, <3>1
    <3> QED
      BY <3>1, <3>2
  <2>3. ASSUME NEW x, NEW i \in DOMAIN file.classes, x \in file.classes[i].patterns,
               NEW k, Assigned(k), file.assigned[k] = file.classes[i].name
        PROVE  x \in SensitiveFields(tool)
    <3>1. x \in CompiledClass(file.assigned[k])
      BY <2>1, <2>3
    <3> QED
      BY <1>4, <2>3, <3>1
  <2> QED
    BY <2>2, <2>3
<1>7. \A x : x \in SensitiveFields(tool) <=> \E i \in ByFile : x \in file.classes[i].patterns
  BY <1>6
<1> QED
  BY <1>1, <1>7

\* What a component answers depends on the configuration in memory alone.
RoleIn(c, id) ==
    LET hits == {i \in DOMAIN c.rules : c.rules[i].claim \in id.holds}
        role == IF hits = {} THEN ""
                ELSE c.rules[CHOOSE i \in hits : \A j \in hits : i <= j].role
    IN  IF role # "" THEN role
        ELSE IF id.email \in DOMAIN c.mapping THEN c.mapping[id.email]
        ELSE IF c.userDefault # "" THEN c.userDefault ELSE "readonly"

RankIn(c, tool) ==
    IF tool \in DOMAIN c.toolLevels /\ c.toolLevels[tool] \in Range(c.levels)
    THEN CHOOSE i \in DOMAIN c.levels : c.levels[i] = c.toolLevels[tool]
    ELSE 1

LimitIn(c, role) ==
    LET own == Named(c.roles, role)
        level == IF own = {} THEN "" ELSE c.roles[CHOOSE i \in own : \A j \in own : j <= i].level
    IN  IF level \in Range(c.levels) THEN level ELSE ""

LEMMA AnswersDependOnConfig ==
  ASSUME UNCHANGED cfg
  PROVE  /\ RoleOf(answer.asked)' = RoleIn(cfg, answer'.asked)
         /\ Rank(answer.asked)' = RankIn(cfg, answer'.asked)
         /\ LimitOf(answer.asked)' = LimitIn(cfg, answer'.asked)
<1>1. RoleOf(answer.asked)' = RoleIn(cfg', answer'.asked)
  BY DEF RoleOf, MappedRole, RoleIn
<1>2. Rank(answer.asked)' = RankIn(cfg', answer'.asked)
  BY DEF Rank, RankIn
<1>3. LimitOf(answer.asked)' = LimitIn(cfg', answer'.asked)
  BY DEF LimitOf, LimitIn
<1> QED
  BY <1>1, <1>2, <1>3

LEMMA AnswersNow ==
  ASSUME NEW x
  PROVE  RoleOf(x) = RoleIn(cfg, x) /\ Rank(x) = RankIn(cfg, x) /\ LimitOf(x) = LimitIn(cfg, x)
<1>1. RoleOf(x) = RoleIn(cfg, x)
  BY DEF RoleOf, MappedRole, RoleIn
<1>2. Rank(x) = RankIn(cfg, x)
  BY DEF Rank, RankIn
<1>3. LimitOf(x) = LimitIn(cfg, x)
  BY DEF LimitOf, LimitIn
<1> QED
  BY <1>1, <1>2, <1>3

LEMMA NextConfigInv == ConfigInv /\ [ConfigNext]_configVars => ConfigInv'
<1> SUFFICES ASSUME ConfigInv, [ConfigNext]_configVars PROVE ConfigInv'
  OBVIOUS
<1>1. CASE ApplyDefaults
  BY <1>1 DEF ConfigInv, ApplyDefaults, Running, SinksCanRun
<1>2. CASE Validate
  BY <1>2 DEF ConfigInv, Validate, Running, SinksCanRun
<1>3. ASSUME NEW p \in Path, Route(p) PROVE ConfigInv'
  BY <1>3 DEF ConfigInv, Route, Running, Resolved, Servers, SinksCanRun
<1>4. ASSUME NEW id \in Identity, Identify(id) PROVE ConfigInv'
  <2>1. /\ UNCHANGED <<stage, file, cfg>> /\ Running
        /\ answer' = [to |-> "identity", asked |-> id, got |-> RoleOf(id)]
    BY <1>4 DEF Identify, Running
  <2>2. answer'.to = "identity" /\ answer'.asked = id /\ answer'.got = RoleOf(id)
    BY <2>1
  <2>3. RoleOf(answer.asked)' = RoleOf(id)
    BY <2>1, <2>2, AnswersNow, AnswersDependOnConfig
  <2> QED
    BY <2>1, <2>2, <2>3 DEF ConfigInv, Running, SinksCanRun
<1>5. ASSUME NEW t \in Tool, Classify(t) PROVE ConfigInv'
  BY <1>5 DEF ConfigInv, Classify, Running, Rank, SinksCanRun
<1>6. ASSUME NEW t \in Tool, Mask(t) PROVE ConfigInv'
  BY <1>6 DEF ConfigInv, Mask, Running, SensitiveFields, CompiledClass, SinksCanRun
<1>7. ASSUME NEW i \in DOMAIN file.roles, Limit(file.roles[i].name) PROVE ConfigInv'
  <2> DEFINE n == file.roles[i].name
  <2>1. /\ UNCHANGED <<stage, file, cfg>> /\ Running
        /\ answer' = [to |-> "limit", asked |-> n, got |-> LimitOf(n)]
    BY <1>7 DEF Limit, Running
  <2>2. answer'.to = "limit" /\ answer'.asked = n /\ answer'.got = LimitOf(n)
    BY <2>1
  <2>3. n \in NamesOf(file.roles)
    BY DEF NamesOf
  <2>4. PICK role : role = n
    OBVIOUS
  <2>5. LimitOf(answer.asked)' = LimitOf(role)
    BY <2>1, <2>2, <2>4, AnswersNow, AnswersDependOnConfig
  <2> QED
    BY <2>1, <2>2, <2>3, <2>4, <2>5 DEF ConfigInv, Running, SinksCanRun, NamesOf
<1>8. ASSUME NEW i \in DOMAIN cfg.sinks, StartSink(i) PROVE ConfigInv'
  <2> DEFINE sink == cfg.sinks[i]
  <2>1. sink.batch \in Int /\ sink.flush \in Int /\ sink.buffer \in Int
    BY <1>8, SinksAre DEF StartSink
  <2>2. \A n \in Int : AtLeastOne(n) > 0
    BY DEF AtLeastOne, Some
  <2>3. /\ UNCHANGED <<stage, file, cfg>> /\ Running
        /\ answer' = [to |-> "sink", asked |-> i, ticks |-> Batches(sink),
                      batch |-> IF Batches(sink) THEN AtLeastOne(sink.batch) ELSE sink.batch,
                      flush |-> IF Batches(sink) THEN AtLeastOne(sink.flush) ELSE sink.flush,
                      buffer |-> AtLeastOne(sink.buffer)]
    BY <1>8 DEF StartSink, Running
  <2>4. answer'.to = "sink" /\ SinksCanRun'
    BY <2>1, <2>2, <2>3 DEF SinksCanRun
  <2> QED
    BY <2>3, <2>4 DEF ConfigInv, Running
<1>9. CASE UNCHANGED configVars
  <2>1. UNCHANGED <<stage, file, cfg, answer>>
    BY <1>9 DEF configVars
  <2>2. /\ Resolved(answer.asked)' = Resolved(answer.asked)
        /\ SensitiveFields(answer.asked)' = SensitiveFields(answer.asked)
    BY <2>1 DEF Resolved, Servers, SensitiveFields, CompiledClass
  <2>3. PICK asked : asked = answer.asked
    OBVIOUS
  <2>4. /\ RoleOf(answer.asked)' = RoleOf(answer.asked)
        /\ Rank(answer.asked)' = Rank(answer.asked)
        /\ LimitOf(answer.asked)' = LimitOf(answer.asked)
    BY <2>1, <2>3, AnswersNow, AnswersDependOnConfig
  <2> QED
    BY <2>1, <2>2, <2>4 DEF ConfigInv, Running, SinksCanRun
<1> QED
  BY <1>1, <1>2, <1>3, <1>4, <1>5, <1>6, <1>7, <1>8, <1>9 DEF ConfigNext

(* What an accepted file asks for is what the components do, for every     *)
(* file: where they skip a name they cannot find, Validate has made sure   *)
(* that there is none to skip.                                             *)
THEOREM AcceptedFilesAreHonoured == ConfigSpec => []AcceptedIsHonoured
<1>1. ConfigInv => AcceptedIsHonoured
  BY RunningTypes, PathsAreHonoured, RolesAreHonoured, LevelsAreHonoured, MaskingIsHonoured
     DEF AcceptedIsHonoured
<1> QED
  BY InitConfigInv, NextConfigInv, <1>1, PTL DEF ConfigSpec

(* Whatever numbers a file gives a sink, its goroutine gets a channel and  *)
(* a ticker that can be made.                                              *)
THEOREM SinksStart == ConfigSpec => []SinksCanRun
<1>1. ConfigInv => SinksCanRun
  BY DEF ConfigInv
<1> QED
  BY InitConfigInv, NextConfigInv, <1>1, PTL DEF ConfigSpec
=============================================================================
