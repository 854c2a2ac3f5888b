------------------------ MODULE LicenseBillingProofs ------------------------
(***************************************************************************)
(* Proofs about LicenseBilling, for any subscriptions, number of events    *)
(* and number of overlapping deliveries.  That an acknowledged checkout    *)
(* has its license is inductive once it is also said of the invocations    *)
(* that have applied their event and not recorded it yet; what carries it  *)
(* is that no row ever leaves the table licenses.  That a license follows  *)
(* its events needs what a row can be while an event is applied again and  *)
(* again: with the next event applied to it, it is what that event leaves. *)
(***************************************************************************)
EXTENDS LicenseBilling, WellFoundedInduction, TLAPS

Paid(n) == events[n].kind = "checkout" /\ events[n].tier \in Tier

Created(n) == events[n].sub \in DOMAIN licenses

\* An invocation that is done with a paid checkout has seen to its license.
AppliedIsCreated ==
    \A d \in Delivery :
        call[d].at = "applied" /\ Paid(call[d].event) => Created(call[d].event)

DoneIsCreated == \A n \in acked \cup recorded : Paid(n) => Created(n)

Inv == TypeOK /\ AppliedIsCreated /\ DoneIsCreated

-----------------------------------------------------------------------------
LEMMA InitInv == Init => Inv
<1> SUFFICES ASSUME Init PROVE Inv
  OBVIOUS
<1>1. TypeOK
  BY MaxEventsAssumption DEF Init, TypeOK, Idle, EventId, License, MetadataTier
<1> QED
  BY <1>1 DEF Init, Inv, AppliedIsCreated, DoneIsCreated, Idle

\* Events are only added, at the end.
LEMMA EventsStay ==
  ASSUME TypeOK, [Next]_vars
  PROVE  /\ events' \in Seq(Event) /\ Len(events') \in 0..MaxEvents
         /\ EventId \subseteq EventId'
         /\ \A n \in EventId : events'[n] = events[n]
<1>1. CASE \E e \in Event : Issue(e)
  BY <1>1, MaxEventsAssumption DEF TypeOK, Issue, EventId
<1>2. CASE UNCHANGED events
  BY <1>2, MaxEventsAssumption DEF TypeOK, EventId
<1> QED
  BY Zenon, <1>1, <1>2 DEF Next, Handle, Begin, Skip, Ignore, CreateLicense, RevokeLicense,
     FindLicense, FindFails, RenewLicense, Record, Fail, vars

\* The event an invocation handles, and its subscription.
LEMMA AtEvent ==
  ASSUME TypeOK, NEW d \in Delivery, call[d].at # "idle"
  PROVE  /\ call[d].event \in EventId
         /\ events[call[d].event] \in Event
         /\ events[call[d].event].sub \in Sub
<1>1. call[d].event \in EventId
  BY DEF TypeOK, Idle
<1>2. events[call[d].event] \in Event
  BY <1>1 DEF TypeOK, EventId
<1> QED
  BY <1>1, <1>2 DEF Event

\* Rows are added and changed, and none is removed.
LEMMA LicensesStay ==
  ASSUME TypeOK, [Next]_vars
  PROVE  /\ licenses' \in [DOMAIN licenses' -> License] /\ DOMAIN licenses' \subseteq Sub
         /\ DOMAIN licenses \subseteq DOMAIN licenses'
<1>1. ASSUME NEW d \in Delivery, CreateLicense(d)
      PROVE  /\ licenses' \in [DOMAIN licenses' -> License] /\ DOMAIN licenses' \subseteq Sub
             /\ DOMAIN licenses \subseteq DOMAIN licenses'
  <2> DEFINE e == events[call[d].event]
             l == [tier |-> e.tier, revoked |-> FALSE]
  <2>1. e.sub \in Sub /\ l \in License
    BY <1>1, AtEvent DEF CreateLicense, At, License
  <2>2. licenses' = [s \in {e.sub} \cup DOMAIN licenses |->
                        IF s = e.sub THEN l ELSE licenses[s]]
    BY <1>1 DEF CreateLicense, Inserted
  <2> HIDE DEF e, l
  <2> QED
    BY <2>1, <2>2 DEF TypeOK
<1>2. ASSUME NEW d \in Delivery, RevokeLicense(d)
      PROVE  /\ licenses' \in [DOMAIN licenses' -> License] /\ DOMAIN licenses' \subseteq Sub
             /\ DOMAIN licenses \subseteq DOMAIN licenses'
  BY <1>2 DEF RevokeLicense, TypeOK, License
<1>3. ASSUME NEW d \in Delivery, RenewLicense(d)
      PROVE  /\ licenses' \in [DOMAIN licenses' -> License] /\ DOMAIN licenses' \subseteq Sub
             /\ DOMAIN licenses \subseteq DOMAIN licenses'
  BY <1>3 DEF RenewLicense, TypeOK, License
<1>4. CASE UNCHANGED licenses
  BY <1>4 DEF TypeOK
<1> QED
  BY Zenon, <1>1, <1>2, <1>3, <1>4 DEF Next, Handle, Issue, Begin, Skip, Ignore,
     FindLicense, FindFails, Record, Fail, vars

\* What an invocation may be at.
Call == [at : {"idle", "begun", "renewing", "applied"}, event : 0..MaxEvents, tier : MetadataTier]

Fits(c) ==
    \/ c = Idle
    \/ /\ c.at # "idle"
       /\ c.event \in EventId
       /\ c.at = "renewing" => events[c.event].sub \in DOMAIN licenses

\* A step moves one invocation at most, to where one may be.
LEMMA CallsFit ==
  ASSUME TypeOK, [Next]_vars
  PROVE  \/ UNCHANGED call
         \/ \E d \in Delivery, c \in Call : Fits(c) /\ call' = [call EXCEPT ![d] = c]
<1>1. /\ EventId \subseteq 0..MaxEvents
      /\ Idle \in Call /\ Fits(Idle)
      /\ call \in [Delivery -> Call]
  BY MaxEventsAssumption DEF TypeOK, EventId, Idle, Call, Fits, MetadataTier
<1>2. ASSUME NEW d \in Delivery, NEW n \in EventId, Begin(d, n)
      PROVE  \E c \in Call : Fits(c) /\ call' = [call EXCEPT ![d] = c]
  <2> DEFINE c == [Idle EXCEPT !.at = "begun", !.event = n]
  <2>1. c \in Call /\ Fits(c)
    BY <1>1 DEF Idle, Call, Fits
  <2>2. call' = [call EXCEPT ![d] = c]
    BY <1>2 DEF Begin
  <2> QED
    BY <2>1, <2>2
<1>3. ASSUME NEW d \in Delivery, call[d].at # "idle", Applied(d)
      PROVE  \E c \in Call : Fits(c) /\ call' = [call EXCEPT ![d] = c]
  <2> DEFINE c == [call[d] EXCEPT !.at = "applied"]
  <2>1. c \in Call /\ Fits(c)
    BY <1>1, <1>3, AtEvent DEF Call, Fits
  <2>2. call' = [call EXCEPT ![d] = c]
    BY <1>3 DEF Applied
  <2> QED
    BY <2>1, <2>2
<1>4. ASSUME NEW d \in Delivery, call' = [call EXCEPT ![d] = Idle]
      PROVE  \E c \in Call : Fits(c) /\ call' = [call EXCEPT ![d] = c]
  BY <1>1, <1>4
<1>5. ASSUME NEW d \in Delivery, call[d].at # "idle", AppliedOrFailed(d)
      PROVE  \E c \in Call : Fits(c) /\ call' = [call EXCEPT ![d] = c]
  BY <1>3, <1>4, <1>5 DEF AppliedOrFailed, Applied
<1>6. ASSUME NEW d \in Delivery, FindLicense(d)
      PROVE  \E c \in Call : Fits(c) /\ call' = [call EXCEPT ![d] = c]
  <2> DEFINE e == events[call[d].event]
             tier == IF e.tier = "missing" THEN licenses[e.sub].tier ELSE e.tier
             c == [call[d] EXCEPT !.at = "renewing", !.tier = tier]
  <2>1. call[d].at # "idle" /\ call[d] \in Call /\ call[d].event \in EventId /\ e \in Event
    BY <1>1, <1>6, AtEvent DEF FindLicense, At
  <2>2. CASE e.sub \in DOMAIN licenses /\ call' = [call EXCEPT ![d].at = "renewing", ![d].tier = tier]
    <3>1. tier \in MetadataTier
      BY <2>1, <2>2 DEF TypeOK, Event, License, MetadataTier
    <3>2. c \in Call /\ Fits(c)
      BY <2>1, <2>2, <3>1 DEF Call, Fits
    <3>3. call' = [call EXCEPT ![d] = c]
      BY <1>1, <2>2, <2>1
    <3> QED
      BY <3>2, <3>3
  <2> QED
    BY <1>3, <1>6, <2>1, <2>2 DEF FindLicense
<1> QED
  BY <1>2, <1>3, <1>4, <1>5, <1>6 DEF Next, Handle, At, Issue, Skip, Ignore, CreateLicense,
     RevokeLicense, FindFails, RenewLicense, Record, Fail, vars

\* No step leaves the types.
LEMMA NextTypeOK == ASSUME TypeOK, [Next]_vars PROVE TypeOK'
<1>1. /\ events' \in Seq(Event) /\ Len(events') \in 0..MaxEvents
      /\ EventId \subseteq EventId'
      /\ \A n \in EventId : events'[n] = events[n]
  BY EventsStay
<1>2. /\ licenses' \in [DOMAIN licenses' -> License] /\ DOMAIN licenses' \subseteq Sub
      /\ DOMAIN licenses \subseteq DOMAIN licenses'
  BY LicensesStay
<1>3. recorded' \subseteq EventId' /\ acked' \subseteq EventId' /\ disorder' \subseteq Sub
  <2>1. ASSUME NEW d \in Delivery, NEW n \in EventId, Begin(d, n) \/ Skip(d, n)
        PROVE  recorded' \subseteq EventId /\ acked' \subseteq EventId /\ disorder' \subseteq Sub
    <3>1. events[n] \in Event
      BY <2>1 DEF TypeOK, EventId
    <3>2. events[n].sub \in Sub
      BY <3>1 DEF Event
    <3> QED
      BY <2>1, <3>2 DEF Begin, Skip, Answer200, TypeOK
  <2>2. ASSUME NEW d \in Delivery, FindFails(d) \/ Record(d)
        PROVE  recorded' \subseteq EventId /\ acked' \subseteq EventId /\ disorder' \subseteq Sub
    <3>1. call[d].event \in EventId /\ events[call[d].event].sub \in Sub
      BY <2>2, AtEvent DEF FindFails, Record, At
    <3> QED
      BY <2>2, <3>1 DEF FindFails, Record, Answer200, TypeOK
  <2>3. CASE UNCHANGED <<recorded, acked, disorder>>
    BY <2>3, <1>1 DEF TypeOK
  <2> QED
    BY Zenon, <1>1, <2>1, <2>2, <2>3 DEF Next, Handle, Issue, Ignore, CreateLicense,
       RevokeLicense, FindLicense, RenewLicense, Fail, vars
<1>4. call' \in [Delivery -> Call] /\ (\A d \in Delivery : Fits(call[d]))'
  <2>1. call \in [Delivery -> Call] /\ \A d \in Delivery : Fits(call[d])
    BY DEF TypeOK, Call, Fits
  <2>2. CASE UNCHANGED call
    BY <1>1, <1>2, <2>1, <2>2 DEF Fits
  <2>3. ASSUME NEW d \in Delivery, NEW c \in Call, Fits(c), call' = [call EXCEPT ![d] = c]
        PROVE  call' \in [Delivery -> Call] /\ (\A x \in Delivery : Fits(call[x]))'
    BY <1>1, <1>2, <2>1, <2>3 DEF Fits
  <2> QED
    BY <2>2, <2>3, CallsFit
<1>5. Len(events') <= MaxEvents
  BY <1>1, MaxEventsAssumption
<1> QED
  BY <1>1, <1>2, <1>3, <1>4, <1>5 DEF TypeOK, Call, Fits

-----------------------------------------------------------------------------
\* What is created stays, for the event and its subscription stay.
LEMMA CreatedStays ==
  ASSUME TypeOK, [Next]_vars, NEW n \in EventId
  PROVE  /\ Paid(n)' <=> Paid(n)
         /\ Created(n) => Created(n)'
BY EventsStay, LicensesStay DEF Paid, Created

\* An invocation that has applied a paid checkout found or made its license.
LEMMA AppliedFindsLicense ==
  ASSUME Inv, [Next]_vars, NEW d \in Delivery, call'[d].at = "applied"
  PROVE  /\ call[d].at # "idle"
         /\ call'[d].event = call[d].event
         /\ Paid(call[d].event) => Created(call[d].event)'
<1> DEFINE n == call[d].event
           Goal == /\ call[d].at # "idle"
                   /\ call'[d].event = n
                   /\ Paid(n) => Created(n)'
<1>1. TypeOK /\ call \in [Delivery -> Call]
  BY DEF Inv, TypeOK, Call
<1>2. ASSUME NEW x \in Delivery, Applied(x) \/ AppliedOrFailed(x)
      PROVE  call'[d].event = n \/ call'[d] = Idle
  BY <1>1, <1>2 DEF Applied, AppliedOrFailed, Call
<1>3. CASE call[d].at = "applied" /\ call'[d] = call[d]
  <2>1. n \in EventId
    BY <1>1, <1>3, AtEvent
  <2> QED
    BY <1>1, <1>3, <2>1, CreatedStays DEF Inv, AppliedIsCreated
<1>4. CASE Ignore(d) \/ RevokeLicense(d) \/ FindLicense(d) \/ FindFails(d)
  <2>1. call[d].at # "idle" /\ ~Paid(n)
    BY <1>4 DEF Ignore, RevokeLicense, FindLicense, FindFails, At, Paid
  <2>2. call'[d].event = n
    BY <1>1, <1>4 DEF Ignore, RevokeLicense, FindLicense, FindFails, Applied, AppliedOrFailed, Call, Idle
  <2> QED
    BY <2>1, <2>2
<1>5. CASE CreateLicense(d)
  <2>1. call[d].at # "idle" /\ call'[d].event = n
    BY <1>1, <1>5 DEF CreateLicense, At, AppliedOrFailed, Call, Idle
  <2>2. events' = events /\ events[n].sub \in DOMAIN licenses'
    BY <1>5 DEF CreateLicense, Inserted
  <2> QED
    BY <2>1, <2>2 DEF Created
<1>6. CASE RenewLicense(d)
  <2>1. call[d].at = "renewing" /\ call'[d].event = n
    BY <1>1, <1>6 DEF RenewLicense, AppliedOrFailed, Call, Idle
  <2>2. n \in EventId /\ Created(n)
    BY <1>1, <2>1, AtEvent DEF TypeOK, Idle, Created
  <2> QED
    BY <1>1, <2>1, <2>2, CreatedStays
<1>7. CASE call'[d] = call[d]
  BY <1>3, <1>7
<1>8. ASSUME NEW x \in Delivery, Handle(x), x # d
      PROVE  call'[d] = call[d]
  BY <1>1, <1>8 DEF Handle, Ignore, CreateLicense, RevokeLicense, FindLicense, FindFails,
     RenewLicense, Record, Fail, Applied, AppliedOrFailed
<1>9. ASSUME Fail(d) \/ Record(d)
      PROVE  FALSE
  BY <1>1, <1>9 DEF Fail, Record, Idle
<1>10. ASSUME NEW x \in Delivery, NEW m \in EventId, Begin(x, m) \/ Skip(x, m)
       PROVE  call'[d] = call[d]
  BY <1>1, <1>10 DEF Begin, Skip, Idle
<1>11. CASE (\E e \in Event : Issue(e)) \/ UNCHANGED vars
  BY <1>7, <1>11 DEF Issue, vars
<1> QED
  BY <1>4, <1>5, <1>6, <1>7, <1>8, <1>9, <1>10, <1>11 DEF Next, Handle

LEMMA NextAppliedIsCreated == ASSUME Inv, [Next]_vars PROVE AppliedIsCreated'
<1>1. ASSUME NEW d \in Delivery, call'[d].at = "applied", Paid(call[d].event)'
      PROVE  Created(call[d].event)'
  <2>1. call'[d].event = call[d].event /\ call[d].event \in EventId
    BY <1>1, AppliedFindsLicense, AtEvent DEF Inv
  <2>2. Paid(call[d].event)
    BY <1>1, <2>1, EventsStay DEF Paid, Inv
  <2> QED
    BY <1>1, <2>1, <2>2, AppliedFindsLicense DEF Created
<1> QED
  BY <1>1 DEF AppliedIsCreated

\* An event is acknowledged or recorded by an invocation that has applied it,
\* or again when it was recorded before.
LEMMA NextDoneIsCreated == ASSUME Inv, [Next]_vars PROVE DoneIsCreated'
<1>1. TypeOK /\ acked \subseteq EventId /\ recorded \subseteq EventId
  BY DEF Inv, TypeOK
<1>2. ASSUME NEW n \in acked' \cup recorded'
      PROVE  n \in EventId /\ (Paid(n) => Created(n))
  <2>1. CASE n \in acked \cup recorded
    BY <1>1, <2>1 DEF Inv, DoneIsCreated
  <2>2. CASE n \notin acked \cup recorded
    <3>1. PICK d \in Delivery : Record(d) /\ n = call[d].event
      BY Zenon, <1>2, <2>2 DEF Next, Handle, Issue, Begin, Skip, Ignore, CreateLicense, RevokeLicense,
         FindLicense, FindFails, RenewLicense, Record, Fail, Answer200, vars
    <3> QED
      BY <1>1, <3>1, AtEvent DEF Record, Inv, AppliedIsCreated
  <2> QED
    BY <2>1, <2>2
<1> QED
  BY <1>1, <1>2, CreatedStays DEF DoneIsCreated

-----------------------------------------------------------------------------
(* A paid checkout that stripe-webhook acknowledged or recorded has its    *)
(* license, however calls fail and deliveries repeat and overlap.          *)
THEOREM AcknowledgedHasLicense == Spec => []AcknowledgedIsCreated
<1>1. Inv /\ [Next]_vars => Inv'
  BY NextTypeOK, NextAppliedIsCreated, NextDoneIsCreated DEF Inv
<1>2. Inv => AcknowledgedIsCreated
  BY DEF Inv, DoneIsCreated, AcknowledgedIsCreated, Paid, Created
<1> QED
  BY InitInv, <1>1, <1>2, PTL DEF Spec
-----------------------------------------------------------------------------
(* That the license follows the events: f[n] is what the first n events    *)
(* say of subscription s, and as long as s is handled in turn its row is   *)
(* one step before or after f: with the event that is next applied to it,  *)
(* it is what f says after that event, whatever was applied before.        *)

Reading(s, f) ==
    /\ f = [n \in 0..Len(events) |-> f[n]]
    /\ f[0] = {}
    /\ \A n \in EventId :
          f[n] = IF events[n].sub = s THEN After(f[n - 1], events[n]) ELSE f[n - 1]

IsNext(s, n) ==
    /\ n \in EventsOf(s) \ recorded
    /\ \A m \in EventsOf(s) : m < n => m \in recorded

OnTrack(s, f) ==
    /\ \A n \in EventId : IsNext(s, n) => After(Row(s), events[n]) = f[n]
    /\ EventsOf(s) \subseteq recorded => Row(s) = f[Len(events)]

Works(d, s) == call[d].at # "idle" /\ events[call[d].event].sub = s

Renewed(tier) == {[tier |-> tier, revoked |-> FALSE]}

\* Every event in progress is in its turn.
Turns(s) == \A d \in Delivery : Works(d, s) => InTurn(call[d].event)

\* What an invocation will write still is what its event makes of the row.
Writes(s) ==
    \A d \in Delivery : Works(d, s) /\ call[d].at = "renewing" =>
        After(Row(s), events[call[d].event]) = Renewed(call[d].tier)

\* What an invocation has written is still there.
Written(s) ==
    \A d \in Delivery : Works(d, s) /\ call[d].at = "applied" =>
        After(Row(s), events[call[d].event]) = Row(s)

Follows(s) ==
    /\ Turns(s) /\ Writes(s) /\ Written(s)
    /\ \A f : Reading(s, f) => OnTrack(s, f)

Readable(s) == \E f : Reading(s, f)

FollowInv ==
    /\ TypeOK
    /\ \A s \in Sub : Readable(s)
    /\ \A s \in Sub \ disorder : Follows(s)

-----------------------------------------------------------------------------
(* What After does to a row.                                               *)

AnyLicense == [tier : MetadataTier, revoked : BOOLEAN]

Rows == {{}} \cup {{l} : l \in AnyLicense}

\* After, for no row and for one.
LEMMA AfterNone ==
  ASSUME NEW e \in Event
  PROVE  After({}, e) = IF e.kind = "checkout" /\ e.tier \in Tier THEN Renewed(e.tier) ELSE {}
BY DEF After, Renewed, Event, Kind

LEMMA AfterOne ==
  ASSUME NEW e \in Event, NEW l \in AnyLicense
  PROVE  After({l}, e) =
           IF e.kind = "checkout" /\ e.tier \in Tier THEN Renewed(e.tier)
           ELSE IF e.kind \in {"deleted", "lapsed"} THEN {[tier |-> l.tier, revoked |-> TRUE]}
           ELSE IF e.kind = "active"
                THEN Renewed(IF e.tier = "missing" THEN l.tier ELSE e.tier)
           ELSE {l}
<1>1. [l EXCEPT !.revoked = TRUE] = [tier |-> l.tier, revoked |-> TRUE]
  <2> DEFINE k == [l EXCEPT !.revoked = TRUE]
  <2>1. k \in AnyLicense /\ k.tier = l.tier /\ k.revoked = TRUE
    BY DEF AnyLicense
  <2> HIDE DEF k
  <2>2. k = [tier |-> k.tier, revoked |-> k.revoked]
    BY <2>1 DEF AnyLicense
  <2>3. k = [tier |-> l.tier, revoked |-> TRUE]
    BY Zenon, <2>1, <2>2
  <2> QED
    BY <2>3 DEF k
<1>2. CASE e.kind = "checkout" /\ e.tier \in Tier
  BY <1>2 DEF After, Renewed
<1>3. CASE e.kind \in {"deleted", "lapsed"}
  BY <1>1, <1>3 DEF After
<1>4. CASE e.kind = "active"
  BY <1>4 DEF After, Renewed
<1>5. CASE e.kind = "other" \/ (e.kind = "checkout" /\ e.tier \notin Tier)
  BY <1>5 DEF After
<1> QED
  BY <1>2, <1>3, <1>4, <1>5 DEF Event, Kind

LEMMA AfterIsRow == ASSUME NEW e \in Event, NEW r \in Rows PROVE After(r, e) \in Rows
<1>1. e.tier \in MetadataTier
  BY DEF Event
<1>2. \A t \in MetadataTier : Renewed(t) \in Rows
  BY DEF Renewed, Rows, AnyLicense
<1>3. CASE r = {}
  BY <1>1, <1>2, <1>3, AfterNone DEF Rows
<1>4. ASSUME NEW l \in AnyLicense, r = {l} PROVE After(r, e) \in Rows
  <2>1. l.tier \in MetadataTier /\ {l} \in Rows /\ {[tier |-> l.tier, revoked |-> TRUE]} \in Rows
    BY DEF Rows, AnyLicense
  <2> QED
    BY <1>1, <1>2, <1>4, <2>1, AfterOne
<1> QED
  BY <1>3, <1>4 DEF Rows

\* An event applied again changes nothing.
LEMMA AfterTwice ==
  ASSUME NEW e \in Event, NEW r \in Rows
  PROVE  After(After(r, e), e) = After(r, e)
<1>1. e.tier \in MetadataTier
  BY DEF Event
<1>2. CASE e.kind = "checkout" /\ e.tier \in Tier
  BY <1>2 DEF After
<1>3. CASE e.kind = "other" \/ (e.kind = "checkout" /\ e.tier \notin Tier)
  BY <1>3 DEF After
<1>4. CASE e.kind \in {"deleted", "lapsed", "active"}
  <2>1. CASE r = {}
    BY <1>4, <2>1, AfterNone
  <2>2. ASSUME NEW l \in AnyLicense, r = {l} PROVE After(After(r, e), e) = After(r, e)
    <3> DEFINE t == IF e.kind = "active" /\ e.tier # "missing" THEN e.tier ELSE l.tier
               k == [tier |-> t, revoked |-> e.kind # "active"]
    <3>1. k \in AnyLicense
      BY <1>1 DEF AnyLicense
    <3>2. After(r, e) = {k}
      BY <1>4, <2>2, AfterOne DEF Renewed
    <3>3. After({k}, e) = {k}
      BY <1>4, <3>1, AfterOne DEF Renewed
    <3> QED
      BY <3>2, <3>3
  <2> QED
    BY <2>1, <2>2 DEF Rows
<1> QED
  BY <1>2, <1>3, <1>4 DEF Event, Kind

\* When m is on its way and the event c before it, which left the row f, is
\* applied once more, m puts that right.
LEMMA Replay ==
  ASSUME NEW c \in Event, NEW m \in Event, NEW r \in Rows, NEW f \in Rows,
         After(f, c) = f, After(r, m) = After(f, m)
  PROVE  After(After(r, c), m) = After(f, m)
<1>0. c.tier \in MetadataTier /\ m.tier \in MetadataTier
  BY DEF Event
<1>1. CASE c.kind = "checkout" /\ c.tier \in Tier
  BY <1>1 DEF After
<1>2. CASE m.kind = "checkout" /\ m.tier \in Tier
  BY <1>2 DEF After
<1>3. CASE c.kind = "other" \/ (c.kind = "checkout" /\ c.tier \notin Tier)
  BY <1>3 DEF After
<1>4. CASE m.kind = "other" \/ (m.kind = "checkout" /\ m.tier \notin Tier)
  BY <1>4 DEF After
<1>5. CASE /\ c.kind \in {"deleted", "lapsed", "active"}
           /\ m.kind \in {"deleted", "lapsed", "active"}
  <2>1. CASE r = {}
    BY <1>5, <2>1, AfterNone
  <2>2. ASSUME NEW l \in AnyLicense, r = {l}
        PROVE  After(After(r, c), m) = After(f, m)
    <3>1. CASE f = {}
      BY <1>5, <2>2, <3>1, AfterNone, AfterOne DEF Renewed
    <3>2. ASSUME NEW g \in AnyLicense, f = {g}
          PROVE  After(After(r, c), m) = After(f, m)
      <4> DEFINE t == IF c.kind = "active" /\ c.tier # "missing" THEN c.tier ELSE l.tier
                 k == [tier |-> t, revoked |-> c.kind # "active"]
                 a == IF m.kind = "active" /\ m.tier # "missing" THEN m.tier ELSE l.tier
                 b == IF m.kind = "active" /\ m.tier # "missing" THEN m.tier ELSE g.tier
                 z == IF m.kind = "active" /\ m.tier # "missing" THEN m.tier ELSE t
                 u == IF c.kind = "active" /\ c.tier # "missing" THEN c.tier ELSE g.tier
                 v == m.kind # "active"
      <4>1. k \in AnyLicense
        BY <1>0 DEF AnyLicense
      <4>2. After(r, c) = {k}
        BY <1>5, <2>2, AfterOne DEF Renewed
      <4>3. After({l}, m) = {[tier |-> a, revoked |-> v]}
        BY <1>5, AfterOne DEF Renewed
      <4>4. After({g}, m) = {[tier |-> b, revoked |-> v]}
        BY <1>5, AfterOne DEF Renewed
      <4>5. After({k}, m) = {[tier |-> z, revoked |-> v]}
        BY <1>5, <4>1, AfterOne DEF Renewed
      <4>6. After({g}, c) = {[tier |-> u, revoked |-> c.kind # "active"]}
        BY <1>5, AfterOne DEF Renewed
      <4>7. [tier |-> a, revoked |-> v] = [tier |-> b, revoked |-> v]
        BY <2>2, <3>2, <4>3, <4>4
      <4>8. a = b
        BY <4>7
      <4>9. [tier |-> u, revoked |-> c.kind # "active"] = g
        BY <3>2, <4>6
      <4>10. u = g.tier
        BY <4>9
      <4>11. z = b
        BY <4>8, <4>10
      <4> QED
        BY <3>2, <4>2, <4>4, <4>5, <4>11
    <3> QED
      BY <3>1, <3>2 DEF Rows
  <2> QED
    BY <2>1, <2>2 DEF Rows
<1> QED
  BY <1>1, <1>2, <1>3, <1>4, <1>5 DEF Event, Kind
-----------------------------------------------------------------------------
(* Readings: that there is one, and how it goes on.                        *)

LEMMA LeastNatural ==
  ASSUME NEW T, T \subseteq Nat, T # {}
  PROVE  \E n \in T : \A m \in T : n <= m
<1>1. PICK n \in T : \A m \in T : ~(<<m, n>> \in OpToRel(<, Nat))
  BY NatLessThanWellFounded, WFMin
<1>2. \A m \in T : m < n => <<m, n>> \in OpToRel(<, Nat)
  BY DEF OpToRel
<1>3. \A m \in T : ~(m < n)
  BY <1>1, <1>2, Zenon
<1> QED
  BY <1>3

LEMMA EventsAre ==
  ASSUME TypeOK
  PROVE  /\ Len(events) \in Nat /\ EventId \subseteq Nat
         /\ \A n \in EventId : events[n] \in Event /\ n - 1 \in 0..Len(events) /\ n \in 0..Len(events)
BY DEF TypeOK, EventId

LEMMA ReadingIsRow ==
  ASSUME TypeOK, NEW s, NEW f, Reading(s, f), NEW n \in 0..Len(events)
  PROVE  f[n] \in Rows
<1> DEFINE T == {i \in 0..Len(events) : f[i] \notin Rows}
<1>1. SUFFICES ASSUME T # {} PROVE FALSE
  OBVIOUS
<1>0. T \subseteq Nat
  BY EventsAre
<1>2. PICK i \in T : \A j \in T : i <= j
  <2> HIDE DEF T
  <2> QED
    BY <1>0, <1>1, LeastNatural
<1>3. i # 0
  BY DEF Reading, Rows
<1>4. i \in EventId /\ i - 1 \in 0..Len(events)
  BY <1>2, <1>3, EventsAre DEF EventId
<1>5. f[i - 1] \in Rows
  BY <1>2, <1>4
<1>6. f[i] = f[i - 1] \/ f[i] = After(f[i - 1], events[i])
  BY <1>4 DEF Reading
<1> QED
  BY <1>4, <1>5, <1>6, AfterIsRow, EventsAre

\* Events of other subscriptions change nothing.
LEMMA ReadingRests ==
  ASSUME TypeOK, NEW s, NEW f, Reading(s, f), NEW c \in 0..Len(events), NEW n \in 0..Len(events),
         c <= n, \A i \in EventsOf(s) : c < i => n < i
  PROVE  f[n] = f[c]
<1> DEFINE T == {i \in 0..Len(events) : c <= i /\ i <= n /\ f[i] # f[c]}
<1>1. SUFFICES ASSUME T # {} PROVE FALSE
  BY EventsAre
<1>0. T \subseteq Nat
  BY EventsAre
<1>2. PICK i \in T : \A j \in T : i <= j
  <2> HIDE DEF T
  <2> QED
    BY <1>0, <1>1, LeastNatural
<1>3. c < i
  BY <1>2, EventsAre
<1>4. i \in EventId /\ i - 1 \in 0..Len(events) /\ c <= i - 1 /\ i - 1 <= n /\ ~(i <= i - 1)
  BY <1>3, EventsAre DEF EventId
<1>5. f[i - 1] = f[c]
  BY <1>2, <1>4
<1>6. i \notin EventsOf(s)
  BY <1>3, EventsAre
<1> QED
  BY <1>4, <1>5, <1>6 DEF Reading, EventsOf

\* Said is the end of a reading.
LEMMA SaidIsRead ==
  ASSUME TypeOK, NEW s, Readable(s)
  PROVE  \E f : Reading(s, f) /\ Said(s) = f[Len(events)]
<1> DEFINE Is(f) == f = [n \in 0..Len(events) |->
                           IF n = 0 THEN {}
                           ELSE IF events[n].sub = s THEN After(f[n - 1], events[n])
                           ELSE f[n - 1]]
<1>1. ASSUME NEW f PROVE Is(f) <=> Reading(s, f)
  <2>1. ASSUME Is(f) PROVE Reading(s, f)
    BY <2>1, EventsAre DEF Reading, EventId
  <2>2. ASSUME Reading(s, f) PROVE Is(f)
    <3>1. \A n \in 0..Len(events) :
             f[n] = IF n = 0 THEN {}
                    ELSE IF events[n].sub = s THEN After(f[n - 1], events[n])
                    ELSE f[n - 1]
      BY <2>2, EventsAre DEF Reading, EventId
    <3>2. f = [n \in 0..Len(events) |-> f[n]]
      BY <2>2 DEF Reading
    <3> QED
      BY <3>1, <3>2, Zenon
  <2> QED
    BY <2>1, <2>2
<1>2. \E f : Is(f)
  BY <1>1 DEF Readable
<1>3. Said(s) = (CHOOSE f : Is(f))[Len(events)]
  BY DEF Said
<1> HIDE DEF Is
<1>4. Is(CHOOSE f : Is(f))
  BY <1>2, Zenon
<1> QED
  BY <1>1, <1>3, <1>4

\* An event issued: a reading of all events is one of the events before it.
LEMMA ReadingBefore ==
  ASSUME TypeOK, NEW e \in Event, Issue(e), NEW s, NEW f, Reading(s, f)'
  PROVE  LET g == [n \in 0..Len(events) |-> f[n]]
             N == Len(events) + 1
         IN  /\ Reading(s, g)
             /\ \A n \in 0..Len(events) : g[n] = f[n]
             /\ f[N] = IF e.sub = s THEN After(f[Len(events)], e) ELSE f[Len(events)]
<1> DEFINE g == [n \in 0..Len(events) |-> f[n]]
           N == Len(events) + 1
<1>1. /\ N \in Nat /\ Len(events') = N /\ events'[N] = e
      /\ \A n \in EventId : events'[n] = events[n] /\ n \in 1..N /\ n \in 0..Len(events) /\ n - 1 \in 0..Len(events)
      /\ N \in 1..N /\ N - 1 = Len(events) /\ 0 \in 0..Len(events)
  BY DEF TypeOK, Issue, EventId
<1>2. /\ f[0] = {}
      /\ \A n \in 1..N : f[n] = IF events'[n].sub = s THEN After(f[n - 1], events'[n]) ELSE f[n - 1]
  BY <1>1 DEF Reading, EventId
<1>3. Reading(s, g)
  BY <1>1, <1>2 DEF Reading
<1>4. f[N] = IF e.sub = s THEN After(f[Len(events)], e) ELSE f[Len(events)]
  BY <1>1, <1>2
<1> QED
  BY <1>3, <1>4

LEMMA ReadableStays ==
  ASSUME TypeOK, [Next]_vars, NEW s, Readable(s)
  PROVE  Readable(s)'
<1>1. CASE UNCHANGED events
  BY <1>1 DEF Readable, Reading, EventId
<1>2. ASSUME NEW e \in Event, Issue(e) PROVE Readable(s)'
  <2> DEFINE L == Len(events)
             N == L + 1
  <2>1. PICK f : Reading(s, f)
    BY DEF Readable
  <2> DEFINE g == [n \in 0..N |-> IF n = N THEN IF e.sub = s THEN After(f[L], e) ELSE f[L]
                                  ELSE f[n]]
  <2>2. /\ L \in Nat /\ N \in Nat /\ Len(events') = N /\ events'[N] = e
        /\ \A n \in EventId : events'[n] = events[n]
        /\ EventId' = EventId \cup {N} /\ N \notin EventId
    BY <1>2 DEF TypeOK, Issue, EventId
  <2>3. \A n \in EventId : n \in 0..N /\ n - 1 \in 0..N /\ n # N /\ n - 1 # N
    BY <2>2 DEF EventId
  <2>4. N \in 0..N /\ N - 1 = L /\ L \in 0..N /\ L # N /\ 0 \in 0..N /\ 0 # N
    BY <2>2
  <2>5. g[0] = {} /\ g = [n \in 0..N |-> g[n]]
    BY <2>1, <2>4 DEF Reading
  <2>6. \A n \in EventId : g[n] = f[n] /\ g[n - 1] = f[n - 1]
    BY <2>3
  <2>7. g[N] = (IF e.sub = s THEN After(g[N - 1], e) ELSE g[N - 1])
    BY <2>4
  <2> HIDE DEF g
  <2>8. PICK h : h = g
    OBVIOUS
  <2>9. \A n \in EventId \cup {N} :
           h[n] = IF events'[n].sub = s THEN After(h[n - 1], events'[n]) ELSE h[n - 1]
    BY <2>1, <2>2, <2>6, <2>7, <2>8 DEF Reading
  <2>10. h[0] = {} /\ h = [n \in 0..N |-> h[n]]
    BY <2>5, <2>8
  <2>11. Reading(s, h)'
    BY <2>2, <2>9, <2>10 DEF Reading
  <2> QED
    BY <2>11 DEF Readable
<1> QED
  BY Zenon, <1>1, <1>2 DEF Next, Handle, Begin, Skip, Ignore, CreateLicense, RevokeLicense,
     FindLicense, FindFails, RenewLicense, Record, Fail, vars
-----------------------------------------------------------------------------
(* What a step does to the row of a subscription.                          *)

LEMMA RowIs ==
  ASSUME TypeOK, NEW s
  PROVE  /\ s \notin DOMAIN licenses => Row(s) = {}
         /\ s \in DOMAIN licenses => /\ Row(s) = {licenses[s]}
                                     /\ licenses[s] \in AnyLicense
                                     /\ licenses[s].tier \in Tier
         /\ Row(s) \in Rows
<1>1. ASSUME s \notin DOMAIN licenses PROVE Row(s) = {}
  BY <1>1 DEF Row
<1>2. ASSUME s \in DOMAIN licenses
      PROVE  Row(s) = {licenses[s]} /\ licenses[s] \in AnyLicense /\ licenses[s].tier \in Tier
  <2>1. licenses[s] \in License
    BY <1>2 DEF TypeOK
  <2>2. {s} \cap DOMAIN licenses = {s}
    BY <1>2
  <2>3. Row(s) = {licenses[s]}
    BY <2>2 DEF Row
  <2> QED
    BY <2>1, <2>3 DEF License, AnyLicense, MetadataTier
<1> QED
  BY <1>1, <1>2 DEF Rows

\* The tables of other subscriptions stay as they are.
LEMMA RowStays ==
  ASSUME TypeOK, NEW s,
         \/ UNCHANGED licenses
         \/ \E d \in Delivery :
               /\ events[call[d].event].sub # s
               /\ CreateLicense(d) \/ RevokeLicense(d) \/ RenewLicense(d)
  PROVE  Row(s)' = Row(s)
<1>1. CASE UNCHANGED licenses
  BY <1>1 DEF Row
<1>2. ASSUME NEW d \in Delivery, events[call[d].event].sub # s,
             CreateLicense(d) \/ RevokeLicense(d) \/ RenewLicense(d)
      PROVE  Row(s)' = Row(s)
  <2>1. /\ s \in DOMAIN licenses' <=> s \in DOMAIN licenses
        /\ s \in DOMAIN licenses => licenses'[s] = licenses[s]
    BY <1>2 DEF CreateLicense, Inserted, RevokeLicense, RenewLicense, TypeOK
  <2> QED
    BY <2>1 DEF Row
<1> QED
  BY <1>1, <1>2

\* An invocation writes what its event makes of the row.
LEMMA RowIsWritten ==
  ASSUME TypeOK, NEW s \in Sub, Writes(s), NEW d \in Delivery, Works(d, s),
         CreateLicense(d) \/ RevokeLicense(d) \/ RenewLicense(d)
  PROVE  Row(s)' = After(Row(s), events[call[d].event])
<1>1. CASE CreateLicense(d)
  <2> DEFINE e == events[call[d].event]
  <2>1. e \in Event /\ e.kind = "checkout" /\ e.tier \in Tier /\ e.sub = s
    BY <1>1, AtEvent DEF CreateLicense, At, Works
  <2>2. s \in DOMAIN licenses' /\ licenses'[s] = [tier |-> e.tier, revoked |-> FALSE]
    BY <1>1, <2>1 DEF CreateLicense, Inserted
  <2>3. Row(s)' = Renewed(e.tier)
    BY <2>2 DEF Row, Renewed
  <2> QED
    BY <2>1, <2>3 DEF After, Renewed
<1>2. CASE RevokeLicense(d)
  <2> DEFINE e == events[call[d].event]
  <2>1. e \in Event /\ e.kind \in {"deleted", "lapsed"} /\ e.sub = s
    BY <1>2, AtEvent DEF RevokeLicense, At, Works
  <2>2. CASE s \in DOMAIN licenses
    <3>1. DOMAIN licenses' = DOMAIN licenses /\ licenses'[s] = [licenses[s] EXCEPT !.revoked = TRUE]
      BY <1>2, <2>1, <2>2 DEF RevokeLicense, TypeOK
    <3>2. Row(s)' = {[licenses[s] EXCEPT !.revoked = TRUE]}
      BY <2>2, <3>1 DEF Row
    <3>3. Row(s) = {licenses[s]}
      BY <2>2, RowIs
    <3> QED
      BY <2>1, <3>2, <3>3 DEF After
  <2>3. CASE s \notin DOMAIN licenses
    <3>1. licenses' = licenses
      BY <1>2, <2>1, <2>3 DEF RevokeLicense
    <3>2. Row(s) = {} /\ Row(s)' = {}
      BY <2>3, <3>1 DEF Row
    <3> QED
      BY <2>1, <3>2, AfterNone
  <2> QED
    BY <2>2, <2>3
<1>3. CASE RenewLicense(d)
  <2>1. events[call[d].event].sub = s /\ call[d].at = "renewing"
    BY <1>3 DEF Works, RenewLicense
  <2>2. s \in DOMAIN licenses
    BY <2>1 DEF TypeOK, Idle
  <2>3. DOMAIN licenses' = DOMAIN licenses /\ licenses'[s] = [tier |-> call[d].tier, revoked |-> FALSE]
    BY <1>3, <2>1, <2>2 DEF RenewLicense, TypeOK
  <2>4. Row(s)' = Renewed(call[d].tier)
    BY <2>2, <2>3 DEF Row, Renewed
  <2> QED
    BY <1>3, <2>1, <2>4 DEF Writes
<1> QED
  BY <1>1, <1>2, <1>3

LEMMA RowMoves ==
  ASSUME TypeOK, [Next]_vars, NEW s \in Sub, Writes(s)
  PROVE  \/ Row(s)' = Row(s)
         \/ \E d \in Delivery :
               Works(d, s) /\ Row(s)' = After(Row(s), events[call[d].event])
<1>1. ASSUME NEW d \in Delivery, CreateLicense(d) \/ RevokeLicense(d) \/ RenewLicense(d)
      PROVE  call[d].at # "idle"
  BY <1>1 DEF CreateLicense, RevokeLicense, RenewLicense, At
<1>2. \/ UNCHANGED licenses
      \/ \E d \in Delivery : CreateLicense(d) \/ RevokeLicense(d) \/ RenewLicense(d)
  BY Zenon DEF Next, Handle, Issue, Begin, Skip, Ignore, FindLicense, FindFails, Record, Fail, vars
<1> QED
  BY <1>1, <1>2, RowIsWritten, RowStays DEF Works

-----------------------------------------------------------------------------
(* What a step does to the invocations and to what is recorded.            *)

\* Where an invocation that is at something comes from.
LEMMA CallMoves ==
  ASSUME TypeOK, [Next]_vars, NEW d \in Delivery, call'[d].at # "idle"
  PROVE  \/ call'[d] = call[d]
         \/ \E n \in EventId : Begin(d, n) /\ call'[d].at = "begun" /\ call'[d].event = n
         \/ /\ Ignore(d) \/ CreateLicense(d) \/ RevokeLicense(d) \/ FindLicense(d)
               \/ FindFails(d) \/ RenewLicense(d)
            /\ call[d].at # "idle" /\ call'[d].event = call[d].event
            /\ call'[d].at \in {"applied", "renewing"}
<1>0. call \in [Delivery -> Call]
  BY DEF TypeOK, Call
<1>1. ASSUME NEW x \in Delivery, x # d, Handle(x)
      PROVE  call'[d] = call[d]
  BY <1>0, <1>1 DEF Handle, Ignore, CreateLicense, RevokeLicense, FindLicense, FindFails,
     RenewLicense, Record, Fail, Applied, AppliedOrFailed
<1>2. ASSUME NEW x \in Delivery, NEW n \in EventId, Begin(x, n) \/ Skip(x, n)
      PROVE  \/ call'[d] = call[d]
             \/ Begin(d, n) /\ call'[d].at = "begun" /\ call'[d].event = n
  BY <1>0, <1>2 DEF Begin, Skip, Idle
<1>3. ~Record(d) /\ ~Fail(d)
  BY <1>0 DEF Record, Fail, Idle
<1>4. ASSUME Ignore(d) \/ CreateLicense(d) \/ RevokeLicense(d) \/ FindLicense(d)
               \/ FindFails(d) \/ RenewLicense(d)
      PROVE  /\ call[d].at # "idle" /\ call'[d].event = call[d].event
             /\ call'[d].at \in {"applied", "renewing"}
  BY <1>0, <1>4 DEF Ignore, CreateLicense, RevokeLicense, FindLicense, FindFails, RenewLicense,
     At, Applied, AppliedOrFailed, Idle, Call
<1>5. CASE (\E e \in Event : Issue(e)) \/ UNCHANGED vars
  BY <1>5 DEF Issue, vars
<1> QED
  BY Zenon, <1>1, <1>2, <1>3, <1>4, <1>5 DEF Next, Handle

LEMMA RecordedMoves ==
  ASSUME [Next]_vars
  PROVE  \/ recorded' = recorded
         \/ \E d \in Delivery : Record(d) /\ recorded' = recorded \cup {call[d].event}
BY Zenon DEF Next, Handle, Issue, Begin, Skip, Ignore, CreateLicense, RevokeLicense,
   FindLicense, FindFails, RenewLicense, Record, Fail, vars

LEMMA EventsMove ==
  ASSUME [Next]_vars
  PROVE  \/ UNCHANGED events
         \/ (\E e \in Event : Issue(e)) /\ UNCHANGED <<licenses, recorded, call, acked, disorder>>
BY Zenon DEF Next, Handle, Issue, Begin, Skip, Ignore, CreateLicense, RevokeLicense,
   FindLicense, FindFails, RenewLicense, Record, Fail, vars

LEMMA DisorderStays == ASSUME [Next]_vars PROVE disorder \subseteq disorder'
BY DEF Next, Handle, Issue, Begin, Skip, Ignore, CreateLicense, RevokeLicense,
   FindLicense, FindFails, RenewLicense, Record, Fail, vars

\* Of the events of a subscription that is handled in turn, one is in progress.
LEMMA OneInProgress ==
  ASSUME TypeOK, NEW s, Turns(s),
         NEW d \in Delivery, NEW x \in Delivery, Works(d, s), Works(x, s)
  PROVE  call[x].event = call[d].event
BY DEF Turns, Works, InTurn, InProgress
-----------------------------------------------------------------------------
(* The parts of Follows, each kept by every step.                          *)

\* An invocation whose event is of s, after a step that keeps s in order.
LEMMA WorksBefore ==
  ASSUME TypeOK, [Next]_vars, NEW s, s \notin disorder', Turns(s), UNCHANGED events,
         NEW d \in Delivery, Works(d, s)'
  PROVE  /\ call'[d].event \in EventsOf(s) /\ InTurn(call'[d].event)
         /\ \/ Works(d, s) /\ call[d].event = call'[d].event
            \/ Begin(d, call'[d].event)
<1>1. CASE call[d].at # "idle" /\ call[d].event = call'[d].event
  BY <1>1, AtEvent DEF Works, Turns, EventsOf
<1>2. CASE \E n \in EventId : Begin(d, n) /\ call'[d].event = n
  BY <1>2 DEF Works, Begin, EventsOf
<1> QED
  BY <1>1, <1>2, CallMoves DEF Works

LEMMA NextTurns ==
  ASSUME TypeOK, [Next]_vars, NEW s \in Sub, s \notin disorder', Turns(s)
  PROVE  Turns(s)'
<1> SUFFICES ASSUME NEW d \in Delivery, Works(d, s)'
             PROVE  InTurn(call[d].event)'
  BY DEF Turns
<1> DEFINE n == call'[d].event
<1>1. CASE UNCHANGED events
  <2>1. n \in EventsOf(s) /\ InTurn(n) /\ EventsOf(s)' = EventsOf(s)
    BY <1>1, WorksBefore DEF EventsOf, EventId
  <2>2. \A m \in EventsOf(s) : (m < n => m \in recorded) /\ (m > n => m \notin recorded)
    BY <2>1 DEF InTurn, EventsOf
  <2>3. \A x \in Delivery : Works(x, s) => call[x].event = n
    BY <2>1 DEF InTurn, EventsOf, InProgress, Works
  <2>4. \A m \in EventsOf(s) : (m < n => m \in recorded') /\ (m > n => m \notin recorded')
    <3>1. CASE recorded' = recorded
      BY <2>2, <3>1
    <3>2. ASSUME NEW x \in Delivery, Record(x), recorded' = recorded \cup {call[x].event}
          PROVE  \A m \in EventsOf(s) : (m < n => m \in recorded') /\ (m > n => m \notin recorded')
      <4>1. n \in Nat
        BY <2>1, EventsAre DEF EventsOf
      <4>2. call[x].event \in EventsOf(s) => call[x].event = n
        BY <2>3, <3>2 DEF Record, Works, EventsOf
      <4> QED
        BY <2>2, <3>2, <4>1, <4>2
    <3> QED
      BY <3>1, <3>2, RecordedMoves
  <2>5. \A x \in Delivery : Works(x, s)' => call'[x].event = n
    <3> SUFFICES ASSUME NEW x \in Delivery, Works(x, s)' PROVE call'[x].event = n
      OBVIOUS
    <3>1. CASE Works(x, s) /\ call[x].event = call'[x].event
      BY <2>3, <3>1
    <3>2. CASE Begin(x, call'[x].event) /\ x # d
      <4>1. Works(d, s) /\ call[d].event = n
        BY <1>1, <3>2 DEF Begin, Works, TypeOK
      <4>2. InTurn(call'[x].event) /\ call'[x].event \in EventsOf(s)
        BY <1>1, WorksBefore
      <4> QED
        BY <4>1, <4>2 DEF InTurn, InProgress, EventsOf, Works
    <3> QED
      BY <1>1, <3>1, <3>2, WorksBefore
  <2> QED
    BY <1>1, <2>1, <2>4, <2>5 DEF InTurn, InProgress, EventsOf, EventId, Works
<1>2. ASSUME NEW e \in Event, Issue(e), UNCHANGED <<recorded, call>>
      PROVE  InTurn(call[d].event)'
  <2>1. /\ \A x \in Delivery : Works(x, s)' => Works(x, s)
        /\ n \in EventId /\ n = call[d].event /\ events'[n] = events[n]
    BY <1>2, AtEvent, EventsStay DEF Works
  <2>2. InTurn(n) /\ events[n].sub = s
    BY <2>1 DEF Turns, Works
  <2>3. \A m \in EventsOf(s)' : m \in EventsOf(s) \/ (m > n /\ m \notin EventId)
    BY <1>2, <2>1, EventsAre DEF Issue, EventsOf, EventId
  <2>4. recorded \subseteq EventId
    BY DEF TypeOK
  <2>5. \A m \in EventsOf(s)' : (m < n => m \in recorded) /\ (m > n => m \notin recorded)
    <3>1. \A m \in EventsOf(s) : (m < n => m \in recorded) /\ (m > n => m \notin recorded)
      BY <2>2 DEF InTurn
    <3>2. \A m \in EventsOf(s)' : m > n => ~(m < n)
      BY <2>1, EventsAre, EventsStay DEF EventsOf, EventId
    <3> QED
      BY <2>3, <2>4, <3>1, <3>2
  <2>6. \A x \in Delivery : Works(x, s)' => call[x].event = n
    BY <2>1, <2>2 DEF InTurn, InProgress, Works
  <2> QED
    BY <1>2, <2>1, <2>2, <2>5, <2>6 DEF InTurn, InProgress, Works
<1> QED
  BY <1>1, <1>2, EventsMove

\* The row after a step is the one before it, or what the event of all
\* invocations on the subscription makes of it.
LEMMA SameEventWrites ==
  ASSUME TypeOK, [Next]_vars, NEW s \in Sub, Turns(s), Writes(s),
         NEW d \in Delivery, Works(d, s)
  PROVE  Row(s)' \in {Row(s), After(Row(s), events[call[d].event])}
BY RowMoves, OneInProgress

LEMMA NextWrites ==
  ASSUME TypeOK, [Next]_vars, NEW s \in Sub, s \notin disorder', Turns(s), Writes(s)
  PROVE  Writes(s)'
<1> SUFFICES ASSUME NEW d \in Delivery, Works(d, s)', call'[d].at = "renewing"
             PROVE  After(Row(s)', events'[call'[d].event]) = Renewed(call'[d].tier)
  BY DEF Writes
<1>0. call \in [Delivery -> Call]
  BY DEF TypeOK, Call
<1>1. CASE UNCHANGED events
  <2>1. CASE call'[d] = call[d]
    <3>1. Works(d, s) /\ events[call[d].event] \in Event
      BY <1>1, <2>1, AtEvent DEF Works
    <3>2. After(Row(s), events[call[d].event]) = Renewed(call[d].tier)
      BY <2>1, <3>1 DEF Writes
    <3>3. Row(s)' \in {Row(s), After(Row(s), events[call[d].event])}
      BY <3>1, SameEventWrites
    <3> QED
      BY <1>1, <2>1, <3>1, <3>2, <3>3, AfterTwice, RowIs
  <2>2. CASE FindLicense(d) /\ call[d].at # "idle" /\ call'[d].event = call[d].event
    <3> DEFINE e == events[call[d].event]
               t == IF e.tier = "missing" THEN licenses[s].tier ELSE e.tier
    <3>1. e \in Event /\ e.kind = "active" /\ e.sub = s
      BY <1>1, <2>2, AtEvent DEF FindLicense, At, Works
    <3>2. /\ s \in DOMAIN licenses
          /\ call' = [call EXCEPT ![d].at = "renewing", ![d].tier = t]
      BY <1>0, <2>2, <3>1 DEF FindLicense, Applied, Call
    <3>3. call'[d].tier = t
      BY <1>0, <3>2 DEF Call
    <3>4. Row(s)' = Row(s)
      BY <2>2, RowStays DEF FindLicense
    <3>5. Row(s) = {licenses[s]} /\ licenses[s] \in AnyLicense
      BY <3>2, RowIs
    <3>6. After({licenses[s]}, e) = Renewed(t)
      BY <3>1, <3>5, AfterOne
    <3> QED
      BY <1>1, <2>2, <3>3, <3>4, <3>5, <3>6
  <2>3. ASSUME Ignore(d) \/ CreateLicense(d) \/ RevokeLicense(d) \/ FindFails(d) \/ RenewLicense(d)
        PROVE  FALSE
    BY <1>0, <2>3 DEF Ignore, CreateLicense, RevokeLicense, FindFails, RenewLicense,
       Applied, AppliedOrFailed, Idle, Call
  <2> QED
    BY <2>1, <2>2, <2>3, CallMoves
<1>2. CASE (\E e \in Event : Issue(e)) /\ UNCHANGED <<licenses, call>>
  <2>1. Works(d, s) /\ events'[call[d].event] = events[call[d].event]
    BY <1>2, AtEvent, EventsStay DEF Works
  <2> QED
    BY <1>2, <2>1, RowStays DEF Writes
<1> QED
  BY <1>1, <1>2, EventsMove

LEMMA NextWritten ==
  ASSUME TypeOK, [Next]_vars, NEW s \in Sub, s \notin disorder', Turns(s), Writes(s), Written(s)
  PROVE  Written(s)'
<1> SUFFICES ASSUME NEW d \in Delivery, Works(d, s)', call'[d].at = "applied"
             PROVE  After(Row(s)', events'[call'[d].event]) = Row(s)'
  BY DEF Written
<1>1. CASE UNCHANGED events
  <2>1. CASE call'[d] = call[d]
    <3>1. Works(d, s)
      BY <1>1, <2>1 DEF Works
    <3>2. After(Row(s), events[call[d].event]) = Row(s)
      BY <2>1, <3>1 DEF Written
    <3>3. Row(s)' \in {Row(s), After(Row(s), events[call[d].event])}
      BY <3>1, SameEventWrites
    <3> QED
      BY <1>1, <2>1, <3>2, <3>3
  <2>2. ASSUME call[d].at # "idle", call'[d].event = call[d].event
        PROVE  Works(d, s) /\ events[call[d].event] \in Event /\ events[call[d].event].sub = s
    BY <1>1, <2>2, AtEvent DEF Works
  <2>3. CASE /\ CreateLicense(d) \/ RevokeLicense(d) \/ RenewLicense(d)
             /\ call[d].at # "idle" /\ call'[d].event = call[d].event
    BY <1>1, <2>2, <2>3, RowIsWritten, AfterTwice, RowIs
  <2>4. CASE Ignore(d) /\ call[d].at # "idle" /\ call'[d].event = call[d].event
    <3>1. Row(s)' = Row(s)
      BY <2>4, RowStays DEF Ignore
    <3>2. After(Row(s), events[call[d].event]) = Row(s)
      BY <2>4 DEF Ignore, At, After
    <3> QED
      BY <1>1, <2>4, <3>1, <3>2
  <2>5. CASE FindLicense(d) /\ call[d].at # "idle" /\ call'[d].event = call[d].event
    <3>1. Row(s)' = Row(s)
      BY <2>5, RowStays DEF FindLicense
    <3>2. s \notin DOMAIN licenses
      <4>1. call'[d].at # "renewing" /\ call \in [Delivery -> Call]
        BY DEF TypeOK, Call
      <4> QED
        BY <2>2, <2>5, <4>1 DEF FindLicense, Call
    <3>3. Row(s) = {} /\ events[call[d].event].kind = "active"
      BY <2>5, <3>2, RowIs DEF FindLicense, At
    <3> QED
      BY <1>1, <2>2, <2>5, <3>1, <3>3, AfterNone
  <2>6. ASSUME FindFails(d), call[d].at # "idle", call'[d].event = call[d].event PROVE FALSE
    BY <2>2, <2>6 DEF FindFails
  <2> QED
    BY <2>1, <2>3, <2>4, <2>5, <2>6, CallMoves
<1>2. CASE (\E e \in Event : Issue(e)) /\ UNCHANGED <<licenses, call>>
  <2>1. Works(d, s) /\ events'[call[d].event] = events[call[d].event]
    BY <1>2, AtEvent, EventsStay DEF Works
  <2> QED
    BY <1>2, <2>1, RowStays DEF Written
<1> QED
  BY <1>1, <1>2, EventsMove
\* After an event in its turn nothing of its subscription is recorded, so f
\* rests there up to what comes next.
LEMMA RestsAfterTurn ==
  ASSUME TypeOK, NEW s, NEW f, Reading(s, f), NEW c \in EventsOf(s), InTurn(c),
         NEW n \in 0..Len(events), c <= n,
         \A i \in EventsOf(s) : c < i /\ i <= n => i \in recorded
  PROVE  /\ f[n] = f[c]
         /\ f[c] \in Rows /\ After(f[c], events[c]) = f[c]
<1>1. c \in EventId /\ events[c].sub = s /\ events[c] \in Event /\ c \in 0..Len(events) /\ c \in Nat
      /\ c - 1 \in 0..Len(events)
  BY EventsAre DEF EventsOf
<1>2. \A i \in EventsOf(s) : c < i => n < i
  <2> SUFFICES ASSUME NEW i \in EventsOf(s), c < i PROVE n < i
    OBVIOUS
  <2>1. i \in Nat /\ n \in Nat /\ i > c
    BY <1>1, EventsAre DEF EventsOf
  <2>2. i \notin recorded
    BY <1>1, <2>1 DEF InTurn
  <2> QED
    BY <2>1, <2>2
<1>3. f[n] = f[c]
  BY <1>1, <1>2, ReadingRests
<1>4. f[c - 1] \in Rows /\ f[c] \in Rows /\ f[c] = After(f[c - 1], events[c])
  BY <1>1, ReadingIsRow DEF Reading
<1> QED
  BY <1>1, <1>3, <1>4, AfterTwice

\* Of an event of the subscription: what f says after it.
LEMMA ReadingAt ==
  ASSUME TypeOK, NEW s, NEW f, Reading(s, f), NEW n \in EventsOf(s)
  PROVE  /\ f[n] = After(f[n - 1], events[n])
         /\ n \in EventId /\ n \in Nat /\ events[n] \in Event /\ n - 1 \in 0..Len(events)
         /\ f[n] \in Rows /\ f[n - 1] \in Rows
         /\ Len(events) \in 0..Len(events) /\ n <= Len(events)
<1>1. n \in EventId /\ events[n].sub = s
  BY DEF EventsOf
<1>2. n - 1 \in 0..Len(events) /\ n \in 0..Len(events) /\ events[n] \in Event
  BY <1>1, EventsAre
<1>3. Len(events) \in 0..Len(events) /\ n <= Len(events) /\ n \in Nat
  BY <1>1, EventsAre DEF EventId
<1> QED
  BY <1>1, <1>2, <1>3, ReadingIsRow DEF Reading

\* An event issued.
LEMMA IssueOnTrack ==
  ASSUME TypeOK, NEW e \in Event, Issue(e), NEW s \in Sub,
         \A f : Reading(s, f) => OnTrack(s, f), NEW f, Reading(s, f)'
  PROVE  OnTrack(s, f)'
<1> DEFINE g == [n \in 0..Len(events) |-> f[n]]
           L == Len(events)
<1>0. PICK N : N = L + 1
  OBVIOUS
<1>1. /\ Reading(s, g)
      /\ \A n \in 0..L : g[n] = f[n]
      /\ f[N] = IF e.sub = s THEN After(f[L], e) ELSE f[L]
  BY <1>0, ReadingBefore
<1>2. OnTrack(s, g)
  BY <1>1
<1> HIDE DEF g
<1>3. /\ L \in Nat /\ N \in Nat /\ Len(events') = N /\ events'[N] = e
      /\ \A n \in EventId : events'[n] = events[n]
      /\ EventId' = EventId \cup {N} /\ N \notin EventId
      /\ \A n \in EventId : n < N
      /\ L \in 0..L
  BY <1>0 DEF TypeOK, Issue, EventId
<1>4. recorded' = recorded /\ Row(s)' = Row(s) /\ recorded \subseteq EventId
  BY RowStays DEF Issue, TypeOK
<1>5. EventsOf(s)' = IF e.sub = s THEN EventsOf(s) \cup {N} ELSE EventsOf(s)
  BY <1>3 DEF EventsOf
<1>6. EventsOf(s) \subseteq recorded => Row(s) = f[L]
  BY <1>1, <1>2, <1>3 DEF OnTrack
<1>7. ASSUME NEW n \in EventId, IsNext(s, n)' PROVE After(Row(s)', events'[n]) = f[n]
  <2>1. IsNext(s, n)
    BY <1>3, <1>4, <1>5, <1>7 DEF IsNext
  <2> QED
    BY <1>1, <1>2, <1>3, <1>4, <2>1, EventsAre DEF OnTrack
<1>8. ASSUME IsNext(s, N)' PROVE After(Row(s)', events'[N]) = f[N]
  <2>1. e.sub = s
    BY <1>3, <1>5, <1>8 DEF IsNext, EventsOf
  <2>2. \A m \in EventsOf(s) : m < N
    BY <1>3 DEF EventsOf
  <2>3. EventsOf(s) \subseteq recorded
    BY <1>4, <1>5, <1>8, <2>1, <2>2 DEF IsNext
  <2> QED
    BY <1>1, <1>3, <1>4, <1>6, <2>1, <2>3
<1>9. ASSUME (EventsOf(s) \subseteq recorded)' PROVE Row(s)' = f[N]
  <2>1. e.sub # s /\ EventsOf(s) \subseteq recorded
    BY <1>3, <1>4, <1>5, <1>9
  <2> QED
    BY <1>1, <1>4, <1>6, <2>1
<1> QED
  BY <1>3, <1>7, <1>8, <1>9 DEF OnTrack

\* An invocation at work: c is the event in progress, next or the last that is
\* recorded, and applied again or for the first time.
LEMMA WriteOnTrack ==
  ASSUME TypeOK, UNCHANGED <<events, recorded>>, NEW s \in Sub, NEW f, Reading(s, f), OnTrack(s, f),
         NEW c \in EventsOf(s), InTurn(c), Row(s)' = After(Row(s), events[c])
  PROVE  OnTrack(s, f)'
<1>1. /\ Row(s) \in Rows /\ events[c] \in Event /\ c \in Nat /\ Len(events) \in Nat
      /\ events[c].sub = s
  BY RowIs, ReadingAt, EventsAre DEF EventsOf
<1>2. ASSUME NEW n \in EventsOf(s), IsNext(s, n) PROVE After(Row(s)', events[n]) = f[n]
  <2>0. n \in EventId /\ n \in Nat /\ n \notin recorded /\ After(Row(s), events[n]) = f[n]
    BY <1>2, ReadingAt DEF IsNext, OnTrack
  <2>1. CASE n = c
    BY <1>1, <2>0, <2>1, AfterTwice
  <2>2. CASE n # c
    <3>1. ~(n < c)
      BY <1>1, <2>0 DEF InTurn
    <3>2. n - 1 \in 0..Len(events) /\ c <= n - 1
      BY <1>1, <2>0, <2>2, <3>1, ReadingAt
    <3>3. \A i \in EventsOf(s) : i <= n - 1 => i \in recorded
      BY <1>2, <2>0, ReadingAt DEF IsNext
    <3>4. f[n - 1] = f[c] /\ f[c] \in Rows /\ After(f[c], events[c]) = f[c]
      BY <3>2, <3>3, RestsAfterTurn
    <3>5. f[n] = After(f[c], events[n]) /\ events[n] \in Event
      BY <3>4, ReadingAt
    <3>6. After(After(Row(s), events[c]), events[n]) = After(f[c], events[n])
      BY <1>1, <2>0, <3>4, <3>5, Replay
    <3> QED
      BY <3>5, <3>6
  <2> QED
    BY <2>1, <2>2
<1>3. ASSUME EventsOf(s) \subseteq recorded PROVE Row(s)' = f[Len(events)]
  <2>1. Row(s) = f[Len(events)]
    BY <1>3 DEF OnTrack
  <2>2. f[Len(events)] = f[c] /\ After(f[c], events[c]) = f[c]
    BY <1>3, ReadingAt, RestsAfterTurn
  <2> QED
    BY <2>1, <2>2
<1>4. /\ EventsOf(s)' = EventsOf(s) /\ EventId' = EventId
      /\ \A n : IsNext(s, n)' <=> IsNext(s, n)
      /\ \A n : IsNext(s, n) => n \in EventsOf(s)
  BY DEF EventsOf, EventId, IsNext
<1> QED
  BY <1>2, <1>3, <1>4 DEF OnTrack

\* The event in progress is recorded: if it is new, f goes on to it.
LEMMA RecordOnTrack ==
  ASSUME TypeOK, UNCHANGED events, NEW s \in Sub, NEW f, Reading(s, f), OnTrack(s, f),
         NEW c, recorded' = recorded \cup {c}, Row(s)' = Row(s),
         c \in EventsOf(s) => InTurn(c) /\ After(Row(s), events[c]) = Row(s)
  PROVE  OnTrack(s, f)'
<1>1. EventsOf(s)' = EventsOf(s) /\ EventId' = EventId
  BY DEF EventsOf, EventId
<1>2. CASE c \notin EventsOf(s) \ recorded
  BY <1>1, <1>2 DEF OnTrack, IsNext
<1>3. CASE c \in EventsOf(s) \ recorded
  <2>1. c \in EventId /\ c \in Nat /\ events[c].sub = s
    BY <1>3, EventsAre DEF EventsOf
  <2>2. IsNext(s, c)
    BY <1>3, <2>1 DEF IsNext, InTurn
  <2>3. Row(s) = f[c]
    BY <1>3, <2>1, <2>2 DEF OnTrack
  <2>4. ASSUME NEW n \in EventsOf(s), IsNext(s, n)' PROVE After(Row(s), events[n]) = f[n]
    <3>1. n \in Nat /\ n \notin recorded /\ n # c /\ n - 1 \in 0..Len(events)
      BY <2>4, ReadingAt DEF IsNext
    <3>2. ~(n < c)
      BY <1>3, <2>1, <3>1 DEF InTurn
    <3>3. \A i \in EventsOf(s) : i < n => i \in recorded \cup {c}
      BY <1>1, <2>4 DEF IsNext
    <3>4. \A i \in EventsOf(s) : c < i /\ i <= n - 1 => i \in recorded
      BY <2>1, <3>1, <3>3, ReadingAt
    <3>5. c <= n - 1
      BY <2>1, <3>1, <3>2
    <3>6. f[n - 1] = f[c]
      BY <1>3, <3>1, <3>4, <3>5, RestsAfterTurn
    <3> QED
      BY <2>3, <3>6, ReadingAt
  <2>5. ASSUME EventsOf(s) \subseteq recorded' PROVE Row(s) = f[Len(events)]
    <3>1. \A i \in EventsOf(s) : c < i /\ i <= Len(events) => i \in recorded
      BY <2>1, <2>5
    <3>2. f[Len(events)] = f[c]
      BY <1>3, <3>1, RestsAfterTurn, ReadingAt
    <3> QED
      BY <2>3, <3>2
  <2>6. \A n : IsNext(s, n)' => n \in EventsOf(s)
    BY <1>1 DEF IsNext
  <2> QED
    BY <1>1, <2>4, <2>5, <2>6 DEF OnTrack
<1> QED
  BY <1>2, <1>3

LEMMA NextOnTrack ==
  ASSUME TypeOK, [Next]_vars, NEW s \in Sub, Follows(s), NEW f, Reading(s, f)'
  PROVE  OnTrack(s, f)'
<1>0. Turns(s) /\ Writes(s) /\ Written(s) /\ \A g : Reading(s, g) => OnTrack(s, g)
  BY DEF Follows
<1>1. ASSUME NEW e \in Event, Issue(e) PROVE OnTrack(s, f)'
  BY <1>0, <1>1, IssueOnTrack
<1>2. CASE UNCHANGED events
  <2>1. Reading(s, f) /\ OnTrack(s, f)
    BY <1>0, <1>2 DEF Reading, EventId
  <2>2. ASSUME NEW d \in Delivery, Record(d), recorded' = recorded \cup {call[d].event}
        PROVE  OnTrack(s, f)'
    <3>1. Row(s)' = Row(s)
      BY <2>2, RowStays DEF Record
    <3>2. call[d].event \in EventsOf(s) =>
             InTurn(call[d].event) /\ After(Row(s), events[call[d].event]) = Row(s)
      BY <1>0, <2>2 DEF EventsOf, Turns, Written, Works, Record
    <3> QED
      BY <1>2, <2>1, <2>2, <3>1, <3>2, RecordOnTrack
  <2>3. CASE recorded' = recorded /\ Row(s)' = Row(s)
    BY <1>2, <2>1, <2>3 DEF OnTrack, IsNext, EventsOf, EventId
  <2>4. ASSUME NEW d \in Delivery, Works(d, s), Row(s)' = After(Row(s), events[call[d].event]),
               recorded' = recorded
        PROVE  OnTrack(s, f)'
    <3>1. call[d].event \in EventsOf(s) /\ InTurn(call[d].event)
      BY <1>0, <2>4, AtEvent DEF Works, Turns, EventsOf
    <3> QED
      BY <1>2, <2>1, <2>4, <3>1, WriteOnTrack
  <2> QED
    BY <1>0, <2>2, <2>3, <2>4, RowMoves, RecordedMoves
<1> QED
  BY <1>1, <1>2, EventsMove

LEMMA InitFollowInv == Init => FollowInv
<1> SUFFICES ASSUME Init PROVE FollowInv
  OBVIOUS
<1>1. TypeOK
  BY InitInv DEF Inv
<1>2. events = <<>> /\ EventId = {} /\ Len(events) = 0
  BY DEF Init, EventId
<1>3. \A s : EventsOf(s) = {} /\ Row(s) = {}
  BY <1>2 DEF EventsOf, Row, Init
<1>4. ASSUME NEW s \in Sub PROVE Readable(s)
  <2>1. PICK f : f = [n \in 0..0 |-> {}]
    OBVIOUS
  <2>2. f = [n \in 0..0 |-> f[n]] /\ f[0] = {}
    BY <2>1
  <2>3. Reading(s, f)
    BY <1>2, <2>2 DEF Reading
  <2> QED
    BY <2>3 DEF Readable
<1>5. ASSUME NEW s \in Sub PROVE Follows(s)
  <2>1. Turns(s) /\ Writes(s) /\ Written(s)
    BY DEF Turns, Writes, Written, Works, Init, Idle
  <2>2. ASSUME NEW f, Reading(s, f) PROVE OnTrack(s, f)
    BY <1>2, <1>3, <2>2 DEF OnTrack, IsNext, Reading
  <2> QED
    BY <2>1, <2>2 DEF Follows
<1> QED
  BY <1>1, <1>4, <1>5 DEF FollowInv

LEMMA NextFollowInv == FollowInv /\ [Next]_vars => FollowInv'
<1> SUFFICES ASSUME FollowInv, [Next]_vars PROVE FollowInv'
  OBVIOUS
<1>1. TypeOK /\ TypeOK'
  BY NextTypeOK DEF FollowInv
<1>2. ASSUME NEW s \in Sub PROVE Readable(s)'
  BY <1>1, ReadableStays DEF FollowInv
<1>3. ASSUME NEW s \in Sub, s \notin disorder' PROVE Follows(s)'
  <2>1. Follows(s) /\ Turns(s) /\ Writes(s) /\ Written(s)
    BY <1>3, DisorderStays DEF FollowInv, Follows
  <2>2. Turns(s)' /\ Writes(s)' /\ Written(s)'
    BY <1>1, <1>3, <2>1, NextTurns, NextWrites, NextWritten
  <2>3. ASSUME NEW f, Reading(s, f)' PROVE OnTrack(s, f)'
    BY <1>1, <2>1, <2>3, NextOnTrack
  <2> QED
    BY <2>2, <2>3 DEF Follows
<1> QED
  BY <1>1, <1>2, <1>3 DEF FollowInv

(* The license is what the recorded events of its subscription say one     *)
(* after the other, when they were handled in turn: stripe-webhook may     *)
(* process each of them any number of times, in part, overlapping and      *)
(* again after it was recorded, and the row does not show it.              *)
THEOREM LicenseIsWhatWasSaid == Spec => []LicenseFollowsEvents
<1>1. FollowInv => LicenseFollowsEvents
  <2> SUFFICES ASSUME FollowInv, NEW s \in Sub, s \notin disorder, EventsOf(s) \subseteq recorded
               PROVE  Row(s) = Said(s)
    BY DEF LicenseFollowsEvents
  <2>1. TypeOK /\ Readable(s) /\ Follows(s)
    BY DEF FollowInv
  <2>2. PICK f : Reading(s, f) /\ Said(s) = f[Len(events)]
    BY <2>1, SaidIsRead
  <2> QED
    BY <2>1, <2>2 DEF Follows, OnTrack
<1> QED
  BY InitFollowInv, NextFollowInv, <1>1, PTL DEF Spec
=============================================================================
