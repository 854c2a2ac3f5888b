--------------------------- MODULE LicenseBilling ---------------------------
(***************************************************************************)
(* The billing functions under src/supabase/functions: stripe-webhook      *)
(* turns the events of a subscription into its row of the licenses table,  *)
(* creating it through create-license.  Stripe is external: it delivers an *)
(* event until it is acknowledged with 200, sometimes again after that, in *)
(* any order and several at once.  Each call to the database or to         *)
(* create-license may fail, with or without having taken effect, and an    *)
(* invocation may be cut off between any two of them.                      *)
(***************************************************************************)
EXTENDS Integers, Sequences

CONSTANTS Sub,         \* subscriptions
          Delivery,    \* bound: invocations of the webhook at the same time
          MaxEvents    \* bound: events that Stripe issues

ASSUME MaxEventsAssumption == MaxEvents \in Nat

VARIABLES events,      \* the events issued, in the order of their causes
          licenses,    \* the table licenses, by stripe_subscription_id (UNIQUE)
          recorded,    \* the table stripe_events
          call,        \* what each invocation of the webhook is at
          acked,       \* Stripe: the events answered with 200
          disorder     \* history: subscriptions whose events were not handled
                       \* one after the other, in order

vars == <<events, licenses, recorded, call, acked, disorder>>

Tier == {"pro", "enterprise"}

\* What metadata.tier can be: of TIER_LIMITS, something else, or missing.
MetadataTier == Tier \cup {"other", "missing"}

\* A subscription.updated with a status that revokes is "lapsed", with
\* status active "active"; any other event is "other".
Kind == {"checkout", "deleted", "lapsed", "active", "other"}

Event == [sub : Sub, kind : Kind, tier : MetadataTier]

EventId == 1..Len(events)

License == [tier : Tier, revoked : BOOLEAN]

Idle == [at |-> "idle", event |-> 0, tier |-> "missing"]

InProgress(s) == {d \in Delivery : call[d].at # "idle" /\ events[call[d].event].sub = s}

Init ==
    /\ events = <<>>
    /\ licenses = [s \in {} |-> Idle]
    /\ recorded = {}
    /\ call = [d \in Delivery |-> Idle]
    /\ acked = {}
    /\ disorder = {}

-----------------------------------------------------------------------------
(* Stripe: a subscription begins with its checkout and ends when deleted.  *)

EventsOf(s) == {n \in EventId : events[n].sub = s}

Issue(e) ==
    LET before == EventsOf(e.sub)
    IN  /\ Len(events) < MaxEvents
        /\ e.kind = "checkout" <=> before = {}
        /\ \A n \in before : events[n].kind # "deleted"
        /\ e.kind \notin {"checkout", "active"} => e.tier = "missing"
        /\ events' = Append(events, e)
        /\ UNCHANGED <<licenses, recorded, call, acked, disorder>>

-----------------------------------------------------------------------------
(* stripe-webhook.                                                         *)

\* Event n is handled in its turn: the subscription's earlier events have
\* been recorded, its later ones are not, and no other event is in progress.
InTurn(n) ==
    LET s == events[n].sub
    IN  /\ \A m \in EventsOf(s) :
              /\ m < n => m \in recorded
              /\ m > n => m \notin recorded
        /\ \A d \in InProgress(s) : call[d].event = n

Answer200(n) == acked' \in {acked, acked \cup {n}}

\* Wrong: the event is recorded before it is processed.
BeginRecording(d, n) ==
    /\ call[d].at = "idle"
    /\ n \notin recorded
    /\ call' = [call EXCEPT ![d] = [Idle EXCEPT !.at = "begun", !.event = n]]
    /\ disorder' = IF InTurn(n) THEN disorder ELSE disorder \cup {events[n].sub}
    /\ recorded' = recorded \cup {n}
    /\ UNCHANGED <<events, licenses, acked>>

\* The event is not in stripe_events, or looking failed: the error is
\* ignored and the data is null.
Begin(d, n) ==
    /\ call[d].at = "idle"
    /\ call' = [call EXCEPT ![d] = [Idle EXCEPT !.at = "begun", !.event = n]]
    /\ disorder' = IF InTurn(n) THEN disorder ELSE disorder \cup {events[n].sub}
    /\ UNCHANGED <<events, licenses, recorded, acked>>

\* The event is in stripe_events.
Skip(d, n) ==
    /\ call[d].at = "idle"
    /\ n \in recorded
    /\ Answer200(n)
    /\ UNCHANGED <<events, licenses, recorded, call, disorder>>

At(d, kinds) == call[d].at = "begun" /\ events[call[d].event].kind \in kinds

Applied(d) == call' = [call EXCEPT ![d].at = "applied"]

\* The 500 of an exception, or the end of an invocation cut off: either way
\* nothing more is done and Stripe is not answered with 200.
Fail(d) ==
    /\ call[d].at # "idle"
    /\ call' = [call EXCEPT ![d] = Idle]
    /\ UNCHANGED <<events, licenses, recorded, acked, disorder>>

\* A checkout without its fields or its tier returns without an error; so do
\* the events that nothing handles.
Ignore(d) ==
    /\ \/ At(d, {"other"})
       \/ At(d, {"checkout"}) /\ events[call[d].event].tier \notin Tier
    /\ Applied(d)
    /\ UNCHANGED <<events, licenses, recorded, acked, disorder>>

\* The call takes effect and its answer arrives, or is lost: then as Fail.
AppliedOrFailed(d) == call' \in {[call EXCEPT ![d].at = "applied"], [call EXCEPT ![d] = Idle]}

\* The table with the row that create-license inserts for a checkout.
Inserted(e) ==
    [s \in {e.sub} \cup DOMAIN licenses |->
        IF s = e.sub THEN [tier |-> e.tier, revoked |-> FALSE] ELSE licenses[s]]

\* Wrong: an error of create-license is logged and not thrown.
CreateLicenseIgnoringErrors(d) ==
    LET e == events[call[d].event]
    IN  /\ At(d, {"checkout"}) /\ e.tier \in Tier
        /\ Applied(d)
        /\ \/ e.sub \notin DOMAIN licenses /\ licenses' = Inserted(e)
           \/ UNCHANGED licenses
        /\ UNCHANGED <<events, recorded, acked, disorder>>

\* create-license inserts the row; a row of the subscription makes the insert
\* fail (Fail).
CreateLicense(d) ==
    LET e == events[call[d].event]
    IN  /\ At(d, {"checkout"}) /\ e.tier \in Tier
        /\ e.sub \notin DOMAIN licenses
        /\ licenses' = Inserted(e)
        /\ AppliedOrFailed(d)
        /\ UNCHANGED <<events, recorded, acked, disorder>>

\* revokeLicense updates no row when there is none or it is revoked already.
RevokeLicense(d) ==
    LET s == events[call[d].event].sub
    IN  /\ At(d, {"deleted", "lapsed"})
        /\ licenses' = IF s \in DOMAIN licenses
                       THEN [licenses EXCEPT ![s].revoked = TRUE] ELSE licenses
        /\ AppliedOrFailed(d)
        /\ UNCHANGED <<events, recorded, acked, disorder>>

\* handleSubscriptionUpdated reads the row, and is done when it finds none or
\* cannot look.
FindLicense(d) ==
    LET e == events[call[d].event]
    IN  /\ At(d, {"active"})
        /\ \/ /\ e.sub \in DOMAIN licenses
              /\ call' = [call EXCEPT ![d].at = "renewing",
                            ![d].tier = IF e.tier = "missing"
                                        THEN licenses[e.sub].tier ELSE e.tier]
           \/ /\ e.sub \notin DOMAIN licenses
              /\ Applied(d)
        /\ UNCHANGED <<events, licenses, recorded, acked, disorder>>

\* The error of the select is treated as no row.
FindFails(d) ==
    /\ At(d, {"active"})
    /\ Applied(d)
    /\ disorder' = disorder \cup {events[call[d].event].sub}
    /\ UNCHANGED <<events, licenses, recorded, acked>>

\* Wrong: revoked_at stays.
RenewLicenseRevoked(d) ==
    LET s == events[call[d].event].sub
    IN  /\ call[d].at = "renewing" /\ call[d].tier \in Tier
        /\ licenses' = [licenses EXCEPT ![s].tier = call[d].tier]
        /\ AppliedOrFailed(d)
        /\ UNCHANGED <<events, recorded, acked, disorder>>

\* renewLicense: one update.  The CHECK of the table refuses any other tier
\* (Fail).
RenewLicense(d) ==
    LET s == events[call[d].event].sub
    IN  /\ call[d].at = "renewing" /\ call[d].tier \in Tier
        /\ licenses' = [licenses EXCEPT ![s] = [tier |-> call[d].tier, revoked |-> FALSE]]
        /\ AppliedOrFailed(d)
        /\ UNCHANGED <<events, recorded, acked, disorder>>

\* The error of the insert into stripe_events is ignored.
Record(d) ==
    LET n == call[d].event
    IN  /\ call[d].at = "applied"
        /\ recorded' \in {recorded, recorded \cup {n}}
        /\ Answer200(n)
        /\ call' = [call EXCEPT ![d] = Idle]
        /\ UNCHANGED <<events, licenses, disorder>>

Handle(d) ==
    \/ Ignore(d) \/ CreateLicense(d) \/ RevokeLicense(d)
    \/ FindLicense(d) \/ FindFails(d) \/ RenewLicense(d) \/ Record(d) \/ Fail(d)

Next ==
    \/ \E e \in Event : Issue(e)
    \/ \E d \in Delivery :
          \/ \E n \in EventId : Begin(d, n) \/ Skip(d, n)
          \/ Handle(d)

\* Stripe delivers a checkout that is not acknowledged again and again,
\* invocations go on, and create-license succeeds for one of infinitely many
\* calls.
Deliver(s) ==
    \E d \in Delivery, n \in EventId \ acked :
        events[n].sub = s /\ events[n].kind = "checkout" /\ Begin(d, n)

Fairness ==
    /\ \A s \in Sub : SF_vars(Deliver(s))
    /\ WF_vars(\E d \in Delivery : Handle(d))
    /\ SF_vars(\E d \in Delivery : CreateLicense(d))

Spec == Init /\ [][Next]_vars /\ Fairness
-----------------------------------------------------------------------------
(* Type invariant. *)
TypeOK ==
    /\ events \in Seq(Event) /\ Len(events) <= MaxEvents
    /\ licenses \in [DOMAIN licenses -> License] /\ DOMAIN licenses \subseteq Sub
    /\ recorded \subseteq EventId
    /\ call \in [Delivery -> [at : {"idle", "begun", "renewing", "applied"},
                             event : 0..MaxEvents, tier : MetadataTier]]
    /\ \A d \in Delivery :
          \/ call[d] = Idle
          \/ /\ call[d].at # "idle"
             /\ call[d].event \in EventId
             /\ call[d].at = "renewing" => events[call[d].event].sub \in DOMAIN licenses
    /\ acked \subseteq EventId
    /\ disorder \subseteq Sub

(* A paid checkout that was acknowledged or recorded has its license,      *)
(* whatever failed, was cut off or was delivered twice before.             *)
AcknowledgedIsCreated ==
    /\ TypeOK
    /\ \A n \in acked \cup recorded :
          events[n].kind = "checkout" /\ events[n].tier \in Tier
              => events[n].sub \in DOMAIN licenses

\* What one event does to the row of its subscription ({} while there is none).
After(row, e) ==
    CASE e.kind = "checkout" /\ e.tier \in Tier -> {[tier |-> e.tier, revoked |-> FALSE]}
      [] e.kind \in {"deleted", "lapsed"} -> {[l EXCEPT !.revoked = TRUE] : l \in row}
      [] e.kind = "active" -> {[tier |-> IF e.tier = "missing" THEN l.tier ELSE e.tier,
                                revoked |-> FALSE] : l \in row}
      [] OTHER -> row

\* What the events of a subscription say of it, one after the other.
Said(s) ==
    LET row[n \in 0..Len(events)] ==
            IF n = 0 THEN {}
            ELSE IF events[n].sub = s THEN After(row[n - 1], events[n])
            ELSE row[n - 1]
    IN  row[Len(events)]

Row(s) == {licenses[x] : x \in {s} \cap DOMAIN licenses}

(* When the events of a subscription have all been recorded, each in its   *)
(* turn, the license is what they say one after the other, although any of *)
(* them may have been processed several times, in part or by overlapping   *)
(* deliveries, and may be in progress again.  (Events that are not handled *)
(* in turn do not have that: an old renewal clears the revocation of a     *)
(* later cancellation.)                                                    *)
LicenseFollowsEvents ==
    \A s \in Sub \ disorder : EventsOf(s) \subseteq recorded => Row(s) = Said(s)

(* Every paid checkout leads to a license: nothing that fails on the way   *)
(* makes the webhook take the event for done.                              *)
CheckoutGetsLicense ==
    \A s \in Sub :
        (\E n \in EventId : events[n].sub = s /\ events[n].kind = "checkout"
                               /\ events[n].tier \in Tier)
            ~> s \in DOMAIN licenses
=============================================================================
