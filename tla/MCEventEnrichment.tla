--------------------------- MODULE MCEventEnrichment ---------------------------
(***************************************************************************)
(* Instances of EventEnrichment for TLC, and what the documents and the    *)
(* comments say of it.                                                     *)
(***************************************************************************)
EXTENDS EventEnrichment, TLC

CONSTANTS e1, e2, e3, u1, u2, a1, a2

Event(kind, user, anon, traits) == [kind |-> kind, user |-> user, anon |-> anon, traits |-> traits]

Scenario(p1, p2, p3) == (e1 :> p1) @@ (e2 :> p2) @@ (e3 :> p3)

\* Three events that meet at one anonymous id; an alias beside events of its
\* user and of its anonymous id; an anonymous id that its user gives up; a user
\* seen without and then with traits; and events that lack an id.
Meeting == Scenario(Event("identify", u1, a1, "object"), Event("identify", u2, a1, "object"),
                    Event("track", NoId, a1, "object"))
Aliased == Scenario(Event("alias", u1, a1, "object"), Event("track", u1, NoId, "object"),
                    Event("track", NoId, a1, "object"))
Moved   == Scenario(Event("track", NoId, a1, "object"), Event("identify", u1, a1, "object"),
                    Event("identify", u1, a2, "object"))
Bare    == Scenario(Event("track", u1, NoId, "null"), Event("track", u1, a1, "object"), Garbled)
Partial == Scenario(Event("alias", u1, NoId, "null"), Event("identify", NoId, a1, "null"), Garbled)

Several == {Meeting, Aliased, Moved, Bare, Partial}

\* "Executes multi-step workflows triggered by analytics events." (README.md:73)
TriggersStartWorkflows == \A t \in triggers : t.contact # 0 => StartsWorkflow(t)

NothingFailed == faults = MaxFaults

AllAtRest ==
    /\ \A e \in Events : Closed(msg[e])
    /\ \A w \in Workers : pc[w] = "idle"

\* "status: queued -> processing -> processed / failed"
\* (docs/workers/event-enrichment.md:73).  A contact made without traits has the
\* traits null, and every delivery of a later event with traits panics in
\* mergeTraits.
StatusIsFinalAtRest ==
    NothingFailed /\ AllAtRest => \A e \in Events : raw[e] # "processing"

\* "identify: Upsert contact with merged traits; link existing anonymous profile"
\* (docs/workers/event-enrichment.md:51).  The upsert itself breaks the unique
\* key of the anonymous id, at each delivery.
IdentifiedIsNotFailed ==
    NothingFailed => \A e \in Valid : payload[e].kind = "identify" => raw[e] # "failed"

\* "It is idempotent - re-running with the same event produces the same contact
\* linkage." (enricher.go:41-42)  The id may have been given up in between.
TriggersAgree ==
    \A t \in triggers : enriched[t.event] \in {Nothing, t.contact}

\* "the idempotency check will short-circuit on the next delivery"
\* (docs/workers/event-enrichment.md:61): the check reads 'processing', and the
\* event can still become 'failed' with its enriched event in place.
FailedMeansNotEnriched == \A e \in Events : raw[e] = "failed" => enriched[e] = Nothing

=============================================================================
