--------------------------- MODULE EventEnrichment ---------------------------
(***************************************************************************)
(* The consumer of events.raw.* (internal/worker/events): it resolves the  *)
(* contact of an event, writes the enriched event, publishes a trigger for *)
(* every workflow whose rule matches, and marks the raw event; and the     *)
(* sweep of internal/worker/cleanup that deletes raw events for age.       *)
(*                                                                         *)
(* The table contacts has the unique keys that the two ON CONFLICT clauses *)
(* of client.go:626 and 644 name: (workspace, user) and (workspace,        *)
(* anonymous).  A statement that breaks one of them fails.                 *)
(***************************************************************************)
EXTENDS JetStream, Sequences, FiniteSets

CONSTANTS
    Events,        \* event ids, one message each
    Rowless,       \* those without a row in events_raw
    Scenarios,     \* what the events may carry: functions Events -> Payloads
    Garbled,       \* a payload that does not parse or lacks an id
    Users, Anons,  \* userId, anonymousId
    Workflows,     \* workflows with an active rule that matches the events
    Workers,       \* message callbacks of all replicas
    MaxAttempts,   \* EventMaxRetries + 1: MaxDeliver, and the handler's maxRetries
    FaultKinds,    \* what may go wrong: "refused", "lost", "crash", "late"
    MaxFaults,     \* how many times it may, in one behaviour
    NoId,          \* the empty userId or anonymousId
    Nothing        \* no event, no row of events_enriched

Kinds  == {"track", "identify", "alias"}   \* page, screen and group are as track
Traits == {"object", "null", "array"}      \* the JSON shape of a traits value

Payloads == {Garbled} \cup [kind : Kinds, user : Users \cup {NoId}, anon : Anons \cup {NoId},
                            traits : {"object", "null"}]

ASSUME EventsAssumption == Nothing \notin Events \cup Nat
ASSUME IdsAssumption == NoId \notin Users \cup Anons
ASSUME FiniteIdsAssumption == IsFiniteSet(Users) /\ IsFiniteSet(Anons)
ASSUME ScenariosAssumption == Scenarios \subseteq [Events -> Payloads]
ASSUME EventLimitsAssumption == MaxAttempts \in Nat \ {0} /\ MaxFaults \in Nat

VARIABLES
    msg,        \* msg[e]: the message in stream EVENTS_RAW
    payload,    \* payload[e]: what it carries
    raw,        \* events_raw.status; "none": no such row
    contacts,   \* the rows of contacts; an id is a position
    enriched,   \* the contact_id in events_enriched, 0 for NULL
    triggers,   \* messages stored in stream WORKFLOW
    pc, job, attempt, verdict,
    link,       \* result.ContactID, 0 for ""
    todo,       \* rules whose trigger is yet to be published
    faults      \* faults left

tables == <<raw, contacts, enriched>>
locals == <<job, attempt, verdict>>
vars == <<msg, payload, raw, contacts, enriched, triggers, pc, job, attempt,
          verdict, link, todo, faults>>

RawStates == {"none", "queued", "processing", "processed", "failed"}
PCs == {"idle", "check", "mark", "findUser", "findAnon", "upsertUser", "upsertAnon",
        "findOther", "merge", "insert", "match", "publish", "markProcessed",
        "markFailed", "answer"}

\* A user's row, and a row for each anonymous id no user has.
ContactIds == 1 .. Cardinality(Users) + Cardinality(Anons)

TypeOK ==
    /\ msg \in [Events -> Msgs]
    /\ payload \in Scenarios
    /\ raw \in [Events -> RawStates]
    /\ DOMAIN contacts \subseteq ContactIds
    /\ \A i \in DOMAIN contacts :
          contacts[i] \in [user : Users \cup {NoId}, anon : Anons \cup {NoId}, traits : Traits]
    /\ enriched \in [Events -> {Nothing, 0} \cup DOMAIN contacts]
    /\ triggers \subseteq [rule : Workflows, event : Events,
                           workflow : Workflows \cup {NoId}, contact : {0} \cup ContactIds]
    /\ pc \in [Workers -> PCs]
    /\ job \in [Workers -> Events \cup {Nothing}]
    /\ attempt \in [Workers -> 0 .. MaxAttempts]
    /\ verdict \in [Workers -> Verdicts]
    /\ link \in [Workers -> {0} \cup DOMAIN contacts]
    /\ todo \in [Workers -> SUBSET Workflows]
    /\ faults \in 0 .. MaxFaults

Init ==
    /\ msg = [e \in Events |-> NewMsg]
    /\ payload \in Scenarios
    /\ raw = [e \in Events |-> IF e \in Rowless THEN "none" ELSE "queued"]
    /\ contacts = << >>
    /\ enriched = [e \in Events |-> Nothing]
    /\ triggers = {}
    /\ pc = [w \in Workers |-> "idle"]
    /\ job = [w \in Workers |-> Nothing]
    /\ attempt = [w \in Workers |-> 0]
    /\ verdict = [w \in Workers |-> "nak"]
    /\ link = [w \in Workers |-> 0]
    /\ todo = [w \in Workers |-> {}]
    /\ faults = MaxFaults

Valid == {e \in Events : payload[e] # Garbled}

-----------------------------------------------------------------------------
(***************************************************************************)
(* The statements on contacts.                                             *)
(***************************************************************************)
Rows(P(_)) == {i \in DOMAIN contacts : P(contacts[i])}
OfUser(u) == Rows(LAMBDA c : c.user = u)
OfAnon(a) == Rows(LAMBDA c : c.anon = a)
TheRow(ids) == CHOOSE i \in ids : TRUE

\* jsonb's ||: two objects are merged, anything else becomes an array.
Concatenated(old, new) == IF old = "object" /\ new = "object" THEN "object" ELSE "array"

\* Another row holds the anonymous id: the unique key refuses the statement.
AnonTaken(a, own) == a # NoId /\ OfAnon(a) \ own # {}

\* UpsertContact: ON CONFLICT (workspace, user); an empty anonymousId keeps
\* the old one.
UpsertedUser(p) ==
    IF OfUser(p.user) = {}
    THEN Append(contacts, [user |-> p.user, anon |-> p.anon, traits |-> p.traits])
    ELSE [contacts EXCEPT ![TheRow(OfUser(p.user))] =
             [user   |-> @.user,
              anon   |-> IF p.anon = NoId THEN @.anon ELSE p.anon,
              traits |-> Concatenated(@.traits, p.traits)]]

\* UpsertAnonymousContact: ON CONFLICT (workspace, anonymous).
UpsertedAnon(p) ==
    IF OfAnon(p.anon) = {}
    THEN Append(contacts, [user |-> NoId, anon |-> p.anon, traits |-> p.traits])
    ELSE [contacts EXCEPT ![TheRow(OfAnon(p.anon))].traits = Concatenated(@, p.traits)]

\* The id that RETURNING gives.
Written(ids) == IF ids = {} THEN Len(contacts) + 1 ELSE TheRow(ids)

\* mergeTraits reads a stored null as a nil map, and writes to it.
MergePanics(c, p) == c.traits = "null" /\ p.traits = "object"

(***************************************************************************)
(* Control of a worker.  A call succeeds, is refused (nothing happened), or *)
(* takes effect and loses its answer.                                      *)
(***************************************************************************)
Calm == faults' = faults
Fault(kind) == kind \in FaultKinds /\ faults > 0 /\ faults' = faults - 1

Goto(w, next) == pc' = [pc EXCEPT ![w] = next] /\ UNCHANGED locals

GotoAnswering(w, next, v) == /\ pc' = [pc EXCEPT ![w] = next]
                             /\ verdict' = [verdict EXCEPT ![w] = v]
                             /\ UNCHANGED <<job, attempt>>

Answer(w, v) == GotoAnswering(w, "answer", v)

\* Mutants: the last attempt is off by one; an error is acked.
TransientOneEarly(w) == IF attempt[w] + 1 >= MaxAttempts
                        THEN GotoAnswering(w, "markFailed", "term") ELSE Answer(w, "nak")
TransientAcked(w) == Answer(w, "ack")

\* handleTransient
Transient(w) == IF attempt[w] >= MaxAttempts
                THEN GotoAnswering(w, "markFailed", "term") ELSE Answer(w, "nak")

ToIdle(w) == /\ pc' = [pc EXCEPT ![w] = "idle"]
             /\ job' = [job EXCEPT ![w] = Nothing]
             /\ attempt' = [attempt EXCEPT ![w] = 0]
             /\ verdict' = [verdict EXCEPT ![w] = "nak"]
             /\ link' = [link EXCEPT ![w] = 0]
             /\ todo' = [todo EXCEPT ![w] = {}]

Linked(w, i) == link' = [link EXCEPT ![w] = i]

-----------------------------------------------------------------------------
(***************************************************************************)
(* The handler, one action per call.                                       *)
(***************************************************************************)
Receive(w, e) ==
    /\ pc[w] = "idle"
    /\ Deliverable(msg[e])
    /\ msg' = [msg EXCEPT ![e] = Delivered(@)]
    /\ job' = [job EXCEPT ![w] = e]
    /\ attempt' = [attempt EXCEPT ![w] = msg[e].n + 1]
    /\ IF payload[e] = Garbled
       THEN pc' = [pc EXCEPT ![w] = "answer"] /\ verdict' = [verdict EXCEPT ![w] = "term"]
       ELSE pc' = [pc EXCEPT ![w] = "check"] /\ UNCHANGED verdict
    /\ UNCHANGED <<payload, tables, triggers, link, todo, faults>>

\* GetRawEventStatus: a missing row reads as the empty status.
CheckStatus(w) ==
    /\ pc[w] = "check"
    /\ \/ raw[job[w]] = "processed" /\ Answer(w, "ack") /\ Calm
       \/ raw[job[w]] # "processed" /\ Goto(w, "mark") /\ Calm
       \/ Answer(w, "nak") /\ Fault("refused")
    /\ UNCHANGED <<msg, payload, tables, triggers, link, todo>>

\* Mutant: a status events_raw does not have.
MarkedProcessedMisspelt(r) == IF r = "none" THEN r ELSE "complete"

MarkedProcessing(r) == IF r \in {"queued", "processing"} THEN "processing" ELSE r
MarkedProcessed(r)  == IF r = "none" THEN r ELSE "processed"
MarkedFailed(r)     == IF r = "none" THEN r ELSE "failed"

\* Mutant: the anonymous id is looked at first.
EnrichingAnonFirst(p) ==
    CASE p.kind = "alias" -> IF NoId \in {p.user, p.anon} THEN "insert" ELSE "upsertUser"
      [] p.kind = "identify" /\ p.user # NoId -> "upsertUser"
      [] p.kind # "alias" /\ p.anon # NoId -> "findAnon"
      [] OTHER -> IF p.user # NoId THEN "findUser" ELSE "insert"

\* Enrich: the first call the kind of event asks for.
Enriching(p) ==
    CASE p.kind = "alias" -> IF NoId \in {p.user, p.anon} THEN "insert" ELSE "upsertUser"
      [] p.kind = "identify" /\ p.user # NoId -> "upsertUser"
      [] OTHER -> IF p.user # NoId THEN "findUser"
                  ELSE IF p.anon # NoId THEN "findAnon" ELSE "insert"

Mark(w) ==
    /\ pc[w] = "mark"
    /\ LET e == job[w]
           marked == [raw EXCEPT ![e] = MarkedProcessing(@)]
       IN  \/ raw' = marked /\ Goto(w, Enriching(payload[e])) /\ Calm
           \/ UNCHANGED raw /\ Answer(w, "nak") /\ Fault("refused")
           \/ raw' = marked /\ Answer(w, "nak") /\ Fault("lost")
    /\ UNCHANGED <<msg, payload, contacts, enriched, triggers, link, todo>>

\* A panic in mergeTraits: dispatch recovers it and naks.
Panic(w) ==
    /\ msg' = [msg EXCEPT ![job[w]] = Requeued(@, MaxAttempts)]
    /\ ToIdle(w)

\* FindContactByUserID or FindContactByAnonymousID, and mergeTraits.
Find(w, at, ids, missing) ==
    /\ pc[w] = at
    /\ \/ ids = {} /\ Goto(w, missing) /\ Calm /\ UNCHANGED <<msg, link, todo>>
       \/ /\ \E i \in ids :
                IF MergePanics(contacts[i], payload[job[w]]) THEN Panic(w)
                ELSE Linked(w, i) /\ Goto(w, "insert") /\ UNCHANGED <<msg, todo>>
          /\ Calm
       \/ Transient(w) /\ Fault("refused") /\ UNCHANGED <<msg, link, todo>>
    /\ UNCHANGED <<payload, tables, triggers>>

FindUser(w) == Find(w, "findUser", OfUser(payload[job[w]].user), "upsertUser")
FindAnon(w) == Find(w, "findAnon", OfAnon(payload[job[w]].anon), "upsertAnon")

\* A statement on contacts that must succeed for the event to go on.
Upsert(w, at, clash, new, id, next) ==
    /\ pc[w] = at
    /\ \/ clash /\ Transient(w) /\ Calm /\ UNCHANGED <<contacts, link>>
       \/ ~clash /\ contacts' = new /\ Linked(w, id) /\ Goto(w, next) /\ Calm
       \/ Transient(w) /\ Fault("refused") /\ UNCHANGED <<contacts, link>>
       \/ ~clash /\ contacts' = new /\ Transient(w) /\ Fault("lost") /\ UNCHANGED link
    /\ UNCHANGED <<msg, payload, raw, enriched, triggers, todo>>

AfterUpsert(p) == CASE p.kind = "alias" -> "merge"
                    [] p.kind = "identify" /\ p.anon # NoId -> "findOther"
                    [] OTHER -> "insert"

UpsertUser(w) ==
    LET p == payload[job[w]]
    IN  Upsert(w, "upsertUser", AnonTaken(p.anon, OfUser(p.user)), UpsertedUser(p),
               Written(OfUser(p.user)), AfterUpsert(p))

UpsertAnon(w) ==
    LET p == payload[job[w]]
    IN  Upsert(w, "upsertAnon", FALSE, UpsertedAnon(p), Written(OfAnon(p.anon)), "insert")

\* identify: the lookup of the anonymous profile, whose error is logged.
FindOther(w) ==
    /\ pc[w] = "findOther"
    /\ \/ Goto(w, IF OfAnon(payload[job[w]].anon) \ {link[w]} = {} THEN "insert" ELSE "merge")
          /\ Calm
       \/ Goto(w, "insert") /\ Fault("refused")
    /\ UNCHANGED <<msg, payload, tables, triggers, link, todo>>

\* MergeAnonymousIntoContact: fatal to an alias, logged by an identify.
Merge(w) ==
    /\ pc[w] = "merge"
    /\ LET p == payload[job[w]]
           clash == AnonTaken(p.anon, {link[w]})
           merged == [contacts EXCEPT ![link[w]].anon = p.anon]
           AfterError == IF p.kind = "alias" THEN Transient(w) ELSE Goto(w, "insert")
       IN  \/ clash /\ AfterError /\ Calm /\ UNCHANGED contacts
           \/ ~clash /\ contacts' = merged /\ Goto(w, "insert") /\ Calm
           \/ AfterError /\ Fault("refused") /\ UNCHANGED contacts
           \/ ~clash /\ contacts' = merged /\ AfterError /\ Fault("lost")
    /\ UNCHANGED <<msg, payload, raw, enriched, triggers, link, todo>>

\* InsertEnrichedEvent: ON CONFLICT (raw_event_id) DO NOTHING.
Inserted(old, new) == IF old = Nothing THEN new ELSE old

\* Mutant: an error is logged, as those of the other statements are.
InsertLogged(w) ==
    /\ pc[w] = "insert"
    /\ LET new == [enriched EXCEPT ![job[w]] = Inserted(@, link[w])]
       IN  \/ raw[job[w]] # "none" /\ enriched' = new /\ Calm
           \/ raw[job[w]] = "none" /\ UNCHANGED enriched /\ Calm
           \/ UNCHANGED enriched /\ Fault("refused")
    /\ Goto(w, "match")
    /\ UNCHANGED <<msg, payload, raw, contacts, triggers, link, todo>>

\* The foreign key to events_raw refuses an event without a row.
Insert(w) ==
    /\ pc[w] = "insert"
    /\ LET e == job[w]
           new == [enriched EXCEPT ![e] = Inserted(@, link[w])]
       IN  \/ raw[e] # "none" /\ enriched' = new /\ Goto(w, "match") /\ Calm
           \/ raw[e] = "none" /\ Transient(w) /\ Calm /\ UNCHANGED enriched
           \/ Transient(w) /\ Fault("refused") /\ UNCHANGED enriched
           \/ raw[e] # "none" /\ enriched' = new /\ Transient(w) /\ Fault("lost")
    /\ UNCHANGED <<msg, payload, raw, contacts, triggers, link, todo>>

\* FindMatchingWorkflowTriggers: an error is logged, and nothing is triggered.
Match(w) ==
    /\ pc[w] = "match"
    /\ \/ /\ todo' = [todo EXCEPT ![w] = Workflows]
          /\ Goto(w, IF Workflows = {} THEN "markProcessed" ELSE "publish")
          /\ Calm
       \/ Goto(w, "markProcessed") /\ Fault("refused") /\ UNCHANGED todo
    /\ UNCHANGED <<msg, payload, tables, triggers, link>>

\* The message for a rule's workflow: its id is made of the workflow and the
\* event, and workflowId of its payload is left empty.
Trigger(wf, e, contact) ==
    [rule |-> wf, event |-> e, workflow |-> NoId, contact |-> contact]

\* What the consumer of workflow.trigger does not terminate at once.
StartsWorkflow(t) == t.workflow # NoId /\ t.contact # 0

\* A second message under one id is dropped inside the ten minutes of the
\* stream's window.
Publish(w, wf) ==
    /\ pc[w] = "publish"
    /\ wf \in todo[w]
    /\ LET e == job[w]
           stored == triggers \cup {Trigger(wf, e, link[w])}
           known == \E t \in triggers : t.rule = wf /\ t.event = e
       IN  \/ triggers' = stored /\ Calm
           \/ known /\ UNCHANGED triggers /\ Calm
           \/ UNCHANGED triggers /\ Fault("refused")
           \/ triggers' = stored /\ Fault("lost")
    /\ todo' = [todo EXCEPT ![w] = @ \ {wf}]
    /\ Goto(w, IF todo[w] = {wf} THEN "markProcessed" ELSE "publish")
    /\ UNCHANGED <<msg, payload, tables, link>>

\* MarkRawEventProcessed: an error is logged and the message acked.
MarkProcessed(w) ==
    /\ pc[w] = "markProcessed"
    /\ LET marked == [raw EXCEPT ![job[w]] = MarkedProcessed(@)]
       IN  \/ raw' = marked /\ Calm
           \/ UNCHANGED raw /\ Fault("refused")
           \/ raw' = marked /\ Fault("lost")
    /\ Answer(w, "ack")
    /\ UNCHANGED <<msg, payload, contacts, enriched, triggers, link, todo>>

\* MarkRawEventFailed: whatever the status is; an error is logged.
MarkFailed(w) ==
    /\ pc[w] = "markFailed"
    /\ LET marked == [raw EXCEPT ![job[w]] = MarkedFailed(@)]
       IN  \/ raw' = marked /\ Calm
           \/ UNCHANGED raw /\ Fault("refused")
           \/ raw' = marked /\ Fault("lost")
    /\ Goto(w, "answer")
    /\ UNCHANGED <<msg, payload, contacts, enriched, triggers, link, todo>>

AnswerMessage(w) ==
    /\ pc[w] = "answer"
    /\ \/ msg' = [msg EXCEPT ![job[w]] = Answered(@, verdict[w], MaxAttempts)] /\ Calm
       \/ UNCHANGED msg /\ Fault("lost")
    /\ ToIdle(w)
    /\ UNCHANGED <<payload, tables, triggers>>

-----------------------------------------------------------------------------
(***************************************************************************)
(* What happens around the handler.                                        *)
(***************************************************************************)
Crash(w) ==
    /\ pc[w] # "idle"
    /\ Fault("crash")
    /\ ToIdle(w)
    /\ UNCHANGED <<msg, payload, tables, triggers>>

\* AckWait is longer than a handler may run, so that it runs out under a worker
\* only when the message waited in the client's buffer: a fault.
Expire(e) ==
    /\ msg[e].st = "pending"
    /\ IF \E w \in Workers : pc[w] # "idle" /\ job[w] = e THEN Fault("late") ELSE Calm
    /\ msg' = [msg EXCEPT ![e] = Requeued(@, MaxAttempts)]
    /\ UNCHANGED <<payload, tables, triggers, pc, locals, link, todo>>

\* DeleteOldEvents: rows of any status older than DATA_RETAIN_FOR (45 days;
\* the stream keeps a message for 48 hours), with their enriched events.
Sweep(e) ==
    /\ raw[e] # "none"
    /\ Closed(msg[e])
    /\ \A w \in Workers : job[w] # e
    /\ raw' = [raw EXCEPT ![e] = "none"]
    /\ enriched' = [enriched EXCEPT ![e] = Nothing]
    /\ UNCHANGED <<msg, payload, contacts, triggers, pc, locals, link, todo, faults>>

Work(w) ==
    \/ CheckStatus(w)
    \/ Mark(w)
    \/ FindUser(w)
    \/ FindAnon(w)
    \/ UpsertUser(w)
    \/ UpsertAnon(w)
    \/ FindOther(w)
    \/ Merge(w)
    \/ Insert(w)
    \/ Match(w)
    \/ \E wf \in Workflows : Publish(w, wf)
    \/ MarkProcessed(w)
    \/ MarkFailed(w)
    \/ AnswerMessage(w)

Next ==
    \/ \E w \in Workers, e \in Events : Receive(w, e)
    \/ \E w \in Workers : Work(w) \/ Crash(w)
    \/ \E e \in Events : Expire(e) \/ Sweep(e)

Spec == Init /\ [][Next]_vars

\* Calls return within HandlerTimeout, idle callbacks are given the messages
\* that wait, and AckWait runs out.
Fairness ==
    /\ \A w \in Workers : WF_vars(Work(w))
    /\ \A e \in Events : WF_vars(\E w \in Workers : Receive(w, e))
    /\ \A e \in Events : WF_vars(Expire(e))

FairSpec == Spec /\ Fairness

-----------------------------------------------------------------------------
(***************************************************************************)
(* Properties                                                              *)
(***************************************************************************)

\* What is said of an event is true: one that is acked, or that its row calls
\* 'processed', is enriched, and a valid one is given up (Term, 'failed') only
\* at the last delivery JetStream would make (handler.go:139-204).  A nak or a
\* panic at that delivery says nothing, and the event is not delivered again.
SettledIsJustified ==
    \A e \in Valid :
       /\ raw[e] # "none" /\ (msg[e].st = "acked" \/ raw[e] = "processed")
             => enriched[e] # Nothing
       /\ msg[e].st = "termed" \/ raw[e] = "failed" => msg[e].n >= MaxAttempts

\* However lookups, inserts and merges of several events interleave, what a
\* user did is linked to that user's contact, in the enriched event and in the
\* triggers, also when its anonymous id has come to another contact
\* (enricher.go:62-82, 121-142, 159-172).
LinkedToOwnUser ==
    \A e \in Valid :
       LET u == payload[e].user
           linked == {enriched[e]} \cup {t.contact : t \in {s \in triggers : s.event = e}}
       IN  u # NoId => \A i \in linked \cap DOMAIN contacts : contacts[i].user = u

\* A workflow hears only of an event that is enriched, whatever fails and
\* whoever else handles the event; only the sweep takes the enriched event
\* away again (handler.go:166-172).
TriggersAreBacked ==
    \A t \in triggers : raw[t.event] = "none" \/ enriched[t.event] # Nothing

\* An event nothing stands in the way of: it has a row, brings one id at most
\* (no two contacts compete for it), and cannot meet a stored null with traits
\* of its own.
Plain(e) ==
    /\ e \in Valid \ Rowless
    /\ NoId \in {payload[e].user, payload[e].anon}
    /\ payload[e].traits = "null" \/ \A f \in Valid : payload[f].traits = "object"

\* With fewer faults than attempts, such an event is enriched in the end, on
\* whatever worker and in whatever order (handler.go:133-169).
PlainEventsAreEnriched ==
    MaxFaults < MaxAttempts => \A e \in Events : Plain(e) => <>(enriched[e] # Nothing)
=============================================================================
