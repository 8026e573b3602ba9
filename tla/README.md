# A TLA+ model of the EngageIQ workers

The Go program under `src/` is one binary, `cmd/workers`, of which several
replicas run side by side. Each replica registers NATS JetStream consumers and
starts a few ticker-driven schedulers; all of them meet in Postgres, Redis, SES
and the JetStream streams. Nothing is shared inside a process but connections,
so the interleavings that matter are those of calls to these four services.
This directory models the workers call by call, checks them with TLC, and
proves what matters most of all of them but the segment filter with TLAPS.

Line numbers in the modules and below are those of the source files; `handler.go`
without a directory is `internal/worker/email/handler.go`, and `client.go` is
`internal/infra/postgres/client.go` unless said otherwise.

## 1. Inventory

| Component | State | Operations | Talks to | What is hard | What makes it correct |
|---|---|---|---|---|---|
| JetStream consumers (`queue/consumers/registry.go`, `queue/producers/publisher.go`, `infra/nats/client.go`) | messages with a delivery count; message ids remembered per stream | Publish with id, deliver, Ack, Nak, Term, AckWait / BackOff expiry, the panic handler of `dispatch` | every worker | at-least-once delivery, overlapping deliveries, a limit on deliveries, a late Nak | a settled message is never delivered; at most MaxDeliver deliveries |
| Transactional email (`worker/email/handler.go` 98-359) | `email_sends.status` | Handle: validate, check, rate limit, mark, send, record, events, dead letter | SES, Redis, Postgres, NATS | two deliveries at once; SES's answer lost; each UPDATE failing; crash between any two | one send per email, truthful row, no lost email |
| Campaign scheduler (`worker/email/campaign_scheduler.go`) | `campaigns.status` | poll, claim with `FOR UPDATE SKIP LOCKED`, fire | Postgres, NATS | replicas; claim and publish are not one step | each due campaign started once |
| Campaign start and batcher (`worker/email/batcher.go`) | `campaigns`, `campaign_recipients`, chunk messages | page the segment, insert rows, publish chunks, record the total | Postgres, NATS | restarts in the middle, two starts at once, a segment that changes | each contact in one chunk; the total is what was published |
| Campaign chunk (`worker/email/handler.go` 362-776) | `campaigns` counters, `campaign_recipients.status` | per recipient: check, rate limit, send, record; per chunk: count, complete, retry, give up | SES, Redis, Postgres, NATS | partial failure inside a chunk, retries that meet their own traces | nobody is sent to twice; counters mean what they say; a campaign completes |
| Rate limiter (`ratelimit/token_bucket.go`) | a Redis hash per workspace | Lua script, Acquire loop | Redis | the caller's clock; calls out of order; key expiry | never more than the rate |
| Redis lock (`infra/redis/client.go`) | one key with a TTL | SET NX, compare and delete | Redis | holders that die, or outlive the TTL; values shared by replicas | mutual exclusion while the TTL is long enough |
| Segment refresh (`worker/segments/handler.go`) | `segments` status and count, `segment_memberships` | lock, load, page through contacts, diff, insert, delete, record | Postgres, Redis | contacts change meanwhile; half-made diffs; lock and redelivery timing | a 'ready' segment has the members its evaluation found and their number |
| Segment filter (`worker/segments/evaluator.go`) | none | evaluate one contact against a tree | Postgres (events of a contact) | operators and types; a rule that fails inside a group | a contact matches only when the tree says so; the operators agree with each other |
| Domain verification (`worker/ses/handler.go`) | `domains.status` | poll SES, update, event, Nak with delay | SES, Postgres, NATS | the API deletes or restarts meanwhile; unlimited deliveries | polling goes on until SES decides; nothing undoes a deletion |
| Domain cleanup (`worker/ses/cleanup_scheduler.go`) | `domains.status` | sweep: select, expire, announce | Postgres, NATS | races with the poll | spares a verified domain |
| Workflow engine (`worker/workflows/*.go`) | `workflow_executions`, two kinds of locks | trigger handler, executor, delay scheduler, register handler | Postgres, Redis, NATS | redelivered triggers, stale due lists, unguarded UPDATEs, locks with constant values | a node runs once; a delay is waited for; no execution is forgotten |
| Event enrichment (`worker/events/*.go`) | `events_raw.status`, `contacts` with two unique keys, `events_enriched` | check, resolve or create the contact, merge identities, insert, publish triggers, mark | Postgres, NATS | events of one user handled at once; an anonymous id that moves; partial failure and redelivery; panics | an acked event is enriched, and giving up comes at the last delivery; what a user did is linked to that user; triggers tell of enriched events |
| Data cleanup (`worker/cleanup/scheduler.go`) | rows of `events_raw` (with their enriched events) and `audit_logs` older than DATA_RETAIN_FOR | batched deletes | Postgres | deletes rows of any status | deletes nothing a message still waits for |
| SES client, rendering, configuration, message types | none | calls and conversions | SES | classification of errors | - |

## 2. Plan

Order of modelling, most important behaviour first. What this version contains
is marked done.

1. `JetStream`, `TransactionalEmail`: the core of the system; invariant and proofs. **done**
2. `CampaignRows`, `CampaignChunk`, `CampaignStart`, `CampaignScheduler`, and
   `CampaignPipeline`, which composes the last three over shared rows and messages. **done**
3. `RedisLock`, `SegmentRefresh`. **done**
4. `TokenBucket`. **done**
5. `DomainVerification`: worker, sweeper and API together. **done**
6. `WorkflowEngine`: trigger handler, executor, schedulers. **done**
7. `EventEnrichment`: the consumer of `events.raw.*`, its retries and the marks on
   `events_raw`, the two unique keys of `contacts`, and the sweep that deletes raw
   events; what the consumer of `workflow.trigger` makes of its triggers. **done**
8. `SegmentFilter`: the filter tree, against a formula that reads it without an
   order, and the operators of a leaf against each other. **done**
9. Abstract specifications: `Mailer`, an at-most-once mailer that
   `TransactionalEmail` and `CampaignChunk` implement outside the named
   ambiguities, and `CampaignPipeline` while its segment keeps still **done**; a job
   that is done once, for the executions of `WorkflowEngine`, not stated yet.

Proofs, in order: `TransactionalEmail` (types, AcceptedOnce, SentMeansAccepted,
AckedMeansDecided, FailedMeansNotAccepted, SentIsFinal, and that it implements
`Mailer`) **done**; RateIsKept of `TokenBucket` **done**; that `CampaignChunk`
implements `Mailer`, and its SettledIsJustified **done**; the safety properties of
`SegmentRefresh` **done** and of `DomainVerification` **done**; the safety properties of
`WorkflowEngine` (EmailOncePerNode, CompletedMeansEmailed, DelayIsServed) **done** and of
`EventEnrichment` (SettledIsJustified, LinkedToOwnUser, TriggersAreBacked) **done**;
GivenUpOnlyAtTheEnd of `TransactionalEmail` and TwoWaitsSuffice of `TokenBucket` **done**;
the safety properties of `CampaignPipeline`, and that it implements `Mailer` **done**.

## 3. Modules and how they correspond to the code

The rule everywhere: one action per call that leaves the process, in the order
of the code, with the branch the code takes on its result. Local computation
between two calls belongs to the action of the call it follows. A call may
succeed, fail without effect, or take effect and lose its answer. SQL statements
are functions of the row (`MarkedSent(r)`, `Started(c, total)`): each is one
statement in `client.go`, so its guard and its effect are one step.

| Module | Code | Notes |
|---|---|---|
| `JetStream` | the server as `registry.go` and `publisher.go` use it | a message is its state and NumDelivered; external |
| `RedisLock` | `infra/redis/client.go` 40-63 | a lock is its value; Orphan stands for a value nobody will release |
| `TransactionalEmail` | `Handler.Handle` | rows, attempts, SES outcomes, events, dead letters |
| `Mailer` | - | what the two email workers promise of an email: accepted once unless in doubt, a row that says 'sent' of an accepted email only, and 'sent' taken back by a bounce only |
| `CampaignRows` | the statements on `campaigns` and `campaign_recipients` | |
| `CampaignChunk` | `CampaignChunkHandler.Handle`, `processRecipient` | recipients in any order; a recipient's row and its event, which nobody here reads, are one step |
| `CampaignStart` | `CampaignStartHandler.Handle`, `Batcher.StreamAndChunk` | contacts are numbers in id order; chunk ids are page indexes; `Generations` bounds copies of a chunk after the dedup window |
| `CampaignScheduler` | `poll`, `fire` | |
| `CampaignPipeline` | the wiring in `main.go` 106-135, 200-203 | INSTANCEs chunk and scheduler over the variables of start |
| `SegmentRefresh` | `segments/handler.go` | which contacts match is a set that may change at any moment |
| `TokenBucket` | the Lua script, `TryAcquire`, `Acquire` | time in ticks, tokens in units; the script computes with doubles of epoch seconds, so each refill and each wait is off by an error of up to `Rounding` units, chosen anew each time |
| `DomainVerification` | `ses/handler.go`, `ses/cleanup_scheduler.go`, `CheckDomainVerification` | deliveries beyond `CountedUpTo` are counted as that one: MaxDeliver is -1 |
| `WorkflowEngine` | `workflows/handler.go`, `executor.go`, `scheduler.go` | the executor's actions are shared by trigger callbacks and schedulers; a lock carries the constant value the code gives it; faults are drawn from a budget |
| `EventEnrichment` | `events/handler.go`, `events/enricher.go`, the statements of `client.go` 510-738, `sweepEvents` | `contacts` is the sequence of its rows; a statement that breaks a unique key fails (the keys are those the two ON CONFLICT clauses name); traits are known by their JSON shape; `payload` is chosen from `Scenarios`; failures are drawn from a budget |
| `SegmentFilter` | `segments/evaluator.go` | a value is what `%v` prints of it, the number `toFloat` makes of it, and its elements; uses RECURSIVE operators, so nothing is proved about it |
| `TransactionalEmailProofs`, `CampaignChunkProofs`, `CampaignPipelineProofs`, `TokenBucketProofs`, `DomainVerificationProofs`, `SegmentRefreshProofs`, `WorkflowEngineProofs`, `EventEnrichmentProofs` | - | lemmas and theorems |
| `MC*` | - | instances for TLC, and statements of docs and comments that the code does not keep |

Other abstractions, each deliberate:

- A handler whose context ends is one whose remaining calls fail; a lost Ack is
  a crash at `"answer"`. A panic in the transactional and the segment handler is
  an action of its own (the deferred calls run, `dispatch` naks); in the chunk
  handler it is a crash followed by the expiry of the message.
- Message bodies are model values. Rendering is left out. "Malformed" sets
  contain messages that do not parse or validate.
- `ambiguous` (email, chunk) names the sends of which no later delivery can
  know: SES accepted and the answer or the UPDATE was lost, the worker died
  before recording, or the message was given out again while it was being sent.
  AcceptedOnce is stated outside this set, and the actions that add to it are the
  environment's (a failure, an expiry, a crash), never a decision of the handler
  that could be otherwise.
- `CampaignChunk` starts in one of `Scenarios`: how the recipients are cut into
  chunks, and whether anything but SES fails (`faulty`). In
  `DomainVerification`, failures may cease at any moment (`CalmDown`), which
  changes nothing else.
- In `EventEnrichment`, `Sweep` deletes a row once its message is settled: the
  stream keeps a message for 48 hours (infra/nats/client.go:91), and
  DATA_RETAIN_FOR is 45 days. The batches of the sweep, 1000 rows each, are
  its single deletions in any order.
- In `WorkflowEngine` the stream may drop or store a repeated email, since the two minutes of its
  dedup window may or may not have passed.

## 4. Runs

`tlc -config X.cfg M` in this directory. Bounds are the smallest in which the
situation occurs: two workers or two replicas for every race, two deliveries (three
for the email worker) so that there is a first, a retry and a last one, two
recipients or contacts where one may be treated unlike the other, two pages.

| Run | Module, cfg | What it shows |
|---|---|---|
| `email` | MCTransactionalEmail, TransactionalEmail | two workers, one send, three deliveries, every call failing both ways, crashes, panics, bounces: the worker implements `Mailer`, no Ack loses an email, giving up comes at the end, and the work ends (91 thousand states) |
| `chunk_overlap` | MCCampaignChunk, CampaignChunk_overlap | two deliveries of a chunk at once implement `Mailer`; and, when only SES fails, two chunks on two workers always complete the campaign (101 thousand) |
| `chunk_retry` | MCCampaignChunk, CampaignChunk_retry | two recipients of one chunk fare differently and the chunk is retried to the end (1.3 million) |
| `campaign` | MCCampaignPipeline, CampaignPipeline | scheduler, start and chunks together, for two campaigns side by side: one with two start handlers that fail, crash and overlap while chunks are sent, over a segment that keeps still; one (`Moving`, an INSTANCE with other constants) with two schedulers that fail, a segment that empties and fills, a dedup window that passes, and a malformed start message (864 thousand) |
| `stuck` | MCCampaignPipeline, CampaignPipeline_stuck | **violation**: nothing fails, and a campaign all of whose chunks are done stays 'sending' |
| `refresh` | MCSegmentRefresh, SegmentRefresh | two workers, one refresh of a segment whose row may be missing or its filter invalid, two pages, contacts changing |
| `bucket` | MCTokenBucket, TokenBucket | two clients, a token of 5 units, a bucket of two tokens, 3 units per tick and an error of one, key expiry, an observer that starts counting at any time; and, as a second instance, one client that is alone for twice as long: its second wait is its last, and a tick (970 thousand) |
| `domain` | MCDomainVerification, DomainVerification | poll, sweep, deletion, and SES going round three answers, in two kinds of behaviours: two workers with overlapping deliveries, or one with failures and crashes until they cease; liveness: SES says SUCCESS for good, and the domain becomes verified whatever a sweep did (770 thousand) |
| `workflow` | MCWorkflowEngine, WorkflowEngine | two workers, two schedulers, the graph email, delay, email, end and a broken one, one fault of any kind at any point |
| `events` | MCEventEnrichment, EventEnrichment | five scenarios of three events on two workers: two users and a track that share an anonymous id, an alias beside events of both its ids, an anonymous id that its user gives up, a user seen without and then with traits, events that lack an id or do not parse; one of them without a row; one fault of any kind at any point (292 thousand) |
| `events_untriggered` | MCEventEnrichment, EventEnrichment_untriggered | **violation**: nothing fails, and the trigger of an event starts no workflow |
| `filter` | MCSegmentFilter, SegmentFilter | 30 contacts against every leaf and every tree of two levels over five leaves (154 thousand) |

The violation runs are the findings of `PROJECT.json`. Deadlock is not checked:
every one of these systems may come to rest when its messages are settled.

**Fairness.** Every fair specification assumes the same, and no more: a handler that
runs makes its next call and gets an outcome (its context has a deadline, so
a call cannot hang; the outcome may be a failure); a waiting message is
delivered to an idle callback; AckWait, the TTL of a lock nobody holds and
`next_run_at` run out; tickers tick. Nothing is assumed of
crashes, of failures ceasing, or of the API, except where a property says so:
in `workflow` and `events` `MaxFaults` bounds them (a waiting execution is resumed,
a plain event is enriched, once faults have ceased), and Verifies speaks of the
behaviours in which they cease, and of a SUCCESS that no delivery under way has
missed: it asks that no worker carries an answer SES gave before. One that does may write its 'pending' over
the row another has verified and acked, and then nothing polls the domain again (VerifiedIsKept in section 6).

**Bounds.** MaxAttempts stands for 6 in the email, start and chunk consumers and for
`*_MAX_RETRIES + 1` elsewhere. Handlers compare the attempt with it only for
equality with the last, so 2 or 3 exercise first, middle and last. `PageSize` and
`ChunkSize` are 1, with as many contacts as make a full last page and an
empty one after it. `MaxNow` in `TokenBucket` covers filling, expiry (`TTL`)
and refilling; `waits` is reset by each Acquire. `Rounding` is a third of `Rate`,
the most that BucketAssumption allows, where the code's doubles are off by 2.4e-4 of what
a millisecond refills: an error may lose the token at the named time, and decide at any fill between
a grant and a denial. `domain` takes overlapping deliveries and failures apart
(`OverlapOrFaults`; both at once are beyond 15 million states), and either
with every answer of SES and every sweep. `Generations` is the number of
copies of a chunk the dedup window lets through. `CountedUpTo` is one beyond the last
attempt number the handler distinguishes. In `EventEnrichment` two deliveries and one
fault let an event fail once and succeed, and three events are what it takes for
an id to be created, moved and looked up by different ones; PlainEventsAreEnriched asks for
fewer faults than deliveries.

## 5. What is proved

`tlapm TransactionalEmailProofs.tla` checks, for any sets of sends and workers and any
`MaxAttempts >= 1` (ASSUME MaxAttemptsAssumption; and NoSend is no send):

- `TypeCorrect`: `Spec => []TypeOK`;
- `Invariance`: `Spec => []Inv`;
- from it `NoDoubleSend` (AcceptedOnce), `SentIsTrue` (SentMeansAccepted),
  `NoLostEmail` (AckedMeansDecided), `FailureIsTrue` (FailedMeansNotAccepted),
  and `SentStaysSent` (SentIsFinal);
- `IsMailer`: `Spec => ImplementsMailer`. The mapping hides a row that is not final
  yet; a send without a row is in doubt from the start. `Inv` says that an
  acceptance finds nothing accepted before, or doubt (NotAcceptedYet), and that
  a row becomes 'sent' of an accepted email; the other actions change neither.
  AcceptedOnce, SentMeansAccepted and SentIsFinal are what `Mailer` promises, and
  the runs check them through it.

AcceptedOnce is not inductive: that a worker which passed the check finds nothing
accepted depends on where the other workers are. `Inv` adds the argument:

- *OneHolder*: an unambiguous send has at most one worker that may still send or
  has yet to record, and none while its message is queued. Only Receive makes a
  holder, and it needs a queued message; only Expire, Nak or a panic queue
  one, and they make a send ambiguous when a holder is left behind.
- *AcceptanceKnown*: an acceptance of an unambiguous send is in the row or about
  to be put there by its holder.
- *NotAcceptedYet*: between the check and the send nothing has been accepted,
  because the check read the row and the holder is alone.
- *VerdictJustified*: what a worker about to ack has seen.

Each is preserved action by action (`InvStep`, one step per action). SentIsFinal
follows from the guards of the statements, one action at a time. The
proofs about each consumer begin with the lemmas they need of the operators on messages
(DeliveredFacts, RequeuedFacts, AnsweredFacts).

`GivenUpAtTheEnd` (GivenUpOnlyAtTheEnd) has an invariant of its own, `LastInv`. A worker
compares the attempt it was given, while the property speaks of the count of the
message, which other deliveries move: *AttemptIsCounted* says that the count is never
behind any attempt in hand (CountGrows: no step takes a delivery back), and
*GivingUpIsLast* that whoever is past the decision to give up, at any of the calls between
it and the answer, has the last attempt or SES's refusal.

`tlapm TokenBucketProofs.tla` checks, for any clients, rate, cost and capacity
(ASSUME BucketAssumption: above all that a key lives long enough for its bucket to
be full again, `Rate * TTL >= Capacity`, and that three errors of the script are no more than
a tick refills, `3 * Rounding <= Rate`; they are far less), and provided that every caller's clock is
the same distance ahead and that no time passes between the reading of the
clock and the script (`ClocksAgree`):

- `RateKept`: `Spec => []RateIsKept`, and `TypeCorrect`: `Spec => []TypeOK`.

RateIsKept speaks of what was granted and not of what is left, so it is not
inductive. `IInv` adds *Potential*: what was granted and what the bucket would hold
at this moment at most (`Held`) are together no more than the capacity and the refill since
the observer began, an error included for each tick. Grant moves `Cost` from the second to
the first (HeldIsStored), Tick adds at most `Rate + Rounding` to each side (TickRefills: the
error is that of the refill the tick makes possible; a call at the time of the last refills nothing), Observe starts with at most a full
bucket, and Forget loses nothing because the bucket was full (ForgottenWasFull).
*CallsAreTimely* and *BucketIsDated* say that the time a script is given is the
present one and that the bucket's is not ahead of it. That calls do not lag is
needed: RateIsKeptByLateCalls (section 6) fails without it.

Under the same `ClocksAgree`, for one client that is alone with its bucket and a
capacity that holds a token (`BucketHoldsAToken`: NewTokenBucket raises a rate below one to
one and makes the capacity the rate, token_bucket.go:72-80):

- `WaitsTwice`: `Spec => []TwoWaitsSuffice`.

One wait need not do: the wait is computed from one refill and served by another, each with its error.
*WaitIsEnough* says of each place in Acquire what a client which has waited finds there at
the `Least`, whatever the errors: after the first wait no more than its `Due` is missing, which
is two errors, since the wait times the rate is what was missing less an error (RoundedUp,
WaitRefills); the wait named for so little is one tick, and a tick refills it and the error of
its own. Time and a forgotten key only add to the bucket (LeastGrows, LeftAlone). A capacity below
one token would be waited for over and over.

`tlapm CampaignChunkProofs.tla` checks, for any recipients (finitely many), chunks,
workers, scenarios and any `MaxAttempts >= 1`:

- `TypeCorrect`: `Spec => []TypeOK`;
- `IsMailer`: `ChunksApart /\ Spec => ImplementsMailer`, where ChunksApart says that
  no scenario has a recipient in two chunks;
- `AnswersAreJustified`: `Spec => []SettledIsJustified`, without that assumption.

`MailInv` is the argument of the transactional worker for many recipients at
once: a recipient is at hand (AtHand) from the delivery of its chunk to the recording
of its email, OneHolder says that one worker at most has it at hand and that its chunk is
not given out meanwhile, and here Receive keeps that only because another
chunk cannot bring the same recipient (Apart). `AnswerInv` follows each recipient
of a chunk through the loop: until the chunk is disposed of it is still to do, at hand,
noted for the next delivery, or decided (Accounted), so that an empty retry list
means all are decided; the verdicts keep their reasons until the answer (VerdictJustified),
and an attempt is never ahead of its message's count (Counts). The lemmas OneActs,
CursorMoves, RowSteps and Acceptances say once what any step may do to a worker, a
cursor, a row and the acceptances; the invariants cite them.

`tlapm CampaignPipelineProofs.tla` checks, for any contacts (finitely many), chunk size, start
jobs, start and chunk workers, schedulers and faults (ASSUME SegmentsAssumption,
ChunkAssumption and those of `CampaignStart`), whatever the segment does and however
often its pages are published:

- `TypeCorrect`, `ChunkAnswersAreJustified` (SettledIsJustified of its chunks),
  `FiredAtMostOnce` (FiredOnce), `CompletedIsCounted` (CompletedMeansCounted) and
  `CompletedStays` (CompletedIsFinal);

and, when the segment's query returns the same contacts throughout and chunk ids are
remembered (`SegmentStays` and `~WindowCloses`, as for the campaign of the run that
keeps still):

- `StartedIsPublished`: a recorded total is the number of contacts, each of whom has a row and
  is in exactly one chunk;
- `AcceptedAtMostOnce`: no contact's email is accepted twice outside the ambiguities;
- `CampaignIsMailer`: the pipeline implements `Mailer`.

Both hypotheses are needed: EveryRowIsInAChunk and AcceptedOnce in section 6 are what happens
when the segment changes, and when the window closes, under a start job that is run again.

The proofs about chunks are not repeated. `CampaignChunkProofs` is an INSTANCE
(ChunkConstants discharges what it assumes, SameSteps and ChunkSteps say that its steps
are those of the pipeline's chunk workers), and every other step of the pipeline is one
*beside* the handlers: it gives no worker anything, adds messages and rows at most, and
leaves the acceptances alone. AnswerBeside, MailBeside and MailerBeside say that such a step
keeps what the chunk handlers rely on. The invariants are, each from those before it:

- *Base*: the types of the start handler (StartTyped), that a chunk not published yet
  carries nobody (Fresh), that a page about to be published is not empty (PageAtHand),
  and that chunk handlers hold published chunks and their answers are justified (Handled).
- *Claims*: a campaign still 'scheduled' has no start message and nobody about to publish
  one; while a scheduler that claimed it is about to, it is the only one and no message
  is there. FiredOnce is read off it.
- *StatusMoves*: what any step may do to the campaign's row. CompletedMeansCounted and
  CompletedIsFinal need only this, since the statements guard themselves.
- *PubInv*: every chunk is one page of the segment, the page that begins after the contacts of
  those before it (Paged); a run of the batcher is always at such a place, whichever run
  published the pages before (OnPage); and a total once recorded is that of all pages
  (Recorded). NextBatchFacts says what a page is, PagesAddUp that the pages up to a
  cursor hold the contacts up to it, each once, and PagePublished that publishing keeps this,
  whether the stream stores the chunk or drops it as a duplicate.

From PubInv follows ChunksAreApart, that no contact is in two chunks and each contact in a chunk has
a row. `IsMailer` of `CampaignChunkProofs` had to assume this of its scenarios; here it
is proved of the batcher that makes the chunks.

`tlapm DomainVerificationProofs.tla` checks, for any messages, workers and sweepers and
any faults (ASSUME CountAssumption: the delivery count is capped beyond the attempts
the handler tells apart):

- `TypeCorrect`, `VerifiedByItsDKIM` (VerifiedIsTrue), `PollingEndsDecided`
  (PollingGoesOn) and `StatementsKeepDecisions` (DecisionsStand).

Beside the properties `Inv` holds what makes them inductive: what a worker remembers of
SES's answer SES has said (SeenIsSaid), an Ack or Term is only on its way when SES has
decided, the domain is gone or the message is malformed (VerdictJustified), and
a row is 'deleted' or missing only when the API made it so (GoneIsKnown). An unlimited
message is never used up (NeverUsedUp), so only an answer closes one.

`tlapm SegmentRefreshProofs.tla` checks, for any requests, workers, contacts, page size and
number of attempts (ASSUME LockValuesAssumption, PagingAssumption and those on
messages), `TypeCorrect` and, provided that the lock outlives its holder
(`"outliveLock" \notin Faults`, as in the run `refresh`):

- `CountIsTrue` (ReadyMeansCounted), `AnswersAreJustified` (SettledIsJustified) and
  `ReadyIsEarned` (ReadyMembersAreMatched).

Only the holder of the lock computes (OneHolder), so that nobody else changes the members
between its reading of them and its writing (MembersFollow: unchanged before the insert,
the union after it, the matched set after the delete) or the status (Covering). The
count the handler computes, old members plus added less removed, is then that of
the matched set (DifferenceCounts, FinalCountIsMatched). Without the assumption
the first and the third fail on the instance of the run (the second does not, but the
proof goes through OneHolder); section 6 has what the code does then.

`tlapm WorkflowEngineProofs.tla` checks, for any executions, graphs, workers, schedulers,
faults and number of attempts, `TypeCorrect` and, provided that no lock runs out under its
holder (`LocksLast`: `"outliveLock" \notin FaultKinds`, as in the run `workflow`):

- `Invariance`: `Spec => []Inv`;
- `OneEmailPerNode` (EmailOncePerNode), when the graphs have no loop (`LoopFree`: a node is
  not on the way onward from itself; a loop means to email again);
- `CompletedIsEmailed` (CompletedMeansEmailed), when in a graph whose way from the first
  node ends every email node lies on that way (`EmailsOnTheWay`: a node that no edge leads
  to is never emailed for, and the code does not look for one);
- `DelayServed` (DelayIsServed, an action property).

The way from a node (`Way`) is the least set of nodes closed under the edge the executor
follows; it is defined as an intersection, so that no recursion is needed. None of the
properties is inductive: that a node is not run again depends on who else is at work on
the execution, and that nothing was skipped on where each one stands. `Inv` has four parts,
each proved from those before it:

- *Typed*: the types, and which actor has a message, an execution or a list at
  which call.
- *Locked*: one scheduler is past the poll lock (OneScheduler), an execution has one trigger
  handler at most (OneTrigger, by the unique key its row is inserted under), and an actor at work holds the
  execution's lock (LocksHeld). Because a lock's value is a constant of the code, that the
  lock is held says little of by whom; the next part does.
- *Owned*: an execution its trigger runs is 'running' and on no scheduler's list
  (TriggerRuns); one that a scheduler has resumed is 'running' (ResumedRuns); one on a list
  is due if it still waits (DueIfWaiting). This is where a stale list could resume
  an execution that waits for its next delay, and DelayServed is read off it.
- *OnCourse*: the node an actor is about to run, and the one the row names, are on the
  way from the first; what lies before is done with (Passed), and nothing was sent for what
  lies ahead (Fresh), in the row as for each actor (RowOnCourse, ActorOnCourse).

`tlapm EventEnrichmentProofs.tla` checks, for any events, users, anonymous ids (finitely many:
ASSUME FiniteIdsAssumption), workflows, workers, scenarios, faults and number of attempts:

- `TypeCorrect`, `Invariance`, `AnswersAreJustified` (SettledIsJustified), `LinksAreTrue`
  (LinkedToOwnUser) and `TriggersFollowTheInsert` (TriggersAreBacked).

Nothing is assumed of how many handlers run or overlap, nor of what fails. `Inv` joins the
properties with what they need of `contacts` and of the handlers:

- *Keyed*: no two rows have the same user or the same anonymous id, and none lacks both. Every
  statement on `contacts` keeps it, the merge included, which moves an anonymous id
  from one row to another. It also bounds the rows by the number of ids (a
  pigeonhole argument), which TypeOK needs.
- *Handled*: at each call of a delivery, which ids its event has and whose the
  contact is that the handler carries: once a user's contact is found or made, it is that
  user's until the triggers are published, because no statement of another
  delivery gives a row another user (Kept).
- *Seen*: a handler past the insert has its event enriched, and one on the way to giving up
  has the last attempt. No sweep takes the event from under it: the model lets one run
  only when the message is settled and nobody has it in hand (section 3: 45 days
  against 48 hours).

Only model-checked, and why:

- every liveness property: fairness and ENABLED are out of the prover's reach;
- SentCountIsEarned of `CampaignChunk`, which adds over all recipients: the sum is a fold, and
  what a fold computes is induction over data;
- everything about `SegmentFilter`, which is recursive;
- WellTyped, StillMeansPublished and the other properties of the `MC` modules that join two
  instances; the theorems are about each specification by itself, for all of its
  instances (TypeCorrect and StartedIsPublished are those of WellTyped and
  StillMeansPublished).

## 6. Known divergences

While modelling, these statements of the documentation and comments turned out not to
hold of the code. `stuck` and `events_untriggered` are kept as runs; the others have a
configuration per component. TLC stops at the first property it finds violated: leave
the one of interest in the configuration (`tlc -config <cfg> <module>`) to see its
counterexample.

| Configuration, property | The statement | What the code does |
|---|---|---|
| CampaignPipeline_stuck, AllDoneMeansCompleted | docs/workers/campaign-email.md:114, "When `sent + failed >= total`, `MarkCampaignComplete` runs" | the total is written after the chunks are published (batcher.go:261); chunks that were counted before it complete nothing, and nothing looks again |
| EventEnrichment_untriggered, TriggersStartWorkflows | README.md:73, "multi-step workflows triggered by analytics events" | the payload of the trigger names no workflow (events/handler.go:243), and its consumer terminates it (workflows/handler.go:115) |
| CampaignPipeline_divergences, ClaimedMeansFired | campaign_scheduler.go:29-30, a due campaign is fired | a campaign claimed by a poll whose publish fails stays 'sending' without a start message |
| CampaignPipeline_divergences, EveryRowIsInAChunk | batcher.go:95-98, re-running "with overlapping data is safe within the stream's dedup window" | the id names a page's position: a page that gained a contact is dropped under its old id |
| CampaignPipeline_divergences, NoContactMissed | campaign-email.md:65, "lower IDs are not missed" | ids are random, and one below the cursor is not fetched |
| CampaignPipeline_divergences, AcceptedOnce | batcher.go:235-237, re-running a 'sending' campaign "is safe" | the retries last 2h51m, the stream remembers ids for 30 minutes (infra/nats/client.go:75) |
| CampaignChunk_divergences, CompletedMeansProcessed | client.go:318-320, completes "if and only if all recipients have been processed" | a refused recipient is sent to and counted again at each retry of its chunk (handler.go:627) |
| CampaignChunk_divergences, AckedMeansCounted | handler.go:539, "Don't lose the message - nak so we retry" | the retry finds the rows 'sent' and counts nothing |
| TransactionalEmail_dlq, ExhaustedIsDeadLettered | docs/workers/transactional-email.md:28, after 6 attempts "the message is routed to the DLQ and the send is marked `failed`" | a failed check, a denied rate limit and a failed UPDATE nak at the last attempt too (175, 190, 201) |
| TransactionalEmail_rowless, DuplicateDeliveryIsSafe | transactional-email.md:77, the check "protects against duplicate delivery" | a workflow's email has no row (workflows/executor.go:193), so the check reads nothing |
| SegmentRefresh_divergences, NoConcurrentRecomputes | segments/handler.go:136, the lock is there "to prevent concurrent recomputes" | the lock lives 10 minutes, a handler 12 (main.go:164) |
| SegmentRefresh_divergences, SkippedIsHandled | segments/handler.go:142, "another worker is handling it" | the other worker may have read the contacts before |
| SegmentRefresh_divergences, CrashIsTakenUp | docs/workers/segment-computation.md:59, "the lock expires after 10 minutes and the next delivery will acquire it" | the redelivery comes after one minute, finds the lock and acks |
| TokenBucket_divergences, RateIsKeptByLateCalls | docs/rate-limiting.md:17, "no race conditions between worker replicas" | a late call sets the bucket's clock back, and time is refilled twice |
| TokenBucket_divergences, OneWaitSuffices | token_bucket.go:24-25, "the suggested wait time (in ms) until enough tokens accumulate" | the times are doubles of epoch seconds: at 10 a second, 100 ms later the bucket may hold 0.999999 of a token, and a client that is alone with it is denied again and waits another millisecond |
| DomainVerification_divergences, VerifiedIsKept | docs/development.md:74, "All `UPDATE` statements are conditional on current status" | the condition of UpdateDomainPending (client.go:76-90) only leaves out domains being deleted: a delivery that read PENDING before writes it over the 'verified' of another, whose message is acked, and a sweep will fail the domain |
| DomainVerification_divergences, ExpiredEventIsTrue | cleanup_scheduler.go:21-22, an event "for each expired domain" | the event is published also when the guarded UPDATE matched no row |
| DomainVerification_divergences, ExpiryStays | cleanup_scheduler.go:25-26 and client.go:145, 'failed' is terminal | the poll goes on and sets it back to 'pending' |
| DomainVerification_divergences, ReminderIsSent | ses/handler.go:177, "nudge the user once" | tied to one attempt number, which may pass without a check |
| DomainVerification_divergences, FailedAfterNine | docs/workers/domain-verification.md:33, after attempt 9 the domain is `failed` | it is polled for ever |
| WorkflowEngine_divergences, CutShortIsRetried | README.md:117, "Max workflow execution retries" | a redelivered trigger finds the execution it created and acks |
| WorkflowEngine_divergences, StaleListIsHarmless | workflows/scheduler.go:117, the re-fetch "guards against concurrent updates" | it checks the status and not `next_run_at`: a poll of more than 45 seconds may cut a later delay short |
| EventEnrichment_divergences, StatusIsFinalAtRest | docs/workers/event-enrichment.md:73, "queued -> processing -> processed / failed" | a contact made without traits has the traits null, on which `mergeTraits` panics (enricher.go:178-189): each delivery of a later event with traits panics, and the row stays 'processing' |
| EventEnrichment_divergences, IdentifiedIsNotFailed | event-enrichment.md:51, identify will "link existing anonymous profile" | the upsert itself writes the anonymous id, which the profile still holds: the unique key refuses it at each delivery |
| EventEnrichment_divergences, TriggersAgree | enricher.go:41-42, "re-running with the same event produces the same contact linkage" | the anonymous id may have come to another contact between two deliveries |
| EventEnrichment_divergences, FailedMeansNotEnriched | event-enrichment.md:61, "the idempotency check will short-circuit on the next delivery" | the check looks for 'processed' and reads 'processing': the event is enriched again, and its last attempt may mark it 'failed' |

Without a model of their own: docs/workers/segment-computation.md describes filter trees
with `logic`, `children` and `eventName`, and the fields `traits.*`, `user_id` and `status`,
none of which the evaluator reads (a tree of that shape is a leaf with an unknown
operator, or a missing field); a null in `rules` is a nil node, on which the evaluation panics (evaluator.go:67; the trees of
the model have none); evaluator.go:80 says the days of `occurred_within_days` are
"Handled at DB level", where nothing looks at them; client.go:618 says traits are
merged "via jsonb_strip_nulls", which the statement does not call; and the attempts of a raw
event are never counted (client.go:557 has no caller).

## 7. Not modelled

The sweep of `audit_logs`, which no worker reads. `RegisterHandler` reads the workflow
and answers its message. Rendering, configuration and start-up have no state
of their own; their limits are the constants of the models. Pausing a consumer,
connecting and metrics are left out. The packages under `internal/domain`,
`internal/observability`, `internal/health` and the remaining workers contain
a package clause only. `EventEnrichment` and `WorkflowEngine` are not composed: as the code
stands, no trigger the one publishes passes the validation of the other.
