----------------------------- MODULE CampaignStart -----------------------------
(***************************************************************************)
(* The consumer of campaign.send.start: CampaignStartHandler.Handle and    *)
(* Batcher.StreamAndChunk of internal/worker/email/batcher.go.             *)
(*                                                                         *)
(* It pages through the campaign's segment in id order, writes a row per   *)
(* recipient, publishes a chunk per page under the message id              *)
(* "<campaign>-chunk-<idx>", and records the total at the end.  It starts  *)
(* from the first page again whenever the message comes back.              *)
(***************************************************************************)
EXTENDS JetStream, CampaignRows, FiniteSets

CONSTANTS
    Contacts,       \* contact ids, ordered: a set of positive numbers
    ChunkSize,      \* CAMPAIGN_CHUNK_SIZE
    MaxChunks,      \* bound on the chunk indexes
    Generations,    \* bound on the messages published under one chunk id
    Jobs,           \* start messages of the campaign
    BadJobs,        \* those that do not parse or validate
    StartWorkers,   \* the message callbacks of all replicas
    None,           \* no job
    MaxAttempts,    \* the consumer's MaxDeliver
    StartMayFail    \* whether calls fail, processes die and answers come late

ASSUME ContactsAssumption == Contacts \subseteq Nat \ {0} /\ IsFiniteSet(Contacts)
ASSUME ChunkSizeAssumption == ChunkSize \in Nat \ {0}
ASSUME BoundsAssumption == MaxChunks \in Nat /\ Generations \in Nat \ {0}
ASSUME StartAssumption == None \notin Jobs /\ StartMayFail \in BOOLEAN

\* A chunk's message: its index, and which of the messages with its id it is.
ChunkIds == (0 .. MaxChunks - 1) \X (1 .. Generations)

VARIABLES
    startMsg,   \* Jobs -> Msgs: the start messages in stream CAMPAIGN
    segment,    \* the contacts the segment's query returns now
    window,     \* CAMPAIGN still remembers the chunk ids (Duplicates: 30m)
    chunkMsg,   \* ChunkIds -> Msgs
    payload,    \* ChunkIds -> SUBSET Contacts
    campaign,   \* the row of the campaign
    recipient,  \* Contacts -> RecipientStates: campaign_recipients
    spc,        \* the next call of each start worker
    sjob,       \* the job it handles
    page,       \* StreamAndChunk's locals: [after, idx, total, batch]
    sverdict    \* how it will answer the message

startWorkerVars == <<spc, sjob, page, sverdict>>
startVars == <<startMsg, segment, window, chunkMsg, payload, campaign, recipient, startWorkerVars>>

StartPCs == {"idle", "validate", "status", "fetch", "insert", "publish", "finish", "answer"}

Pages == [after : Nat, idx : Nat, total : Nat, batch : SUBSET Contacts]
FirstPage == [after |-> 0, idx |-> 0, total |-> 0, batch |-> {}]

StartTypeOK ==
    /\ startMsg \in [Jobs -> Msgs]
    /\ segment \subseteq Contacts
    /\ window \in BOOLEAN
    /\ chunkMsg \in [ChunkIds -> Msgs]
    /\ payload \in [ChunkIds -> SUBSET Contacts]
    /\ campaign \in Campaigns
    /\ recipient \in [Contacts -> RecipientStates]
    /\ spc \in [StartWorkers -> StartPCs]
    /\ sjob \in [StartWorkers -> Jobs \cup {None}]
    /\ page \in [StartWorkers -> Pages]
    /\ sverdict \in [StartWorkers -> Verdicts]

\* FetchSegmentContactsBatch: the first ChunkSize contacts after the last id.
NextBatch(after) ==
    LET rest == {c \in segment : c > after}
    IN  {c \in rest : Cardinality({d \in rest : d < c}) < ChunkSize}

LastOf(batch) == CHOOSE c \in batch : \A d \in batch : d <= c

\* BulkInsertCampaignRecipients: an existing row keeps its status.
Inserted(batch) ==
    [c \in Contacts |-> IF c \in batch /\ recipient[c] = "none" THEN "queued" ELSE recipient[c]]

(***************************************************************************)
(* Publishing chunk idx.  The server drops a message whose id it           *)
(* remembers; afterwards it stores it a second time.                       *)
(***************************************************************************)
\* Mutant: the message id differs from run to run.
StoredAlways(idx) ==
    Cardinality({g \in 1 .. Generations : chunkMsg[<<idx, g>>].st # "absent"}) < Generations

Copies(idx) == {g \in 1 .. Generations : chunkMsg[<<idx, g>>].st # "absent"}
Stored(idx) == Copies(idx) = {} \/ (~window /\ Cardinality(Copies(idx)) < Generations)

PublishChunk(idx, batch) ==
    IF Stored(idx)
    THEN LET id == <<idx, Cardinality(Copies(idx)) + 1>>
         IN  /\ chunkMsg' = [chunkMsg EXCEPT ![id] = NewMsg]
             /\ payload' = [payload EXCEPT ![id] = batch]
    ELSE UNCHANGED <<chunkMsg, payload>>

GotoS(w, next) == spc' = [spc EXCEPT ![w] = next] /\ UNCHANGED <<sjob, page, sverdict>>
AnswerS(w, v) == /\ spc' = [spc EXCEPT ![w] = "answer"]
                 /\ sverdict' = [sverdict EXCEPT ![w] = v]
                 /\ UNCHANGED <<sjob, page>>
ReleaseS(w) == /\ spc' = [spc EXCEPT ![w] = "idle"]
               /\ sjob' = [sjob EXCEPT ![w] = None]
               /\ page' = [page EXCEPT ![w] = FirstPage]
               /\ sverdict' = [sverdict EXCEPT ![w] = "nak"]

StartIdle == /\ spc = [w \in StartWorkers |-> "idle"]
             /\ sjob = [w \in StartWorkers |-> None]
             /\ page = [w \in StartWorkers |-> FirstPage]
             /\ sverdict = [w \in StartWorkers |-> "nak"]

NothingPublished == /\ chunkMsg = [k \in ChunkIds |-> NoMsg]
                    /\ payload = [k \in ChunkIds |-> {}]
                    /\ recipient = [c \in Contacts |-> "none"]

(***************************************************************************)
(* The handler, one action per call.                                       *)
(***************************************************************************)
ReceiveStart(w, j) ==
    /\ spc[w] = "idle"
    /\ Deliverable(startMsg[j])
    /\ startMsg' = [startMsg EXCEPT ![j] = Delivered(@)]
    /\ spc' = [spc EXCEPT ![w] = "validate"]
    /\ sjob' = [sjob EXCEPT ![w] = j]
    /\ UNCHANGED <<segment, window, chunkMsg, payload, campaign, recipient, page, sverdict>>

ValidateStart(w) ==
    /\ spc[w] = "validate"
    /\ IF sjob[w] \in BadJobs THEN AnswerS(w, "term") ELSE GotoS(w, "status")
    /\ UNCHANGED <<startMsg, segment, window, chunkMsg, payload, campaign, recipient>>

\* GetCampaignStatus: only a terminal campaign is skipped; one that is already
\* 'sending' is streamed again, and so is any other.
GetStatus(w) ==
    /\ spc[w] = "status"
    /\ \/ StartMayFail /\ AnswerS(w, "nak")
       \/ campaign.status = "completed" /\ AnswerS(w, "ack")
       \/ campaign.status # "completed" /\ GotoS(w, "fetch")
    /\ UNCHANGED <<startMsg, segment, window, chunkMsg, payload, campaign, recipient>>

Fetch(w) ==
    /\ spc[w] = "fetch"
    /\ LET batch == NextBatch(page[w].after)
       IN  \/ StartMayFail /\ AnswerS(w, "nak")
           \/ batch = {} /\ GotoS(w, "finish")
           \/ /\ batch # {}
              /\ page[w].idx < MaxChunks
              /\ page' = [page EXCEPT ![w].batch = batch]
              /\ spc' = [spc EXCEPT ![w] = "insert"]
              /\ UNCHANGED <<sjob, sverdict>>
    /\ UNCHANGED <<startMsg, segment, window, chunkMsg, payload, campaign, recipient>>

\* One transaction; a commit that fails may have happened.
Insert(w) ==
    /\ spc[w] = "insert"
    /\ \/ recipient' = Inserted(page[w].batch) /\ GotoS(w, "publish")
       \/ /\ StartMayFail
          /\ recipient' \in {recipient, Inserted(page[w].batch)}
          /\ AnswerS(w, "nak")
    /\ UNCHANGED <<startMsg, segment, window, chunkMsg, payload, campaign>>

\* The next page, or the end when this one was not full.
Publish(w) ==
    /\ spc[w] = "publish"
    /\ LET p == page[w]
       IN  \/ /\ PublishChunk(p.idx, p.batch)
              /\ page' = [page EXCEPT ![w] =
                            [after |-> LastOf(p.batch), idx |-> p.idx + 1,
                             total |-> p.total + Cardinality(p.batch), batch |-> {}]]
              /\ spc' = [spc EXCEPT ![w] =
                            IF Cardinality(p.batch) < ChunkSize THEN "finish" ELSE "fetch"]
              /\ UNCHANGED <<sjob, sverdict>>
           \/ /\ StartMayFail
              /\ PublishChunk(p.idx, p.batch) \/ UNCHANGED <<chunkMsg, payload>>
              /\ AnswerS(w, "nak")
    /\ UNCHANGED <<startMsg, segment, window, campaign, recipient>>

\* MarkCampaignCompleteEmpty for an empty segment, UpdateCampaignStarted else.
Finish(w) ==
    /\ spc[w] = "finish"
    /\ LET new == IF page[w].total = 0 THEN CompletedEmpty(campaign)
                                       ELSE Started(campaign, page[w].total)
       IN  \/ campaign' = new /\ AnswerS(w, "ack")
           \/ StartMayFail /\ campaign' \in {campaign, new} /\ AnswerS(w, "nak")
    /\ UNCHANGED <<startMsg, segment, window, chunkMsg, payload, recipient>>

AnswerStart(w) ==
    /\ spc[w] = "answer"
    /\ startMsg' = [startMsg EXCEPT ![sjob[w]] = Answered(@, sverdict[w], MaxAttempts)]
    /\ ReleaseS(w)
    /\ UNCHANGED <<segment, window, chunkMsg, payload, campaign, recipient>>

(***************************************************************************)
(* What happens around the handler.                                        *)
(***************************************************************************)
CrashStart(w) ==
    /\ StartMayFail
    /\ spc[w] # "idle"
    /\ ReleaseS(w)
    /\ UNCHANGED <<startMsg, segment, window, chunkMsg, payload, campaign, recipient>>

\* AckWait: the BackOff's first minute is shorter than HandlerTimeout.
ExpireStart(j) ==
    /\ StartMayFail
    /\ startMsg[j].st = "pending"
    /\ startMsg' = [startMsg EXCEPT ![j] = Requeued(@, MaxAttempts)]
    /\ UNCHANGED <<segment, window, chunkMsg, payload, campaign, recipient, startWorkerVars>>

WorkStart(w) ==
    \/ ValidateStart(w)
    \/ GetStatus(w)
    \/ Fetch(w)
    \/ Insert(w)
    \/ Publish(w)
    \/ Finish(w)
    \/ AnswerStart(w)

StartNext ==
    \/ \E w \in StartWorkers, j \in Jobs : ReceiveStart(w, j)
    \/ \E w \in StartWorkers : WorkStart(w) \/ CrashStart(w)
    \/ \E j \in Jobs : ExpireStart(j)

=============================================================================
