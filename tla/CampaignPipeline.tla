--------------------------- MODULE CampaignPipeline ---------------------------
(***************************************************************************)
(* One campaign from its schedule to its last chunk: CampaignScheduler     *)
(* publishes the start message, CampaignStart cuts the segment into chunk  *)
(* messages, CampaignChunk sends them.  They share the rows of Postgres    *)
(* and the messages of stream CAMPAIGN, and know nothing else of another.  *)
(***************************************************************************)
EXTENDS CampaignStart

CONSTANTS
    ChunkWorkers, Schedulers,
    ChunkMayFail, SchedulerMayFail,
    Segments,        \* what the segment's query may return, over time
    WindowCloses     \* whether the deduplication window may pass

ASSUME SegmentsAssumption == Segments \subseteq SUBSET Contacts
ASSUME ChunkAssumption == /\ None \notin ChunkIds \cup Contacts
                          /\ MaxAttempts \in Nat \ {0}
                          /\ ChunkMayFail \in BOOLEAN

VARIABLES
    faulty, pc, job, attempt, todo, cur, res, retry, verdict,  \* see CampaignChunk
    events, dlq, accepted, refused, ambiguous,         \* see CampaignChunk
    due                                                \* see CampaignScheduler

chunkOnly == <<faulty, pc, job, attempt, todo, cur, res, retry, verdict,
               events, dlq, accepted, refused, ambiguous>>
startOnly == <<startMsg, segment, window, startWorkerVars>>

vars == <<startVars, chunkOnly, due>>

Chunk == INSTANCE CampaignChunk
            WITH Recipients <- Contacts, Chunks <- ChunkIds, Malformed <- {},
                 Scenarios <- {}, Workers <- ChunkWorkers

Scheduler == INSTANCE CampaignScheduler

TypeOK == StartTypeOK /\ Chunk!TypeOK /\ due \subseteq Schedulers

\* The API leaves a campaign 'scheduled', or 'queued' with its start message.
Init ==
    /\ \/ /\ campaign = NewCampaign("scheduled")
          /\ startMsg = [j \in Jobs |-> NoMsg]
       \/ \E first \in Jobs :
             /\ campaign = NewCampaign("queued")
             /\ startMsg = [j \in Jobs |-> IF j = first THEN NewMsg ELSE NoMsg]
    /\ segment \in Segments
    /\ window = TRUE
    /\ NothingPublished
    /\ StartIdle
    /\ faulty = ChunkMayFail
    /\ Chunk!Idle
    /\ Chunk!NothingSent
    /\ due = {}

ScheduleStep == Scheduler!SchedulerNext
                /\ UNCHANGED <<segment, window, chunkMsg, payload, recipient, startWorkerVars, chunkOnly>>

StartStep == StartNext /\ UNCHANGED <<chunkOnly, due>>

ChunkStep == Chunk!Next /\ UNCHANGED <<startOnly, due>>

\* The segment is recomputed, or its contacts change, at any time.
ChangeSegment ==
    /\ segment' \in Segments \ {segment}
    /\ UNCHANGED <<startMsg, window, chunkMsg, payload, campaign, recipient,
                   startWorkerVars, chunkOnly, due>>

\* Thirty minutes: less than the retries of the start message take.
CloseWindow ==
    /\ WindowCloses
    /\ window
    /\ window' = FALSE
    /\ UNCHANGED <<startMsg, segment, chunkMsg, payload, campaign, recipient,
                   startWorkerVars, chunkOnly, due>>

Next == ScheduleStep \/ StartStep \/ ChunkStep \/ ChangeSegment \/ CloseWindow

Spec == Init /\ [][Next]_vars

-----------------------------------------------------------------------------
(***************************************************************************)
(* Properties                                                              *)
(***************************************************************************)

\* A campaign is completed once, and a start job that is delivered again, or
\* is still streaming when the last chunk completes it, changes neither its
\* status nor its total afterwards (client.go:274-290, 321-349).
CompletedIsFinal ==
    [][campaign.status = "completed" =>
          campaign'.status = "completed" /\ campaign'.total = campaign.total]_vars

\* Whoever completes it, the counters of a completed campaign cover its total,
\* although the total may be written at any moment between the counts
\* (client.go:321-336).
CompletedMeansCounted ==
    campaign.status = "completed" => campaign.sent + campaign.failed >= campaign.total

\* While the segment stays the same, a recorded total is the number of its
\* contacts, each of whom has a row and is in exactly one chunk: a start that
\* failed half-way, or runs twice at once, neither skips nor repeats one
\* (batcher.go:92-98, 235-239).
StartedMeansPublished ==
    campaign.total > 0 =>
       /\ campaign.total = Cardinality(segment)
       /\ \A c \in segment :
             /\ recipient[c] # "none"
             /\ \E k \in ChunkIds : c \in payload[k] /\ \A l \in ChunkIds \ {k} : c \notin payload[l]

\* No contact gets the campaign's email twice, through the whole pipeline, while
\* the segment stays the same and the chunk ids are remembered, except for what
\* CampaignChunk names (campaign-email.md:58-61).
AcceptedOnce == Chunk!AcceptedOnce

\* Replicas that poll at the same time do not start a campaign twice
\* (client.go:1140-1142).
FiredOnce == Cardinality({j \in DOMAIN startMsg : startMsg[j].st # "absent"}) <= 1

=============================================================================
