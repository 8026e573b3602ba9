-------------------------- MODULE MCCampaignPipeline --------------------------
(***************************************************************************)
(* Small instances of CampaignPipeline for TLC, and statements of the docs *)
(* and comments about it that the code does not keep.                      *)
(***************************************************************************)
EXTENDS CampaignPipeline, TLC

CONSTANTS j1, j2, a1, p1, p2

\* Segments that stay the same, one that gains a contact with a low id.
OneContact   == {{1}}
TwoContacts  == {{1, 2}}
GainsOne     == {{2, 3}, {1, 2, 3}}

(***************************************************************************)
(* Next to the campaign of the constants, whose segment keeps still, one   *)
(* whose segment is emptied and filled, with a second and malformed start  *)
(* message, two schedulers that may fail, and a deduplication window that  *)
(* passes.                                                                 *)
(***************************************************************************)
Moving == INSTANCE CampaignPipeline
             WITH Contacts <- {1}, MaxChunks <- 1, Segments <- {{}, {1}},
                  Jobs <- {j1, j2}, BadJobs <- {j2}, StartWorkers <- {a1},
                  Schedulers <- {p1, p2}, SchedulerMayFail <- TRUE, WindowCloses <- TRUE

moving == DOMAIN startMsg = {j1, j2}

StillOrMovingInit == Init \/ Moving!Init
StillOrMovingNext == IF moving THEN Moving!Next ELSE Next
StillOrMoving == StillOrMovingInit /\ [][StillOrMovingNext]_vars

\* TypeOK of the campaign at hand: the shapes of its rows, messages and workers.
WellTyped == IF moving THEN Moving!TypeOK ELSE TypeOK

\* StartedMeansPublished (batcher.go:92-98, 235-239) of the campaign whose
\* segment keeps still, while the stream's deduplication window stays open.
StillMeansPublished == ~moving => StartedMeansPublished

\* docs/workers/campaign-email.md:114: "When `sent + failed >= total`,
\* `MarkCampaignComplete` runs".  Nothing looks again once the last chunk has
\* counted, and the total is written after the chunks are published.
AllDoneMeansCompleted ==
    /\ \E j \in Jobs : startMsg[j].st = "acked"
    /\ \A w \in ChunkWorkers : pc[w] = "idle"
    /\ campaign.total > 0
    /\ campaign.sent + campaign.failed >= campaign.total
    => campaign.status = "completed"

\* campaign_scheduler.go:29-30: a due campaign is started.  One claimed by a
\* scheduler whose publish fails stays 'sending' without a start message.
ClaimedMeansFired ==
    campaign.status = "sending" /\ due = {} => \E j \in Jobs : startMsg[j].st # "absent"

\* batcher.go:95-98: "re-running this method with overlapping data is safe within
\* the stream's dedup window".  A page that gained a contact since is dropped
\* under the id of the old one, and the contact it pushed out is repeated.
EveryRowIsInAChunk ==
    campaign.total > 0 =>
       \A c \in Contacts : recipient[c] # "none" => \E k \in ChunkIds : c \in payload[k]

\* docs/workers/campaign-email.md:65: paging by id is "safe for concurrent
\* inserts (new contacts with higher IDs are included; lower IDs are not
\* missed)".  Ids are random: one below the last page's is missed.
NoContactMissed ==
    [][\A w \in StartWorkers :
          spc[w] = "fetch" /\ spc'[w] = "finish" =>
             \A c \in segment : \E k \in ChunkIds : c \in payload[k]]_vars

=============================================================================
