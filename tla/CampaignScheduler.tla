--------------------------- MODULE CampaignScheduler ---------------------------
(***************************************************************************)
(* internal/worker/email/campaign_scheduler.go, run by every replica: polls*)
(* for campaigns that are due and publishes a start message for each.      *)
(* Seen from one campaign: a poll either claims it or does not see it.     *)
(***************************************************************************)
EXTENDS JetStream, CampaignRows

CONSTANTS
    Schedulers,        \* the replicas
    Jobs,              \* job ids: the message ids, fresh for each start message
    SchedulerMayFail   \* whether calls fail and processes die

VARIABLES
    campaign,   \* the row of the campaign
    startMsg,   \* Jobs -> Msgs: the start messages in stream CAMPAIGN
    due         \* schedulers whose last poll returned the campaign

\* Mutants: the statement leaves the campaign 'scheduled', or misspells the
\* status.
ClaimedNotMarked(c) == c
ClaimedMisspelt(c) == [c EXCEPT !.status = "started"]

\* GetDueCampaigns: one UPDATE ... RETURNING that skips locked rows.
Claimed(c) == [c EXCEPT !.status = "sending"]

Poll(p) ==
    /\ p \notin due
    /\ campaign.status = "scheduled"
    /\ campaign' = Claimed(campaign)
    \* When the answer to the statement is lost the poll returns nothing.
    /\ due' = due \cup {p} \/ (SchedulerMayFail /\ UNCHANGED due)
    /\ UNCHANGED startMsg

\* fire: a failed publish is logged, and nothing tries again.
Fire(p) ==
    /\ p \in due
    /\ due' = due \ {p}
    /\ \/ \E j \in Jobs : /\ startMsg[j].st = "absent"
                          /\ startMsg' = [startMsg EXCEPT ![j] = Published(@)]
       \/ SchedulerMayFail /\ UNCHANGED startMsg
    /\ UNCHANGED campaign

CrashScheduler(p) ==
    /\ SchedulerMayFail
    /\ p \in due
    /\ due' = due \ {p}
    /\ UNCHANGED <<campaign, startMsg>>

SchedulerNext == \E p \in Schedulers : Poll(p) \/ Fire(p) \/ CrashScheduler(p)

=============================================================================
