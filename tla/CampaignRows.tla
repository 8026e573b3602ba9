----------------------------- MODULE CampaignRows -----------------------------
(***************************************************************************)
(* The statements of internal/infra/postgres/client.go on the tables       *)
(* campaigns and campaign_recipients: each maps the row it matches to the  *)
(* row it leaves behind.  Every one of them is a single statement of the   *)
(* code, so no other statement comes between its guard and its effect.     *)
(***************************************************************************)
EXTENDS Naturals

\* "none": no such row.  'scheduled', 'queued' and 'paused' are written by the
\* API; 'failed' (client.go:346) by none of the workers modelled here.
CampaignStates  == {"none", "scheduled", "queued", "paused", "sending", "completed"}
RecipientStates == {"none", "queued", "sending", "sent", "failed", "bounced"}

Campaigns == [status : CampaignStates, total : Nat, sent : Nat, failed : Nat,
              completedAt : BOOLEAN]

NewCampaign(status) ==
    [status |-> status, total |-> 0, sent |-> 0, failed |-> 0, completedAt |-> FALSE]

(***************************************************************************)
(* campaigns                                                               *)
(***************************************************************************)
\* Mutant: the UPDATE without its guard on the status.
StartedUnguarded(c, total) == [c EXCEPT !.status = "sending", !.total = total]

\* UpdateCampaignStarted
Started(c, total) ==
    IF c.status \in {"queued", "sending"}
    THEN [c EXCEPT !.status = "sending", !.total = total]
    ELSE c

\* IncrementCampaignCounts, which returns the row it leaves.
Counted(c, sent, failed) == [c EXCEPT !.sent = @ + sent, !.failed = @ + failed]

AllCounted(c) == c.total > 0 /\ c.sent + c.failed >= c.total

\* Mutant: completed without a look at the counters.
CompletedAnyway(c) ==
    IF ~c.completedAt THEN [c EXCEPT !.status = "completed", !.completedAt = TRUE] ELSE c

\* MarkCampaignComplete: the status is not looked at.
CompletedIfCounted(c) ==
    IF ~c.completedAt /\ AllCounted(c)
    THEN [c EXCEPT !.status = "completed", !.completedAt = TRUE]
    ELSE c

\* MarkCampaignCompleteEmpty
CompletedEmpty(c) ==
    IF c.status # "completed"
    THEN [c EXCEPT !.status = "completed", !.completedAt = TRUE, !.total = 0]
    ELSE c

(***************************************************************************)
(* campaign_recipients                                                     *)
(***************************************************************************)
\* Mutant: the last of these statements without its guard.
MarkedFailedUnguarded(r) == IF r = "none" THEN r ELSE "failed"

\* MarkCampaignRecipientSending, MarkCampaignRecipientSent,
\* MarkCampaignRecipientFailed
MarkedSending(r) == IF r \in {"queued", "failed", "sending"} THEN "sending" ELSE r
MarkedSent(r)    == IF r \in {"none", "bounced"} THEN r ELSE "sent"
MarkedFailed(r)  == IF r \in {"none", "sent", "bounced"} THEN r ELSE "failed"

\* processRecipient skips these.
Terminal(r) == r \in {"sent", "bounced"}

=============================================================================
