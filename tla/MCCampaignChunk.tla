---------------------------- MODULE MCCampaignChunk ----------------------------
(***************************************************************************)
(* Small instances of CampaignChunk for TLC.                               *)
(***************************************************************************)
EXTENDS CampaignChunk, TLC

CONSTANTS k1, k2, r1, r2

\* One recipient; both in one chunk; a chunk for each.
One      == [k \in Chunks |-> IF k = k1 THEN {r1} ELSE {}]
Together == [k \in Chunks |-> IF k = k1 THEN {r1, r2} ELSE {}]
Apart    == [k \in Chunks |-> IF k = k1 THEN {r1} ELSE {r2}]

OneFailing_ApartCalm == {[payload |-> One, faulty |-> TRUE], [payload |-> Apart, faulty |-> FALSE]}
TogetherFailing      == {[payload |-> Together, faulty |-> TRUE]}
OneFailing_TogetherCalm ==
    {[payload |-> One, faulty |-> TRUE], [payload |-> Together, faulty |-> FALSE]}

\* client.go:318-320: MarkCampaignComplete completes "if and only if all
\* recipients have been processed".  A recipient SES refuses is sent to again,
\* and counted again, each time its chunk is retried for another's sake.
CompletedMeansProcessed ==
    ~faulty /\ campaign.status = "completed" =>
       \A r \in Recipients : recipient[r] \notin {"queued", "sending"}

\* handler.go:539: "Don't lose the message - nak so we retry".  The retry finds
\* the rows 'sent', skips them, and acks without counting them: the campaign's
\* counters never reach its total.
AckedMeansCounted ==
    (\A k \in Chunks : chunkMsg[k].st \in {"absent", "acked"}) =>
       campaign.sent + campaign.failed >= campaign.total

=============================================================================
