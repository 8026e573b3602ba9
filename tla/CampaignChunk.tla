----------------------------- MODULE CampaignChunk -----------------------------
(***************************************************************************)
(* The consumer of campaign.send.chunk: CampaignChunkHandler.Handle of     *)
(* internal/worker/email/handler.go, run by every replica, against the     *)
(* rows of one campaign.                                                   *)
(*                                                                         *)
(* A chunk is a message with a set of recipients.  Its handler sends to    *)
(* them one by one, adds what it did to the counters of the campaign row,  *)
(* completes the campaign when the counters reach the total, and acks,     *)
(* naks (some recipient failed transiently) or gives up (at the last       *)
(* attempt).  Each step is one call that leaves the process, except that a *)
(* recipient's row and its delivery event, which nobody here reads, are    *)
(* written in one step.  Any call may fail, before or after it took effect.*)
(***************************************************************************)
EXTENDS JetStream, CampaignRows, FiniteSetsExt

CONSTANTS
    Recipients,   \* campaign_recipients.id
    Chunks,       \* chunk ids: the message ids of the chunks
    Malformed,    \* the chunks that do not parse or validate
    Scenarios,    \* [payload, faulty]: how the batcher may have cut the chunks, and
                  \* whether calls fail, processes die and answers come late
    Workers,      \* the message callbacks of all replicas
    None,         \* no chunk, no recipient
    MaxAttempts   \* const MaxAttempts: also the consumer's MaxDeliver

ASSUME NoneAssumption == None \notin Chunks \cup Recipients
ASSUME MaxAttemptsAssumption == MaxAttempts \in Nat \ {0}
ASSUME ScenariosAssumption ==
    Scenarios \subseteq [payload : [Chunks -> SUBSET Recipients], faulty : BOOLEAN]
ASSUME RecipientsAssumption == IsFiniteSet(Recipients)

VARIABLES
    chunkMsg,   \* Chunks -> Msgs: the messages in stream CAMPAIGN
    payload,    \* Chunks -> SUBSET Recipients: what each message carries
    faulty,     \* calls may fail, processes die, answers come late
    campaign,   \* the row of the campaign
    recipient,  \* Recipients -> RecipientStates: their rows
    pc,         \* the next step of each worker
    job,        \* the chunk it handles
    attempt,    \* NumDelivered of the delivery it handles
    todo,       \* recipients the loop has not reached
    cur,        \* the recipient it is sending to
    res,        \* chunkResult: fresh [sent, failed] outcomes of this delivery
    retry,      \* transientRecipients
    verdict,    \* how it will answer the message
    events,     \* delivery events <<recipient, status>> published so far
    dlq,        \* chunks with a message on campaign.send.dlq
    accepted,   \* how many times SES accepted the email for the recipient
    refused,    \* recipients SES refused permanently
    ambiguous   \* recipients whose acceptance a later delivery may not know of

given      == <<payload, faulty>>
rowVars    == <<campaign, recipient>>
workerVars == <<pc, job, attempt, todo, cur, res, retry, verdict>>
sesVars    == <<accepted, refused, ambiguous>>
pubVars    == <<events, dlq>>
vars       == <<chunkMsg, given, rowVars, workerVars, sesVars, pubVars>>

PCs == {"idle", "validate", "loop", "acquire", "markSending", "send",
        "recordSent", "recordFailed", "count", "complete",
        "giveUp", "countGivenUp", "completeGivenUp", "publishDLQ", "answer"}

\* With a recipient at hand that the worker may still send to, or has sent to
\* without recording it.
Unrecorded == {"acquire", "markSending", "send", "recordSent"}

Results == [sent : Nat, failed : Nat]
NoResult == [sent |-> 0, failed |-> 0]

TypeOK ==
    /\ chunkMsg \in [Chunks -> Msgs]
    /\ payload \in [Chunks -> SUBSET Recipients]
    /\ faulty \in BOOLEAN
    /\ campaign \in Campaigns
    /\ recipient \in [Recipients -> RecipientStates]
    /\ pc \in [Workers -> PCs]
    /\ job \in [Workers -> Chunks \cup {None}]
    /\ \A w \in Workers : pc[w] # "idle" => job[w] \in Chunks
    /\ attempt \in [Workers -> Nat]
    /\ todo \in [Workers -> SUBSET Recipients]
    /\ cur \in [Workers -> Recipients \cup {None}]
    /\ \A w \in Workers : pc[w] \in Unrecorded \cup {"recordFailed"} => cur[w] \in Recipients
    /\ res \in [Workers -> Results]
    /\ retry \in [Workers -> SUBSET Recipients]
    /\ verdict \in [Workers -> Verdicts]
    /\ events \subseteq Recipients \X {"sent", "failed"}
    /\ dlq \subseteq Chunks
    /\ accepted \in [Recipients -> Nat]
    /\ refused \subseteq Recipients
    /\ ambiguous \subseteq Recipients

(***************************************************************************)
(* Control of a worker.                                                    *)
(***************************************************************************)
Goto(w, next) == /\ pc' = [pc EXCEPT ![w] = next]
                 /\ UNCHANGED <<job, attempt, todo, cur, res, retry, verdict>>

Answer(w, v) == /\ pc' = [pc EXCEPT ![w] = "answer"]
                /\ verdict' = [verdict EXCEPT ![w] = v]
                /\ UNCHANGED <<job, attempt, todo, cur, res, retry>>

\* Mutant: a recipient that was sent before counts as sent now.
DuplicateCounted(w) == /\ pc' = [pc EXCEPT ![w] = "loop"]
                       /\ cur' = [cur EXCEPT ![w] = None]
                       /\ res' = [res EXCEPT ![w].sent = @ + 1]
                       /\ UNCHANGED <<job, attempt, retry, verdict>>

\* The outcomes of processRecipient for the recipient at hand: back to the loop.
Duplicate(w) == /\ pc' = [pc EXCEPT ![w] = "loop"]
                /\ cur' = [cur EXCEPT ![w] = None]
                /\ UNCHANGED <<job, attempt, res, retry, verdict>>

TransientOutcome(w, r) == /\ pc' = [pc EXCEPT ![w] = "loop"]
                          /\ cur' = [cur EXCEPT ![w] = None]
                          /\ retry' = [retry EXCEPT ![w] = @ \cup {r}]
                          /\ UNCHANGED <<job, attempt, res, verdict>>

FreshOutcome(w, new) == /\ pc' = [pc EXCEPT ![w] = "loop"]
                        /\ cur' = [cur EXCEPT ![w] = None]
                        /\ res' = [res EXCEPT ![w] = new]
                        /\ UNCHANGED <<job, attempt, todo, retry, verdict>>

Release(w) == /\ pc' = [pc EXCEPT ![w] = "idle"]
              /\ job' = [job EXCEPT ![w] = None]
              /\ attempt' = [attempt EXCEPT ![w] = 0]
              /\ todo' = [todo EXCEPT ![w] = {}]
              /\ cur' = [cur EXCEPT ![w] = None]
              /\ res' = [res EXCEPT ![w] = NoResult]
              /\ retry' = [retry EXCEPT ![w] = {}]
              /\ verdict' = [verdict EXCEPT ![w] = "nak"]

\* Some worker of ws may still send to r, or has sent without recording it.
HeldUnrecorded(ws, r) ==
    \E w \in ws : r \in todo[w] \/ (pc[w] \in Unrecorded /\ cur[w] = r)

\* A statement that fails may still have been committed.
MarkRecipient(r, status) == recipient' = [recipient EXCEPT ![r] = status]
MayMarkRecipient(r, status) ==
    MarkRecipient(r, status) \/ (faulty /\ UNCHANGED recipient)
MayUpdateCampaign(c) == campaign' = c \/ (faulty /\ UNCHANGED campaign)

\* A publish that fails is logged; it may have reached the stream.
MayPublishEvent(r, status) ==
    events' = events \cup {<<r, status>>} \/ (faulty /\ UNCHANGED events)

Idle == /\ pc = [w \in Workers |-> "idle"]
        /\ job = [w \in Workers |-> None]
        /\ attempt = [w \in Workers |-> 0]
        /\ todo = [w \in Workers |-> {}]
        /\ cur = [w \in Workers |-> None]
        /\ res = [w \in Workers |-> NoResult]
        /\ retry = [w \in Workers |-> {}]
        /\ verdict = [w \in Workers |-> "nak"]

NothingSent == /\ events = {}
               /\ dlq = {}
               /\ accepted = [r \in Recipients |-> 0]
               /\ refused = {}
               /\ ambiguous = {}

\* The campaign was started: its chunks, none of them empty, are published, and
\* the total of their recipients is recorded.
Init ==
    /\ \E s \in Scenarios : payload = s.payload /\ faulty = s.faulty
    /\ chunkMsg = [k \in Chunks |-> IF payload[k] = {} THEN NoMsg ELSE NewMsg]
    /\ LET all == UNION {payload[k] : k \in Chunks}
       IN  /\ campaign = Started(NewCampaign("queued"), Cardinality(all))
           /\ recipient = [r \in Recipients |-> IF r \in all THEN "queued" ELSE "none"]
    /\ Idle
    /\ NothingSent

(***************************************************************************)
(* The handler, one action per call.                                       *)
(***************************************************************************)
Receive(w, k) ==
    /\ pc[w] = "idle"
    /\ Deliverable(chunkMsg[k])
    /\ chunkMsg' = [chunkMsg EXCEPT ![k] = Delivered(@)]
    /\ pc' = [pc EXCEPT ![w] = "validate"]
    /\ job' = [job EXCEPT ![w] = k]
    /\ attempt' = [attempt EXCEPT ![w] = chunkMsg[k].n + 1]
    /\ todo' = [todo EXCEPT ![w] = payload[k]]
    /\ UNCHANGED <<given, rowVars, cur, res, retry, verdict, sesVars, pubVars>>

Validate(w) ==
    /\ pc[w] = "validate"
    /\ IF job[w] \in Malformed
       THEN /\ pc' = [pc EXCEPT ![w] = "answer"]
            /\ verdict' = [verdict EXCEPT ![w] = "term"]
            /\ todo' = [todo EXCEPT ![w] = {}]
            /\ UNCHANGED <<job, attempt, cur, res, retry>>
       ELSE Goto(w, "loop")
    /\ UNCHANGED <<chunkMsg, given, rowVars, sesVars, pubVars>>

\* GetCampaignRecipientStatus for the next recipient.  An error, and then the
\* end of the handler's context, make it transient; 'failed' is sent again.
CheckRecipient(w, r) ==
    /\ pc[w] = "loop"
    /\ r \in todo[w]
    /\ todo' = [todo EXCEPT ![w] = @ \ {r}]
    /\ \/ faulty /\ TransientOutcome(w, r)
       \/ Terminal(recipient[r]) /\ Duplicate(w)
       \/ /\ ~Terminal(recipient[r])
          /\ pc' = [pc EXCEPT ![w] = "acquire"]
          /\ cur' = [cur EXCEPT ![w] = r]
          /\ UNCHANGED <<job, attempt, res, retry, verdict>>
    /\ UNCHANGED <<chunkMsg, given, rowVars, sesVars, pubVars>>

\* Mutant: a denied recipient is tried again in place.
AcquireInPlace(w) ==
    /\ pc[w] = "acquire"
    /\ \/ Goto(w, "markSending")
       \/ /\ faulty
          /\ pc' = [pc EXCEPT ![w] = "loop"]
          /\ todo' = [todo EXCEPT ![w] = @ \cup {cur[w]}]
          /\ cur' = [cur EXCEPT ![w] = None]
          /\ UNCHANGED <<job, attempt, res, retry, verdict>>
    /\ UNCHANGED <<chunkMsg, given, rowVars, sesVars, pubVars>>

\* limiter.Acquire: denied, or Redis failed: transient.
Acquire(w) ==
    /\ pc[w] = "acquire"
    /\ \/ Goto(w, "markSending")
       \/ faulty /\ TransientOutcome(w, cur[w]) /\ UNCHANGED todo
    /\ UNCHANGED <<chunkMsg, given, rowVars, sesVars, pubVars>>

\* MarkCampaignRecipientSending: that no row matched is not an error.
MarkSending(w) ==
    /\ pc[w] = "markSending"
    /\ LET new == MarkedSending(recipient[cur[w]])
       IN  \/ MarkRecipient(cur[w], new) /\ Goto(w, "send")
           \/ /\ faulty
              /\ MayMarkRecipient(cur[w], new)
              /\ TransientOutcome(w, cur[w]) /\ UNCHANGED todo
    /\ UNCHANGED <<chunkMsg, given, campaign, sesVars, pubVars>>

AcceptedBySES(r) == accepted' = [accepted EXCEPT ![r] = @ + 1]

SendAccepted(w) ==
    /\ pc[w] = "send"
    /\ AcceptedBySES(cur[w])
    /\ Goto(w, "recordSent")
    /\ UNCHANGED <<chunkMsg, given, rowVars, refused, ambiguous, pubVars>>

\* A transient error changes no row; a timeout may come after SES took it.
SendTransient(w) ==
    /\ pc[w] = "send"
    /\ TransientOutcome(w, cur[w])
    /\ \/ UNCHANGED <<accepted, ambiguous>>
       \/ faulty /\ AcceptedBySES(cur[w]) /\ ambiguous' = ambiguous \cup {cur[w]}
    /\ UNCHANGED <<chunkMsg, given, rowVars, todo, refused, pubVars>>

SendRefused(w) ==
    /\ pc[w] = "send"
    /\ refused' = refused \cup {cur[w]}
    /\ Goto(w, "recordFailed")
    /\ UNCHANGED <<chunkMsg, given, rowVars, accepted, ambiguous, pubVars>>

OneMoreSent(x)   == [x EXCEPT !.sent = @ + 1]
OneMoreFailed(x) == [x EXCEPT !.failed = @ + 1]

\* MarkCampaignRecipientSent: an error is logged, and it counts as sent.
RecordSent(w) ==
    /\ pc[w] = "recordSent"
    /\ \/ MarkRecipient(cur[w], MarkedSent(recipient[cur[w]])) /\ UNCHANGED ambiguous
       \/ faulty /\ UNCHANGED recipient /\ ambiguous' = ambiguous \cup {cur[w]}
    /\ MayPublishEvent(cur[w], "sent")
    /\ FreshOutcome(w, OneMoreSent(res[w]))
    /\ UNCHANGED <<chunkMsg, given, campaign, accepted, refused, dlq>>

\* MarkCampaignRecipientFailed: an error is logged, and it counts as failed.
RecordFailed(w) ==
    /\ pc[w] = "recordFailed"
    /\ MayMarkRecipient(cur[w], MarkedFailed(recipient[cur[w]]))
    /\ MayPublishEvent(cur[w], "failed")
    /\ FreshOutcome(w, OneMoreFailed(res[w]))
    /\ UNCHANGED <<chunkMsg, given, campaign, sesVars, dlq>>

\* Mutant: the last attempt off by one.
DisposeEarly(w) ==
    IF retry[w] = {} THEN Answer(w, "ack")
    ELSE IF attempt[w] + 1 < MaxAttempts THEN Answer(w, "nak")
    ELSE /\ pc' = [pc EXCEPT ![w] = "giveUp"]
         /\ res' = [res EXCEPT ![w] = NoResult]
         /\ UNCHANGED <<job, attempt, todo, cur, retry, verdict>>

\* The chunk's disposition once its recipients have been gone through.
Dispose(w) ==
    IF retry[w] = {} THEN Answer(w, "ack")
    ELSE IF attempt[w] < MaxAttempts THEN Answer(w, "nak")
    ELSE /\ pc' = [pc EXCEPT ![w] = "giveUp"]
         /\ res' = [res EXCEPT ![w] = NoResult]   \* finalFailed := 0
         /\ UNCHANGED <<job, attempt, todo, cur, retry, verdict>>

EndLoop(w) ==
    /\ pc[w] = "loop"
    /\ todo[w] = {}
    /\ IF res[w].sent > 0 \/ res[w].failed > 0 THEN Goto(w, "count") ELSE Dispose(w)
    /\ UNCHANGED <<chunkMsg, given, rowVars, sesVars, pubVars>>

\* Mutant: the counters are read before the increment, not returned by it.
CountStale(w) ==
    /\ pc[w] = "count"
    /\ campaign' = Counted(campaign, res[w].sent, res[w].failed)
    /\ IF AllCounted(campaign) THEN Goto(w, "complete") ELSE Dispose(w)
    /\ UNCHANGED <<chunkMsg, given, recipient, sesVars, pubVars>>

\* IncrementCampaignCounts: an error naks the chunk, whatever the attempt.
Count(w) ==
    /\ pc[w] = "count"
    /\ LET new == Counted(campaign, res[w].sent, res[w].failed)
       IN  \/ /\ campaign' = new
              /\ IF AllCounted(new) THEN Goto(w, "complete") ELSE Dispose(w)
           \/ faulty /\ MayUpdateCampaign(new) /\ Answer(w, "nak")
    /\ UNCHANGED <<chunkMsg, given, recipient, sesVars, pubVars>>

\* MarkCampaignComplete: an error is logged.
Complete(w) ==
    /\ pc[w] = "complete"
    /\ MayUpdateCampaign(CompletedIfCounted(campaign))
    /\ Dispose(w)
    /\ UNCHANGED <<chunkMsg, given, recipient, sesVars, pubVars>>

(***************************************************************************)
(* The last attempt: what is left is marked failed, and counted.           *)
(***************************************************************************)
GiveUp(w, r) ==
    /\ pc[w] = "giveUp"
    /\ r \in retry[w]
    /\ retry' = [retry EXCEPT ![w] = @ \ {r}]
    /\ \/ /\ MarkRecipient(r, MarkedFailed(recipient[r]))
          /\ MayPublishEvent(r, "failed")
          /\ res' = [res EXCEPT ![w] = OneMoreFailed(@)]
       \* An error skips the recipient's event and its count.
       \/ /\ faulty
          /\ MayMarkRecipient(r, MarkedFailed(recipient[r]))
          /\ UNCHANGED <<events, res>>
    /\ UNCHANGED <<chunkMsg, given, campaign, pc, job, attempt, todo, cur, verdict, sesVars, dlq>>

EndGiveUp(w) ==
    /\ pc[w] = "giveUp"
    /\ retry[w] = {}
    /\ Goto(w, IF res[w].failed > 0 THEN "countGivenUp" ELSE "publishDLQ")
    /\ UNCHANGED <<chunkMsg, given, rowVars, sesVars, pubVars>>

CountGivenUp(w) ==
    /\ pc[w] = "countGivenUp"
    /\ MayUpdateCampaign(Counted(campaign, 0, res[w].failed))
    /\ Goto(w, "completeGivenUp")
    /\ UNCHANGED <<chunkMsg, given, recipient, sesVars, pubVars>>

CompleteGivenUp(w) ==
    /\ pc[w] = "completeGivenUp"
    /\ MayUpdateCampaign(CompletedIfCounted(campaign))
    /\ Goto(w, "publishDLQ")
    /\ UNCHANGED <<chunkMsg, given, recipient, sesVars, pubVars>>

PublishDLQ(w) ==
    /\ pc[w] = "publishDLQ"
    /\ dlq' = dlq \cup {job[w]} \/ (faulty /\ UNCHANGED dlq)
    /\ Answer(w, "term")
    /\ UNCHANGED <<chunkMsg, given, rowVars, sesVars, events>>

(***************************************************************************)
(* What happens around the handler.                                        *)
(***************************************************************************)
\* Putting chunk k back is ambiguous for those another worker holds unrecorded.
RequeueNoted(k, others) ==
    ambiguous' = IF chunkMsg[k].st # "pending" THEN ambiguous
                 ELSE ambiguous \cup {r \in payload[k] : HeldUnrecorded(others, r)}

\* msg.Ack, msg.Nak or msg.Term ends the handler.
AnswerMessage(w) ==
    /\ pc[w] = "answer"
    /\ chunkMsg' = [chunkMsg EXCEPT ![job[w]] = Answered(@, verdict[w], MaxAttempts)]
    /\ IF verdict[w] = "nak" THEN RequeueNoted(job[w], Workers \ {w})
                             ELSE UNCHANGED ambiguous
    /\ Release(w)
    /\ UNCHANGED <<given, rowVars, accepted, refused, pubVars>>

\* SES accepted the email and the worker goes away without recording it.
LeaveNoted(w) ==
    ambiguous' = IF pc[w] = "recordSent" THEN ambiguous \cup {cur[w]} ELSE ambiguous

\* The process dies, or its answer is lost: the server keeps waiting.  (A panic
\* is recovered and naks: the same, followed at once by Expire.)
Crash(w) ==
    /\ faulty
    /\ pc[w] # "idle"
    /\ LeaveNoted(w)
    /\ Release(w)
    /\ UNCHANGED <<chunkMsg, given, rowVars, accepted, refused, pubVars>>

\* The server waited long enough, whether or not a worker is still busy.
Expire(k) ==
    /\ faulty
    /\ chunkMsg[k].st = "pending"
    /\ chunkMsg' = [chunkMsg EXCEPT ![k] = Requeued(@, MaxAttempts)]
    /\ RequeueNoted(k, Workers)
    /\ UNCHANGED <<given, rowVars, workerVars, accepted, refused, pubVars>>

\* The bounce of an accepted email, written by the API's webhook.
Bounce(r) ==
    /\ accepted[r] > 0
    /\ recipient[r] \in {"sending", "sent", "failed"}
    /\ MarkRecipient(r, "bounced")
    /\ UNCHANGED <<chunkMsg, given, campaign, workerVars, sesVars, pubVars>>

Work(w) ==
    \/ Validate(w)
    \/ \E r \in Recipients : CheckRecipient(w, r)
    \/ Acquire(w)
    \/ MarkSending(w)
    \/ SendAccepted(w)
    \/ SendTransient(w)
    \/ SendRefused(w)
    \/ RecordSent(w)
    \/ RecordFailed(w)
    \/ EndLoop(w)
    \/ Count(w)
    \/ Complete(w)
    \/ \E r \in Recipients : GiveUp(w, r)
    \/ EndGiveUp(w)
    \/ CountGivenUp(w)
    \/ CompleteGivenUp(w)
    \/ PublishDLQ(w)
    \/ AnswerMessage(w)

Next ==
    \/ \E w \in Workers, k \in Chunks : Receive(w, k)
    \/ \E w \in Workers : Work(w) \/ Crash(w)
    \/ \E k \in Chunks : Expire(k)
    \/ \E r \in Recipients : Bounce(r)

Spec == Init /\ [][Next]_vars

\* Every call returns (the handler's context ends), an idle callback is given
\* the messages that wait, and AckWait runs out.
Fairness ==
    /\ \A w \in Workers : WF_vars(Work(w))
    /\ \A k \in Chunks : WF_vars(\E w \in Workers : Receive(w, k))
    /\ \A k \in Chunks : WF_vars(Expire(k))

FairSpec == Spec /\ Fairness

-----------------------------------------------------------------------------
(***************************************************************************)
(* Properties                                                              *)
(***************************************************************************)

\* However a chunk is retried, nobody gets the email twice, except where the
\* check could not know: the acceptance was lost, or still undecided when the
\* chunk was given out again (handler.go:622-631).
AcceptedOnce == \A r \in Recipients : r \notin ambiguous => accepted[r] <= 1

\* The worker implements the mailer for the recipients of its chunks: seen from
\* their rows and from SES, every step is one of Mailer or none, however
\* deliveries overlap (handler.go:604-713, client.go:428-462).
Mail == INSTANCE Mailer
           WITH Emails <- Recipients,
                status <- [r \in Recipients |->
                             IF Terminal(recipient[r]) THEN recipient[r] ELSE "open"],
                doubtful <- ambiguous

ImplementsMailer == Mail!Spec

\* The answer to a chunk follows from what became of its recipients: it is acked
\* only when each of them was accepted or refused for good, and a valid chunk is
\* given up (Term, the dead-letter message, a 'failed' event that SES's refusal
\* does not explain) only at its last delivery (handler.go:557-597).
SettledIsJustified ==
    /\ \A k \in Chunks : chunkMsg[k].st = "acked" =>
          \A r \in payload[k] : accepted[r] > 0 \/ r \in refused
    /\ \A k \in Chunks \ Malformed :
          chunkMsg[k].st = "termed" \/ k \in dlq => chunkMsg[k].n >= MaxAttempts
    /\ \A r \in Recipients \ refused : <<r, "failed">> \in events =>
          \E k \in Chunks : r \in payload[k] /\ chunkMsg[k].n >= MaxAttempts

\* What the workers have yet to add to the campaign's sent_count.
Uncounted == {"loop", "acquire", "markSending", "send", "recordSent", "recordFailed", "count"}
SentUncounted ==
    MapThenSumSet(LAMBDA w : IF pc[w] \in Uncounted THEN res[w].sent ELSE 0, Workers)

\* sent_count never claims more than SES accepted: a recipient skipped as a
\* duplicate is not counted again, whatever was lost between the increment and
\* the answer (handler.go:514-518, 529-542).
SentCountIsEarned ==
    campaign.sent + SentUncounted <= MapThenSumSet(LAMBDA r : accepted[r], Recipients)

\* When no call fails, the chunk whose increment reaches the total completes the
\* campaign, however the chunks of several workers interleave and whatever SES
\* answers (campaign-email.md:112-114).
CalmCompletes == ~faulty ~> campaign.status = "completed"

\* The work ends: every chunk is settled or used up, and every worker comes back.
ComesToRest ==
    <>[](/\ \A k \in Chunks : payload[k] = {} \/ Closed(chunkMsg[k])
         /\ \A w \in Workers : pc[w] = "idle")

=============================================================================
