-------------------------- MODULE CampaignChunkProofs --------------------------
(***************************************************************************)
(* Proofs about CampaignChunk, for any recipients, chunks and workers and  *)
(* any number of attempts, with and without failing calls.                 *)
(***************************************************************************)
EXTENDS CampaignChunk, FiniteSetTheorems, TLAPS

-----------------------------------------------------------------------------
(***************************************************************************)
(* Messages of the stream                                                  *)
(***************************************************************************)
\* A delivery counts up and leaves the message waiting for its answer.
LEMMA DeliveredFacts ==
    ASSUME NEW m \in Msgs
    PROVE  /\ Delivered(m) \in Msgs
           /\ Delivered(m).st = "pending"
           /\ Delivered(m).n = m.n + 1
  BY DEF Delivered, Msgs, MsgStates

\* A message put back keeps its count, is settled only if it was, and becomes
\* 'queued' only from 'pending'.
LEMMA RequeuedFacts ==
    ASSUME NEW m \in Msgs, NEW maxDeliver
    PROVE  /\ Requeued(m, maxDeliver) \in Msgs
           /\ Requeued(m, maxDeliver).n = m.n
           /\ Requeued(m, maxDeliver).st = "acked" <=> m.st = "acked"
           /\ Requeued(m, maxDeliver).st = "termed" <=> m.st = "termed"
           /\ m.st # "pending" => Requeued(m, maxDeliver) = m
  BY DEF Requeued, Msgs, MsgStates

\* Settling a message keeps its count, and its state is either unchanged or
\* the new one.
LEMMA EndedFacts ==
    ASSUME NEW m \in Msgs, NEW st \in {"acked", "termed"}
    PROVE  /\ Ended(m, st) \in Msgs
           /\ Ended(m, st).n = m.n
           /\ Ended(m, st).st \in {m.st, st}
  BY DEF Ended, Msgs, MsgStates

\* An answer keeps the count; only an Ack makes a message 'acked', only a Term
\* 'termed', and only a Nak of a pending message 'queued'.
LEMMA AnsweredFacts ==
    ASSUME NEW m \in Msgs, NEW v \in Verdicts, NEW maxDeliver
    PROVE  /\ Answered(m, v, maxDeliver) \in Msgs
           /\ Answered(m, v, maxDeliver).n = m.n
           /\ Answered(m, v, maxDeliver).st = "acked" => m.st = "acked" \/ v = "ack"
           /\ Answered(m, v, maxDeliver).st = "termed" => m.st = "termed" \/ v = "term"
           /\ Answered(m, v, maxDeliver).st = "queued"
                => m.st = "queued" \/ (v = "nak" /\ m.st = "pending")
  <1>1. CASE v = "ack"
    BY <1>1, EndedFacts DEF Answered, Ended, Msgs, MsgStates
  <1>2. CASE v = "term"
    BY <1>2, EndedFacts DEF Answered, Ended, Msgs, MsgStates
  <1>3. CASE v = "nak"
    <2>1. Answered(m, v, maxDeliver) = Requeued(m, maxDeliver)
      BY <1>3 DEF Answered
    <2> QED
      BY <1>3, <2>1, RequeuedFacts DEF Msgs, MsgStates
  <1> QED
    BY <1>1, <1>2, <1>3 DEF Verdicts

-----------------------------------------------------------------------------
\* No recipient is in two chunks: a page of the batcher follows the last one.
ChunksApart ==
    \A s \in Scenarios : \A k, l \in Chunks : k # l => s.payload[k] \cap s.payload[l] = {}

AtRecipient == Unrecorded \cup {"recordFailed"}
Looping == AtRecipient \cup {"validate", "loop"}

\* What a worker has at hand is of the chunk it holds.
Placed ==
    \A w \in Workers :
        /\ pc[w] # "idle" => todo[w] \cup retry[w] \subseteq payload[job[w]]
        /\ pc[w] = "idle" => retry[w] = {}
        /\ pc[w] \in AtRecipient => cur[w] \in payload[job[w]]
        /\ pc[w] \notin Looping => todo[w] = {}

Typed == TypeOK /\ Placed

\* A handler's step other than its answer.
HandlerSteps(w) ==
    \/ Validate(w) \/ \E r \in Recipients : CheckRecipient(w, r)
    \/ Acquire(w) \/ MarkSending(w) \/ SendAccepted(w) \/ SendTransient(w) \/ SendRefused(w)
    \/ RecordSent(w) \/ RecordFailed(w) \/ EndLoop(w) \/ Count(w) \/ Complete(w)
    \/ \E r \in Recipients : GiveUp(w, r)
    \/ EndGiveUp(w) \/ CountGivenUp(w) \/ CompleteGivenUp(w) \/ PublishDLQ(w)

-----------------------------------------------------------------------------
(***************************************************************************)
(* Operators                                                               *)
(***************************************************************************)
\* The statements on campaigns make campaigns of campaigns (client.go:318-345).
LEMMA CampaignFacts ==
    ASSUME NEW c \in Campaigns, NEW n \in Nat, NEW m \in Nat
    PROVE  Counted(c, n, m) \in Campaigns /\ CompletedIfCounted(c) \in Campaigns
  <1>1. Counted(c, n, m) \in Campaigns
    <2>1. c.sent + n \in Nat /\ c.failed + m \in Nat
      BY DEF Campaigns
    <2>2. \A a, b \in Nat : [c EXCEPT !.sent = a, !.failed = b] \in Campaigns
      BY DEF Campaigns
    <2>3. Counted(c, n, m) = [c EXCEPT !.sent = c.sent + n, !.failed = c.failed + m]
      BY DEF Counted, Campaigns
    <2> QED
      BY <2>1, <2>2, <2>3
  <1>2. [c EXCEPT !.status = "completed", !.completedAt = TRUE] \in Campaigns
    BY DEF Campaigns, CampaignStates
  <1>3. CompletedIfCounted(c) \in Campaigns
    BY <1>2, Zenon DEF CompletedIfCounted
  <1> QED
    BY <1>1, <1>3

\* One more outcome is a result.
LEMMA ResultFacts ==
    ASSUME NEW x \in Results
    PROVE  NoResult \in Results /\ OneMoreSent(x) \in Results /\ OneMoreFailed(x) \in Results
  BY DEF Results, NoResult, OneMoreSent, OneMoreFailed

\* The statements on recipients keep a status one, insert and delete no row, and
\* leave a sent or bounced one so; only MarkedSent makes one 'sent'
\* (client.go:428-462).
LEMMA RecipientFacts ==
    ASSUME NEW r \in RecipientStates, NEW t \in {MarkedSending(r), MarkedSent(r), MarkedFailed(r)}
    PROVE  /\ t \in RecipientStates
           /\ t = "none" <=> r = "none"
           /\ Terminal(r) => t = r
           /\ Terminal(t) => Terminal(r) \/ t = MarkedSent(r)
           /\ r # "none" => Terminal(MarkedSent(r))
           /\ Terminal(MarkedSending(r)) <=> Terminal(r)
           /\ Terminal(MarkedFailed(r)) <=> Terminal(r)
  BY DEF RecipientStates, MarkedSending, MarkedSent, MarkedFailed, Terminal

-----------------------------------------------------------------------------
(***************************************************************************)
(* Types                                                                   *)
(***************************************************************************)
\* What Dispose leaves.
LEMMA DisposeFacts ==
    ASSUME Typed, NEW w \in Workers, Dispose(w), pc[w] # "idle", todo[w] = {}
    PROVE  /\ pc' \in [Workers -> PCs] /\ pc'[w] \in {"answer", "giveUp"}
           /\ \A v \in Workers \ {w} : pc'[v] = pc[v]
           /\ res' \in [Workers -> Results] /\ verdict' \in [Workers -> Verdicts]
           /\ UNCHANGED <<job, attempt, todo, cur, retry>>
  <1> USE DEF Typed, TypeOK
  <1>1. CASE Answer(w, "ack") \/ Answer(w, "nak")
    BY <1>1 DEF Answer, PCs, Verdicts
  <1>2. CASE /\ pc' = [pc EXCEPT ![w] = "giveUp"]
             /\ res' = [res EXCEPT ![w] = NoResult]
             /\ UNCHANGED <<job, attempt, todo, cur, retry, verdict>>
    <2>1. res' \in [Workers -> Results]
      BY <1>2, ResultFacts
    <2> QED
      BY <1>2, <2>1 DEF PCs
  <1> QED
    BY <1>1, <1>2 DEF Dispose

\* The initial state is well-typed.
LEMMA TypedInit == Init => Typed
  <1> SUFFICES ASSUME Init PROVE Typed
    OBVIOUS
  <1>1. payload \in [Chunks -> SUBSET Recipients] /\ faulty \in BOOLEAN
    BY ScenariosAssumption DEF Init
  <1>2. campaign \in Campaigns
    <2> DEFINE all == UNION {payload[k] : k \in Chunks}
    <2>1. all \subseteq Recipients
      BY <1>1
    <2>2. Cardinality(all) \in Nat
      BY <2>1, RecipientsAssumption, FS_Subset, FS_CardinalityType
    <2>3. campaign = Started(NewCampaign("queued"), Cardinality(all))
      BY DEF Init
    <2> HIDE DEF all
    <2> QED
      BY <2>2, <2>3 DEF Started, NewCampaign, Campaigns, CampaignStates
  <1>3. recipient \in [Recipients -> RecipientStates] /\ chunkMsg \in [Chunks -> Msgs]
    BY DEF Init, RecipientStates, NoMsg, NewMsg, Msgs, MsgStates
  <1>4. /\ pc \in [Workers -> PCs] /\ job \in [Workers -> Chunks \cup {None}]
        /\ \A w \in Workers : pc[w] = "idle"
        /\ attempt \in [Workers -> Nat] /\ todo \in [Workers -> SUBSET Recipients]
        /\ cur \in [Workers -> Recipients \cup {None}]
        /\ retry \in [Workers -> SUBSET Recipients] /\ verdict \in [Workers -> Verdicts]
        /\ \A w \in Workers : retry[w] = {} /\ todo[w] = {}
    BY DEF Init, Idle, PCs, Verdicts
  <1>5. res \in [Workers -> Results]
    BY DEF Init, Idle, Results, NoResult
  <1>6. /\ events = {} /\ dlq = {} /\ refused = {} /\ ambiguous = {}
        /\ accepted \in [Recipients -> Nat]
    BY DEF Init, NothingSent
  <1> QED
    BY <1>1, <1>2, <1>3, <1>4, <1>5, <1>6
       DEF Typed, TypeOK, Placed, AtRecipient, Unrecorded, Looping

\* Every step keeps the state well-typed, and what a worker has at hand of its chunk.
LEMMA TypedStep == Typed /\ [Next]_vars => Typed'
  <1> SUFFICES ASSUME Typed, [Next]_vars PROVE Typed'
    OBVIOUS
  <1> USE DEF Typed, TypeOK, Placed, AtRecipient, Unrecorded, Looping, PCs, Verdicts,
          given, rowVars, workerVars, sesVars, pubVars
  <1>1. ASSUME NEW w \in Workers, NEW k \in Chunks, Receive(w, k) PROVE Typed'
    <2>1. chunkMsg' \in [Chunks -> Msgs] /\ chunkMsg[k].n + 1 \in Nat
      BY <1>1, DeliveredFacts DEF Receive, Msgs
    <2>2. attempt' \in [Workers -> Nat] /\ todo' \in [Workers -> SUBSET Recipients]
      BY <1>1, <2>1 DEF Receive
    <2> QED
      BY <1>1, <2>1, <2>2 DEF Receive
  <1>2. ASSUME NEW w \in Workers, Validate(w) PROVE Typed'
    <2>1. pc[w] = "validate"
      BY <1>2 DEF Validate
    <2>2. CASE job[w] \in Malformed
      BY <1>2, <2>1, <2>2 DEF Validate
    <2>3. CASE job[w] \notin Malformed
      BY <1>2, <2>1, <2>3 DEF Validate, Goto
    <2> QED
      BY <2>2, <2>3
  <1>3. ASSUME NEW w \in Workers, NEW r \in Recipients, CheckRecipient(w, r) PROVE Typed'
    <2>1. todo' = [todo EXCEPT ![w] = @ \ {r}] /\ r \in todo[w] /\ pc[w] = "loop"
      BY <1>3 DEF CheckRecipient
    <2>2. CASE TransientOutcome(w, r)
      BY <1>3, <2>1, <2>2 DEF CheckRecipient, TransientOutcome
    <2>3. CASE Duplicate(w)
      BY <1>3, <2>1, <2>3 DEF CheckRecipient, Duplicate
    <2>4. CASE ~TransientOutcome(w, r) /\ ~Duplicate(w)
      BY <1>3, <2>1, <2>4 DEF CheckRecipient
    <2> QED
      BY <2>2, <2>3, <2>4
  <1>4. ASSUME NEW w \in Workers, Acquire(w) PROVE Typed'
    BY <1>4 DEF Acquire, TransientOutcome, Goto
  <1>5. ASSUME NEW w \in Workers, MarkSending(w) PROVE Typed'
    <2>1. recipient' \in [Recipients -> RecipientStates]
      BY <1>5, RecipientFacts DEF MarkSending, MayMarkRecipient, MarkRecipient
    <2>2. CASE Goto(w, "send")
      BY <1>5, <2>1, <2>2 DEF MarkSending, Goto
    <2>3. CASE TransientOutcome(w, cur[w]) /\ UNCHANGED todo
      BY <1>5, <2>1, <2>3 DEF MarkSending, TransientOutcome
    <2> QED
      BY <1>5, <2>2, <2>3 DEF MarkSending
  <1>6. ASSUME NEW w \in Workers, SendAccepted(w) PROVE Typed'
    BY <1>6 DEF SendAccepted, AcceptedBySES, Goto
  <1>7. ASSUME NEW w \in Workers, SendTransient(w) PROVE Typed'
    <2>1. accepted' \in [Recipients -> Nat] /\ ambiguous' \subseteq Recipients
      BY <1>7 DEF SendTransient, AcceptedBySES
    <2> QED
      BY <1>7, <2>1 DEF SendTransient, TransientOutcome
  <1>8. ASSUME NEW w \in Workers, SendRefused(w) PROVE Typed'
    BY <1>8 DEF SendRefused, Goto
  <1>9. ASSUME NEW w \in Workers, RecordSent(w) \/ RecordFailed(w) PROVE Typed'
    <2>1. recipient' \in [Recipients -> RecipientStates]
      BY <1>9, RecipientFacts DEF RecordSent, RecordFailed, MayMarkRecipient, MarkRecipient
    <2>2. events' \subseteq Recipients \X {"sent", "failed"} /\ ambiguous' \subseteq Recipients
      BY <1>9 DEF RecordSent, RecordFailed, MayPublishEvent
    <2>3. res' \in [Workers -> Results]
      BY <1>9, ResultFacts DEF RecordSent, RecordFailed, FreshOutcome
    <2>4. /\ pc' = [pc EXCEPT ![w] = "loop"] /\ cur' = [cur EXCEPT ![w] = None]
          /\ pc[w] \in {"recordSent", "recordFailed"}
          /\ UNCHANGED <<chunkMsg, given, campaign, accepted, refused, dlq,
                         job, attempt, todo, retry, verdict>>
      BY <1>9 DEF RecordSent, RecordFailed, FreshOutcome
    <2> QED
      BY <2>1, <2>2, <2>3, <2>4
  <1>10. ASSUME NEW w \in Workers, EndLoop(w) PROVE Typed'
    <2>1. CASE Goto(w, "count")
      BY <1>10, <2>1 DEF EndLoop, Goto
    <2>2. CASE Dispose(w)
      BY <1>10, <2>2, DisposeFacts DEF EndLoop
    <2> QED
      BY <1>10, <2>1, <2>2 DEF EndLoop
  <1>11. ASSUME NEW w \in Workers, Count(w) \/ Complete(w) PROVE Typed'
    <2>1. campaign' \in Campaigns
      <3>1. res[w].sent \in Nat /\ res[w].failed \in Nat
        BY DEF Results
      <3>2. campaign' \in {campaign, Counted(campaign, res[w].sent, res[w].failed),
                           CompletedIfCounted(campaign)}
        BY <1>11, Zenon DEF Count, Complete, MayUpdateCampaign
      <3>3. /\ Counted(campaign, res[w].sent, res[w].failed) \in Campaigns
            /\ CompletedIfCounted(campaign) \in Campaigns
        BY <3>1, CampaignFacts
      <3> QED
        BY <3>2, <3>3
    <2>2. CASE Dispose(w)
      <3>1. /\ pc[w] \in {"count", "complete"}
            /\ UNCHANGED <<chunkMsg, payload, faulty, recipient, accepted, refused, ambiguous, events, dlq>>
        BY <1>11 DEF Count, Complete
      <3> QED
        BY <2>1, <2>2, <3>1, DisposeFacts
    <2>3. CASE Goto(w, "complete") \/ Answer(w, "nak")
      BY <1>11, <2>1, <2>3 DEF Count, Complete, Goto, Answer
    <2> QED
      BY <1>11, <2>2, <2>3 DEF Count, Complete
  <1>12. ASSUME NEW w \in Workers, NEW r \in Recipients, GiveUp(w, r) PROVE Typed'
    <2>1. recipient' \in [Recipients -> RecipientStates]
      BY <1>12, RecipientFacts DEF GiveUp, MayMarkRecipient, MarkRecipient
    <2>2. events' \subseteq Recipients \X {"sent", "failed"}
      BY <1>12 DEF GiveUp, MayPublishEvent
    <2>3. res' \in [Workers -> Results]
      BY <1>12, ResultFacts DEF GiveUp
    <2>4. retry' \in [Workers -> SUBSET Recipients] /\ \A v \in Workers : retry'[v] \subseteq retry[v]
      BY <1>12 DEF GiveUp
    <2> QED
      BY <1>12, <2>1, <2>2, <2>3, <2>4 DEF GiveUp
  <1>13. ASSUME NEW w \in Workers, EndGiveUp(w) PROVE Typed'
    BY <1>13 DEF EndGiveUp, Goto
  <1>14. ASSUME NEW w \in Workers, CountGivenUp(w) \/ CompleteGivenUp(w) PROVE Typed'
    <2>1. campaign' \in Campaigns
      <3>1. res[w].failed \in Nat
        BY DEF Results
      <3>2. campaign' \in {campaign, Counted(campaign, 0, res[w].failed), CompletedIfCounted(campaign)}
        BY <1>14, Zenon DEF CountGivenUp, CompleteGivenUp, MayUpdateCampaign
      <3>3. Counted(campaign, 0, res[w].failed) \in Campaigns /\ CompletedIfCounted(campaign) \in Campaigns
        BY <3>1, CampaignFacts
      <3> QED
        BY <3>2, <3>3
    <2> QED
      BY <1>14, <2>1 DEF CountGivenUp, CompleteGivenUp, Goto
  <1>15. ASSUME NEW w \in Workers, PublishDLQ(w) PROVE Typed'
    BY <1>15 DEF PublishDLQ, Answer
  <1>16. ASSUME NEW w \in Workers, AnswerMessage(w) PROVE Typed'
    <2>1. chunkMsg' \in [Chunks -> Msgs]
      BY <1>16, AnsweredFacts DEF AnswerMessage
    <2>2. ambiguous' \subseteq Recipients
      BY <1>16 DEF AnswerMessage, RequeueNoted
    <2> QED
      BY <1>16, <2>1, <2>2 DEF AnswerMessage, Release, Results, NoResult
  <1>17. ASSUME NEW w \in Workers, Crash(w) PROVE Typed'
    <2>1. ambiguous' \subseteq Recipients
      BY <1>17 DEF Crash, LeaveNoted
    <2> QED
      BY <1>17, <2>1 DEF Crash, Release, Results, NoResult
  <1>18. ASSUME NEW k \in Chunks, Expire(k) PROVE Typed'
    BY <1>18, RequeuedFacts DEF Expire, RequeueNoted
  <1>19. ASSUME NEW r \in Recipients, Bounce(r) PROVE Typed'
    BY <1>19 DEF Bounce, MarkRecipient, RecipientStates
  <1>20. CASE UNCHANGED vars
    BY <1>20 DEF vars
  <1> QED
    BY <1>1, <1>2, <1>3, <1>4, <1>5, <1>6, <1>7, <1>8, <1>9, <1>10, <1>11, <1>12, <1>13,
       <1>14, <1>15, <1>16, <1>17, <1>18, <1>19, <1>20 DEF Next, Work

\* Every row, counter, set and position stays what the model declares it to be, and
\* a worker has only recipients of its own chunk at hand.
THEOREM TypeCorrect == Spec => []TypeOK
  <1>1. Typed => TypeOK
    BY DEF Typed
  <1> QED
    BY <1>1, TypedInit, TypedStep, PTL DEF Spec

-----------------------------------------------------------------------------
(***************************************************************************)
(* The invariant of the mailing                                            *)
(***************************************************************************)
\* A worker may still send to r, or has sent without recording it.
AtHand(w, r) == r \in todo[w] \/ (pc[w] \in Unrecorded /\ cur[w] = r)

\* No recipient is in two chunks, and each has a row.
Apart == \A k, l \in Chunks : k # l => payload[k] \cap payload[l] = {}
RowsThere == \A k \in Chunks : \A r \in payload[k] : recipient[r] # "none"

\* Where there is no doubt, one worker at most has the recipient at hand, and the
\* chunk is not given out meanwhile.
OneHolder ==
    \A r \in Recipients \ ambiguous : \A w \in Workers : AtHand(w, r) =>
        /\ chunkMsg[job[w]].st # "queued"
        /\ \A v \in Workers : AtHand(v, r) => v = w

\* Where there is no doubt, an acceptance is in the row or about to be put there.
AcceptanceKnown ==
    \A r \in Recipients \ ambiguous : accepted[r] > 0 =>
        Terminal(recipient[r]) \/ \E w \in Workers : pc[w] = "recordSent" /\ cur[w] = r

\* Between the check and the send, nothing has been accepted.
NotAcceptedYet ==
    \A w \in Workers : pc[w] \in {"acquire", "markSending", "send"} /\ cur[w] \notin ambiguous =>
        accepted[cur[w]] = 0

\* What a worker is about to record did happen, and so did what is recorded.
RecordedIsTrue ==
    /\ \A w \in Workers : pc[w] = "recordSent" => accepted[cur[w]] > 0
    /\ \A r \in Recipients : Terminal(recipient[r]) => accepted[r] > 0

MailInv == Typed /\ Apart /\ RowsThere /\ OneHolder /\ AcceptanceKnown /\ NotAcceptedYet /\ RecordedIsTrue

\* A handler's step leaves the other workers and the messages alone, and reaches
\* for no recipient it did not have at hand.
LEMMA OthersStay ==
    ASSUME Typed, NEW w \in Workers, HandlerSteps(w)
    PROVE  /\ \A v \in Workers \ {w} :
                 /\ pc'[v] = pc[v] /\ todo'[v] = todo[v] /\ cur'[v] = cur[v]
                 /\ retry'[v] = retry[v] /\ verdict'[v] = verdict[v]
           /\ UNCHANGED <<job, attempt, chunkMsg, payload>>
           /\ pc[w] # "idle" /\ pc'[w] # "idle"
           /\ \A r \in Recipients : AtHand(w, r)' => AtHand(w, r)
  <1> USE DEF HandlerSteps, Typed, TypeOK, AtHand, Unrecorded, given
  <1>1. CASE \/ Validate(w) \/ \E r \in Recipients : CheckRecipient(w, r)
             \/ Acquire(w) \/ MarkSending(w) \/ SendAccepted(w) \/ SendTransient(w) \/ SendRefused(w)
    BY <1>1 DEF Validate, CheckRecipient, Acquire, MarkSending, SendAccepted, SendTransient,
       SendRefused, Goto, Duplicate, TransientOutcome
  <1>2. CASE \/ RecordSent(w) \/ RecordFailed(w) \/ EndLoop(w) \/ Count(w) \/ Complete(w)
    BY <1>2 DEF RecordSent, RecordFailed, EndLoop, Count, Complete, Dispose, Answer, Goto, FreshOutcome
  <1>3. CASE \/ \E r \in Recipients : GiveUp(w, r)
             \/ EndGiveUp(w) \/ CountGivenUp(w) \/ CompleteGivenUp(w) \/ PublishDLQ(w)
    BY <1>3 DEF GiveUp, EndGiveUp, CountGivenUp, CompleteGivenUp, PublishDLQ, Answer, Goto
  <1> QED
    BY <1>1, <1>2, <1>3

\* Every step either is a handler's, or one of the few others.
LEMMA Steps ==
    ASSUME [Next]_vars
    PROVE  \/ \E w \in Workers, k \in Chunks : Receive(w, k)
           \/ \E w \in Workers : HandlerSteps(w) \/ AnswerMessage(w) \/ Crash(w)
           \/ \E k \in Chunks : Expire(k)
           \/ \E r \in Recipients : Bounce(r)
           \/ UNCHANGED vars
  BY DEF Next, Work, HandlerSteps

\* Acceptances, refusals and doubt are never taken back.
LEMMA HistoryGrows ==
    ASSUME Typed, [Next]_vars
    PROVE  /\ ambiguous \subseteq ambiguous' /\ refused \subseteq refused'
           /\ \A r \in Recipients : accepted[r] > 0 => accepted'[r] > 0
           /\ payload' = payload
  <1> USE DEF Typed, TypeOK
  <1>1. ASSUME NEW w \in Workers, SendAccepted(w) \/ SendTransient(w)
        PROVE  /\ ambiguous \subseteq ambiguous' /\ refused \subseteq refused' /\ payload' = payload
               /\ \A r \in Recipients : accepted[r] > 0 => accepted'[r] > 0
    <2>1. \/ UNCHANGED <<accepted, ambiguous>>
          \/ accepted' = [accepted EXCEPT ![cur[w]] = @ + 1] /\ ambiguous \subseteq ambiguous'
      BY <1>1 DEF SendAccepted, SendTransient, AcceptedBySES
    <2>2. UNCHANGED <<payload, refused>>
      BY <1>1 DEF SendAccepted, SendTransient, given
    <2> QED
      BY <2>1, <2>2
  <1>2. ASSUME ~(\E w \in Workers : SendAccepted(w) \/ SendTransient(w))
        PROVE  /\ ambiguous \subseteq ambiguous' /\ refused \subseteq refused'
               /\ UNCHANGED <<payload, accepted>>
    <2>1. ASSUME NEW w \in Workers, HandlerSteps(w)
          PROVE  /\ ambiguous \subseteq ambiguous' /\ refused \subseteq refused'
                 /\ UNCHANGED <<payload, accepted>>
      BY <1>2, <2>1 DEF HandlerSteps, Validate, CheckRecipient, Acquire, MarkSending, SendRefused,
         RecordSent, RecordFailed, EndLoop, Count, Complete, GiveUp, EndGiveUp, CountGivenUp,
         CompleteGivenUp, PublishDLQ, sesVars, given
    <2> QED
      BY <2>1, Steps DEF Receive, AnswerMessage, Crash, Expire, Bounce, RequeueNoted, LeaveNoted,
         vars, sesVars, given
  <1> QED
    BY <1>1, <1>2

\* What a step does to the rows: a statement for one recipient, or a bounce.
LEMMA RowSteps ==
    ASSUME Typed, [Next]_vars
    PROVE  \/ UNCHANGED recipient
           \/ \E r \in Recipients :
                 \E t \in {MarkedSending(recipient[r]), MarkedFailed(recipient[r])} : MarkRecipient(r, t)
           \/ \E w \in Workers :
                 RecordSent(w) /\ cur[w] \in Recipients /\ MarkRecipient(cur[w], MarkedSent(recipient[cur[w]]))
           \/ \E r \in Recipients : Bounce(r)
  <1> USE DEF Typed, TypeOK
  <1>1. ASSUME NEW w \in Workers, HandlerSteps(w)
        PROVE  \/ UNCHANGED recipient
               \/ \E r \in Recipients :
                     \E t \in {MarkedSending(recipient[r]), MarkedFailed(recipient[r])} : MarkRecipient(r, t)
               \/ RecordSent(w) /\ cur[w] \in Recipients
                     /\ MarkRecipient(cur[w], MarkedSent(recipient[cur[w]]))
    <2>1. pc[w] \in Unrecorded \cup {"recordFailed"} => cur[w] \in Recipients
      OBVIOUS
    <2>2. CASE MarkSending(w)
      BY <2>1, <2>2 DEF MarkSending, MayMarkRecipient, Unrecorded
    <2>3. CASE RecordSent(w)
      BY <2>1, <2>3 DEF RecordSent, Unrecorded
    <2>4. CASE RecordFailed(w)
      BY <2>1, <2>4 DEF RecordFailed, MayMarkRecipient
    <2>5. ASSUME NEW r \in Recipients, GiveUp(w, r)
          PROVE  UNCHANGED recipient \/ MarkRecipient(r, MarkedFailed(recipient[r]))
      BY <2>5 DEF GiveUp, MayMarkRecipient
    <2>6. CASE /\ ~MarkSending(w) /\ ~RecordSent(w) /\ ~RecordFailed(w)
               /\ \A r \in Recipients : ~GiveUp(w, r)
      BY <1>1, <2>6 DEF HandlerSteps, Validate, CheckRecipient, Acquire, SendAccepted, SendTransient,
         SendRefused, EndLoop, Count, Complete, EndGiveUp, CountGivenUp, CompleteGivenUp, PublishDLQ,
         rowVars
    <2> QED
      BY <2>2, <2>3, <2>4, <2>5, <2>6
  <1> QED
    BY <1>1, Steps DEF Receive, AnswerMessage, Crash, Expire, vars, rowVars

\* No row comes or goes, and what is final stays: 'sent' comes of an acceptance about
\* to be recorded, 'bounced' of one there was.
LEMMA RowsMove ==
    ASSUME Typed, [Next]_vars
    PROVE  \A r \in Recipients :
              /\ recipient'[r] = "none" <=> recipient[r] = "none"
              /\ Terminal(recipient[r]) => Terminal(recipient'[r])
              /\ Terminal(recipient'[r]) =>
                    \/ Terminal(recipient[r])
                    \/ accepted[r] > 0 /\ UNCHANGED accepted
                    \/ \E w \in Workers : pc[w] = "recordSent" /\ cur[w] = r /\ UNCHANGED accepted
  <1> USE DEF Typed, TypeOK
  <1>1. CASE UNCHANGED recipient
    BY <1>1
  <1>2. ASSUME NEW r \in Recipients, NEW t \in {MarkedSending(recipient[r]), MarkedFailed(recipient[r])},
               MarkRecipient(r, t)
        PROVE  \A q \in Recipients : /\ recipient'[q] = "none" <=> recipient[q] = "none"
                                     /\ Terminal(recipient[q]) <=> Terminal(recipient'[q])
    BY <1>2, RecipientFacts DEF MarkRecipient
  <1>3. ASSUME NEW r \in Recipients, MarkRecipient(r, MarkedSent(recipient[r])),
               NEW w \in Workers, RecordSent(w), r = cur[w]
        PROVE  \A q \in Recipients :
                  /\ recipient'[q] = "none" <=> recipient[q] = "none"
                  /\ Terminal(recipient[q]) => Terminal(recipient'[q])
                  /\ Terminal(recipient'[q]) => Terminal(recipient[q]) \/ q = r
                  /\ pc[w] = "recordSent" /\ UNCHANGED accepted
    BY <1>3, RecipientFacts DEF MarkRecipient, RecordSent
  <1>4. ASSUME NEW r \in Recipients, Bounce(r)
        PROVE  \A q \in Recipients :
                  /\ recipient'[q] = "none" <=> recipient[q] = "none"
                  /\ Terminal(recipient[q]) => Terminal(recipient'[q])
                  /\ Terminal(recipient'[q]) => Terminal(recipient[q]) \/ (accepted[q] > 0 /\ UNCHANGED accepted)
    BY <1>4 DEF Bounce, MarkRecipient, Terminal, sesVars
  <1> QED
    BY <1>1, <1>2, <1>3, <1>4, RowSteps

\* Giving a chunk out, answering it and putting it back keep its holders known.
LEMMA OneHolderStep ==
    ASSUME MailInv, [Next]_vars
    PROVE  OneHolder'
  <1> USE DEF MailInv
  <1>1. ambiguous \subseteq ambiguous'
    BY HistoryGrows
  <1>2. ASSUME NEW w \in Workers, HandlerSteps(w) PROVE OneHolder'
    <2>1. \A v \in Workers : \A r \in Recipients : AtHand(v, r)' => AtHand(v, r)
      BY <1>2, OthersStay DEF AtHand
    <2> QED
      BY <1>1, <1>2, <2>1, OthersStay DEF OneHolder
  <1>3. ASSUME NEW w \in Workers, NEW k \in Chunks, Receive(w, k) PROVE OneHolder'
    <2> SUFFICES ASSUME NEW r \in Recipients \ ambiguous', NEW v \in Workers, AtHand(v, r)'
                 PROVE  /\ (chunkMsg[job[v]].st)' # "queued"
                        /\ \A u \in Workers : AtHand(u, r)' => u = v
      BY DEF OneHolder
    <2>1. /\ chunkMsg[k].st = "queued" /\ pc[w] = "idle"
          /\ chunkMsg' = [chunkMsg EXCEPT ![k] = Delivered(@)]
          /\ job' = [job EXCEPT ![w] = k] /\ todo' = [todo EXCEPT ![w] = payload[k]]
          /\ pc' = [pc EXCEPT ![w] = "validate"] /\ cur' = cur
      BY <1>3 DEF Receive, Deliverable
    <2>2. chunkMsg'[k].st = "pending"
      BY <2>1, DeliveredFacts DEF Typed, TypeOK
    <2>3. /\ \A u \in Workers \ {w} : AtHand(u, r)' <=> AtHand(u, r)
          /\ AtHand(w, r)' <=> r \in payload[k]
          /\ \A u \in Workers \ {w} : job'[u] = job[u]
          /\ job'[w] = k
      BY <2>1 DEF Typed, TypeOK, AtHand, Unrecorded
    <2>4. ASSUME NEW u \in Workers \ {w}, AtHand(u, r)
          PROVE  job[u] \in Chunks /\ job[u] # k /\ r \in payload[job[u]]
      <3>1. pc[u] # "idle" /\ job[u] \in Chunks /\ r \in payload[job[u]]
        BY <2>4 DEF Typed, TypeOK, Placed, AtHand, AtRecipient, Looping, Unrecorded
      <3> QED
        BY <1>1, <2>1, <2>4, <3>1 DEF OneHolder
    <2>5. \A u \in Workers \ {w} : AtHand(u, r) => r \notin payload[k]
      BY <2>4 DEF Apart
    <2>6. CASE v = w
      BY <2>2, <2>3, <2>5, <2>6
    <2>7. CASE v # w
      <3>1. AtHand(v, r) /\ job'[v] = job[v] /\ chunkMsg'[job[v]] = chunkMsg[job[v]]
        BY <2>1, <2>3, <2>4, <2>7 DEF Typed, TypeOK
      <3> QED
        BY <1>1, <2>3, <2>5, <2>7, <3>1 DEF OneHolder
    <2> QED
      BY <2>6, <2>7
  <1>4. ASSUME NEW w \in Workers, Release(w)
        PROVE  /\ \A r \in Recipients : ~AtHand(w, r)'
               /\ \A v \in Workers \ {w} : \A r \in Recipients : AtHand(v, r)' <=> AtHand(v, r)
               /\ \A v \in Workers \ {w} : job'[v] = job[v]
    BY <1>4 DEF Release, Typed, TypeOK, AtHand, Unrecorded
  <1>5. ASSUME NEW w \in Workers, AnswerMessage(w) PROVE OneHolder'
    <2> SUFFICES ASSUME NEW r \in Recipients \ ambiguous', NEW v \in Workers, AtHand(v, r)'
                 PROVE  /\ (chunkMsg[job[v]].st)' # "queued"
                        /\ \A u \in Workers : AtHand(u, r)' => u = v
      BY DEF OneHolder
    <2>1. Release(w) /\ pc[w] = "answer"
          /\ chunkMsg' = [chunkMsg EXCEPT ![job[w]] = Answered(@, verdict[w], MaxAttempts)]
      BY <1>5 DEF AnswerMessage
    <2>2. v # w /\ AtHand(v, r) /\ job'[v] = job[v] /\ payload' = payload
      BY <1>4, <2>1, HistoryGrows
    <2>3. /\ chunkMsg[job[v]].st # "queued"
          /\ \A u \in Workers : AtHand(u, r) => u = v
      BY <1>1, <2>2 DEF OneHolder
    <2>4. pc[v] # "idle" /\ job[v] \in Chunks /\ r \in payload[job[v]] /\ job[w] \in Chunks
      BY <2>1, <2>2 DEF Typed, TypeOK, Placed, AtHand, AtRecipient, Looping, Unrecorded
    <2>5. CASE job[v] # job[w]
      BY <1>4, <2>1, <2>2, <2>3, <2>4, <2>5 DEF Typed, TypeOK
    <2>6. CASE job[v] = job[w]
      <3>1. ~(verdict[w] = "nak" /\ chunkMsg[job[w]].st = "pending")
        <4>1. HeldUnrecorded(Workers \ {w}, r)
          BY <2>2 DEF HeldUnrecorded, AtHand
        <4> QED
          BY <1>5, <2>4, <2>6, <4>1 DEF AnswerMessage, RequeueNoted
      <3>2. chunkMsg[job[w]] \in Msgs /\ verdict[w] \in Verdicts
        BY <2>4 DEF Typed, TypeOK
      <3>3. chunkMsg'[job[w]] = Answered(chunkMsg[job[w]], verdict[w], MaxAttempts)
        BY <2>1, <2>4 DEF Typed, TypeOK
      <3>4. chunkMsg'[job[v]].st # "queued"
        BY <2>3, <2>6, <3>1, <3>2, <3>3, AnsweredFacts
      <3> QED
        BY <1>4, <2>1, <2>2, <2>3, <3>4
    <2> QED
      BY <2>5, <2>6
  <1>6. ASSUME NEW w \in Workers, Crash(w) PROVE OneHolder'
    <2>1. Release(w) /\ chunkMsg' = chunkMsg
      BY <1>6 DEF Crash
    <2> QED
      BY <1>1, <1>4, <2>1 DEF OneHolder
  <1>7. ASSUME NEW k \in Chunks, Expire(k) PROVE OneHolder'
    <2> SUFFICES ASSUME NEW r \in Recipients \ ambiguous', NEW v \in Workers, AtHand(v, r)'
                 PROVE  /\ (chunkMsg[job[v]].st)' # "queued"
                        /\ \A u \in Workers : AtHand(u, r)' => u = v
      BY DEF OneHolder
    <2>1. /\ \A u \in Workers : AtHand(u, r)' <=> AtHand(u, r)
          /\ UNCHANGED job
          /\ chunkMsg' = [chunkMsg EXCEPT ![k] = Requeued(@, MaxAttempts)]
          /\ chunkMsg[k].st = "pending"
      BY <1>7 DEF Expire, workerVars, AtHand
    <2>2. /\ chunkMsg[job[v]].st # "queued"
          /\ \A u \in Workers : AtHand(u, r) => u = v
      BY <1>1, <2>1 DEF OneHolder
    <2>3. pc[v] # "idle" /\ job[v] \in Chunks /\ r \in payload[job[v]]
      BY <2>1 DEF Typed, TypeOK, Placed, AtHand, AtRecipient, Looping, Unrecorded
    <2>4. job[v] # k
      <3>1. HeldUnrecorded(Workers, r)
        BY <2>1 DEF HeldUnrecorded, AtHand
      <3> QED
        BY <1>7, <2>1, <2>3, <3>1 DEF Expire, RequeueNoted
    <2> QED
      BY <2>1, <2>2, <2>3, <2>4 DEF Typed, TypeOK
  <1>8. CASE (\E r \in Recipients : Bounce(r)) \/ UNCHANGED vars
    <2>1. UNCHANGED <<workerVars, chunkMsg>>
      BY <1>8 DEF Bounce, vars
    <2>2. \A v \in Workers : \A r \in Recipients : AtHand(v, r)' <=> AtHand(v, r)
      BY <2>1 DEF workerVars, AtHand
    <2> QED
      BY <1>1, <2>1, <2>2 DEF OneHolder, workerVars
  <1> QED
    BY <1>2, <1>3, <1>5, <1>6, <1>7, <1>8, Steps

\* What a worker does at all, and what its variables are when it does nothing.
Acts(w) == HandlerSteps(w) \/ AnswerMessage(w) \/ Crash(w) \/ \E k \in Chunks : Receive(w, k)
Still(w) == /\ pc'[w] = pc[w] /\ job'[w] = job[w] /\ attempt'[w] = attempt[w] /\ todo'[w] = todo[w]
            /\ cur'[w] = cur[w] /\ retry'[w] = retry[w] /\ verdict'[w] = verdict[w]

\* No worker changes another's variables.
LEMMA OneActs ==
    ASSUME Typed, [Next]_vars, NEW w \in Workers
    PROVE  Acts(w) \/ Still(w)
  <1>1. ASSUME NEW v \in Workers \ {w}, Acts(v) PROVE Still(w)
    <2>1. CASE HandlerSteps(v)
      BY <2>1, OthersStay DEF Still
    <2>2. CASE AnswerMessage(v) \/ Crash(v) \/ \E k \in Chunks : Receive(v, k)
      BY <2>2 DEF AnswerMessage, Crash, Receive, Release, Still, Typed, TypeOK
    <2> QED
      BY <1>1, <2>1, <2>2 DEF Acts
  <1>2. CASE \/ \E k \in Chunks : Expire(k)
             \/ \E r \in Recipients : Bounce(r)
             \/ UNCHANGED vars
    BY <1>2 DEF Expire, Bounce, vars, workerVars, Still
  <1> QED
    BY <1>1, <1>2, Steps DEF Acts

\* SES accepts an email only from a worker that sends it, which then knows, or
\* there is doubt.
LEMMA Acceptances ==
    ASSUME Typed, [Next]_vars
    PROVE  \/ UNCHANGED accepted
           \/ \E w \in Workers :
                 /\ pc[w] = "send" /\ cur[w] \in Recipients
                 /\ accepted' = [accepted EXCEPT ![cur[w]] = @ + 1]
                 /\ UNCHANGED recipient
                 /\ cur[w] \in ambiguous' \/ (pc'[w] = "recordSent" /\ cur'[w] = cur[w])
  <1> USE DEF Typed, TypeOK
  <1>1. ASSUME NEW w \in Workers, SendAccepted(w) \/ SendTransient(w)
        PROVE  \/ UNCHANGED accepted
               \/ /\ pc[w] = "send" /\ cur[w] \in Recipients
                  /\ accepted' = [accepted EXCEPT ![cur[w]] = @ + 1]
                  /\ UNCHANGED recipient
                  /\ cur[w] \in ambiguous' \/ (pc'[w] = "recordSent" /\ cur'[w] = cur[w])
    <2>1. pc[w] = "send" /\ cur[w] \in Recipients
      BY <1>1 DEF SendAccepted, SendTransient, Unrecorded
    <2> QED
      BY <1>1, <2>1 DEF SendAccepted, SendTransient, AcceptedBySES, rowVars, Goto
  <1>2. ASSUME ~(\E w \in Workers : SendAccepted(w) \/ SendTransient(w))
        PROVE  UNCHANGED accepted
    <2>1. ASSUME NEW w \in Workers, HandlerSteps(w)
          PROVE  UNCHANGED accepted
      BY <1>2, <2>1 DEF HandlerSteps, Validate, CheckRecipient, Acquire, MarkSending, SendRefused,
         RecordSent, RecordFailed, EndLoop, Count, Complete, GiveUp, EndGiveUp, CountGivenUp,
         CompleteGivenUp, PublishDLQ, sesVars
    <2> QED
      BY <2>1, Steps DEF Receive, AnswerMessage, Crash, Expire, Bounce, vars, sesVars
  <1> QED
    BY <1>1, <1>2

\* How a worker comes to have a recipient at its cursor.
LEMMA CursorMoves ==
    ASSUME Typed, [Next]_vars, NEW w \in Workers, pc'[w] \in Unrecorded
    PROVE  \/ pc'[w] = pc[w] /\ cur'[w] = cur[w]
           \/ /\ pc[w] = "loop" /\ pc'[w] = "acquire"
              /\ cur'[w] \in todo[w] /\ ~Terminal(recipient[cur'[w]])
              /\ UNCHANGED accepted
           \/ /\ pc[w] \in {"acquire", "markSending"} /\ pc'[w] \in {"markSending", "send"}
              /\ cur'[w] = cur[w]
              /\ UNCHANGED accepted
           \/ /\ pc[w] = "send" /\ pc'[w] = "recordSent"
              /\ cur'[w] = cur[w] /\ accepted'[cur[w]] > 0
  <1> USE DEF Typed, TypeOK, Unrecorded
  <1>1. CASE \E r \in Recipients : CheckRecipient(w, r)
    BY <1>1 DEF CheckRecipient, TransientOutcome, Duplicate, sesVars
  <1>2. CASE Acquire(w) \/ MarkSending(w)
    BY <1>2 DEF Acquire, MarkSending, Goto, TransientOutcome, sesVars
  <1>3. CASE SendAccepted(w)
    BY <1>3 DEF SendAccepted, AcceptedBySES, Goto
  <1>4. CASE SendTransient(w) \/ SendRefused(w) \/ RecordSent(w) \/ RecordFailed(w)
    BY <1>4 DEF SendTransient, SendRefused, RecordSent, RecordFailed, Goto, TransientOutcome, FreshOutcome
  <1>5. CASE \/ Validate(w) \/ EndLoop(w) \/ Count(w) \/ Complete(w)
             \/ \E r \in Recipients : GiveUp(w, r)
             \/ EndGiveUp(w) \/ CountGivenUp(w) \/ CompleteGivenUp(w) \/ PublishDLQ(w)
             \/ AnswerMessage(w) \/ Crash(w) \/ \E k \in Chunks : Receive(w, k)
    BY <1>5 DEF Validate, EndLoop, Count, Complete, GiveUp, EndGiveUp, CountGivenUp, CompleteGivenUp,
       PublishDLQ, AnswerMessage, Crash, Receive, Release, Dispose, Answer, Goto
  <1> QED
    BY <1>1, <1>2, <1>3, <1>4, <1>5, OneActs DEF Acts, Still, HandlerSteps

\* An acceptance is recorded, or about to be, or forgotten and in doubt.
LEMMA AcceptanceIsKept ==
    ASSUME Typed, RowsThere, [Next]_vars, NEW w \in Workers, pc[w] = "recordSent"
    PROVE  \/ pc'[w] = "recordSent" /\ cur'[w] = cur[w]
           \/ cur[w] \in ambiguous'
           \/ Terminal(recipient'[cur[w]])
  <1> USE DEF Typed, TypeOK, Unrecorded
  <1>1. cur[w] \in Recipients /\ recipient[cur[w]] # "none"
    BY DEF RowsThere, Placed, AtRecipient
  <1>2. CASE RecordSent(w)
    BY <1>1, <1>2, RecipientFacts DEF RecordSent, MarkRecipient
  <1>3. CASE Crash(w)
    BY <1>3 DEF Crash, LeaveNoted
  <1>4. ~(\E k \in Chunks : Receive(w, k)) /\ ~AnswerMessage(w) /\ (HandlerSteps(w) => RecordSent(w))
    BY DEF Receive, AnswerMessage, HandlerSteps, Validate, CheckRecipient, Acquire, MarkSending,
       SendAccepted, SendTransient, SendRefused, RecordFailed, EndLoop, Count, Complete, GiveUp,
       EndGiveUp, CountGivenUp, CompleteGivenUp, PublishDLQ
  <1> QED
    BY <1>2, <1>3, <1>4, OneActs DEF Acts, Still

\* What is recorded, or about to be, did happen.
LEMMA RecordedStep ==
    ASSUME Typed, RecordedIsTrue, [Next]_vars
    PROVE  RecordedIsTrue'
  <1>1. ASSUME NEW w \in Workers, pc'[w] = "recordSent" PROVE accepted'[cur'[w]] > 0
    <2>1. CASE pc[w] = "recordSent" /\ cur'[w] = cur[w]
      <3>1. cur[w] \in Recipients /\ accepted[cur[w]] > 0
        BY <2>1 DEF RecordedIsTrue, Typed, TypeOK, Unrecorded
      <3> QED
        BY <2>1, <3>1, HistoryGrows
    <2> QED
      BY <1>1, <2>1, CursorMoves DEF Unrecorded
  <1>2. ASSUME NEW r \in Recipients, Terminal(recipient'[r]) PROVE accepted'[r] > 0
    BY <1>2, RowsMove, HistoryGrows DEF RecordedIsTrue
  <1> QED
    BY <1>1, <1>2 DEF RecordedIsTrue

\* What a worker at its cursor knows holds in spite of the others, and no acceptance
\* is lost without doubt.
LEMMA MailStep == MailInv /\ [Next]_vars => MailInv'
  <1> SUFFICES ASSUME MailInv, [Next]_vars PROVE MailInv'
    OBVIOUS
  <1> USE DEF MailInv
  <1>1. Typed'
    BY TypedStep
  <1>2. OneHolder'
    BY OneHolderStep
  <1>3. Apart' /\ RowsThere'
    BY HistoryGrows, RowsMove DEF Apart, RowsThere, Typed, TypeOK
  <1>4. AcceptanceKnown'
    <2> SUFFICES ASSUME NEW r \in Recipients \ ambiguous', accepted'[r] > 0,
                        ~Terminal(recipient'[r])
                 PROVE  \E w \in Workers : pc'[w] = "recordSent" /\ cur'[w] = r
      BY DEF AcceptanceKnown
    <2>1. r \notin ambiguous /\ ~Terminal(recipient[r])
      BY HistoryGrows, RowsMove
    <2>2. CASE accepted[r] > 0
      <3>1. PICK w \in Workers : pc[w] = "recordSent" /\ cur[w] = r
        BY <2>1, <2>2 DEF AcceptanceKnown
      <3> QED
        BY <3>1, AcceptanceIsKept
    <2>3. CASE ~(accepted[r] > 0)
      BY <2>3, Acceptances DEF Typed, TypeOK
    <2> QED
      BY <2>2, <2>3
  <1>5. NotAcceptedYet'
    <2> SUFFICES ASSUME NEW w \in Workers, pc'[w] \in {"acquire", "markSending", "send"},
                        cur'[w] \notin ambiguous'
                 PROVE  accepted'[cur'[w]] = 0
      BY DEF NotAcceptedYet
    <2>1. cur'[w] \notin ambiguous
      BY HistoryGrows
    <2>2. CASE /\ pc[w] = "loop" /\ cur'[w] \in todo[w]
               /\ ~Terminal(recipient[cur'[w]]) /\ UNCHANGED accepted
      <3>1. cur'[w] \in Recipients /\ AtHand(w, cur'[w])
        BY <2>2 DEF Typed, TypeOK, AtHand
      <3>2. \A v \in Workers : ~(pc[v] = "recordSent" /\ cur[v] = cur'[w])
        BY <2>1, <2>2, <3>1 DEF OneHolder, AtHand, Unrecorded
      <3> QED
        BY <2>1, <2>2, <3>1, <3>2 DEF AcceptanceKnown, Typed, TypeOK
    <2>3. CASE pc[w] \in {"acquire", "markSending"} /\ cur'[w] = cur[w] /\ UNCHANGED accepted
      BY <2>1, <2>3 DEF NotAcceptedYet
    <2>4. CASE pc'[w] = pc[w] /\ cur'[w] = cur[w]
      <3>1. accepted[cur[w]] = 0 /\ cur[w] \in Recipients /\ AtHand(w, cur[w])
        BY <2>1, <2>4 DEF NotAcceptedYet, Typed, TypeOK, Unrecorded, AtHand
      <3>2. \A v \in Workers : pc[v] = "send" /\ cur[v] = cur[w] => v = w
        BY <2>1, <2>4, <3>1 DEF OneHolder, AtHand, Unrecorded
      <3>3. CASE UNCHANGED accepted
        BY <2>4, <3>1, <3>3
      <3>4. ASSUME NEW v \in Workers, pc[v] = "send", cur[v] \in Recipients,
                   accepted' = [accepted EXCEPT ![cur[v]] = @ + 1],
                   cur[v] \in ambiguous' \/ (pc'[v] = "recordSent" /\ cur'[v] = cur[v])
            PROVE  accepted'[cur'[w]] = 0
        <4>1. cur[v] # cur[w]
          BY <2>4, <3>2, <3>4
        <4> QED
          BY <2>4, <3>1, <3>4, <4>1 DEF Typed, TypeOK
      <3> QED
        BY <3>3, <3>4, Acceptances
    <2> QED
      BY <2>2, <2>3, <2>4, CursorMoves DEF Unrecorded
  <1>6. RecordedIsTrue'
    BY RecordedStep
  <1> QED
    BY <1>1, <1>2, <1>3, <1>4, <1>5, <1>6

\* It holds of a campaign just started, when its chunks are apart.
LEMMA MailInit == ChunksApart /\ Init => MailInv
  <1> SUFFICES ASSUME ChunksApart, Init PROVE MailInv
    OBVIOUS
  <1>1. Typed
    BY TypedInit
  <1>2. Apart
    BY DEF Init, ChunksApart, Apart
  <1>3. RowsThere
    BY <1>1 DEF Init, RowsThere, Typed, TypeOK
  <1>4. OneHolder /\ NotAcceptedYet
    BY DEF Init, Idle, OneHolder, NotAcceptedYet, AtHand, Unrecorded
  <1>5. AcceptanceKnown /\ RecordedIsTrue
    BY <1>1 DEF Init, Idle, NothingSent, AcceptanceKnown, RecordedIsTrue, Terminal, Typed, TypeOK
  <1> QED
    BY <1>1, <1>2, <1>3, <1>4, <1>5 DEF MailInv

\* The invariant of the mailing holds throughout.
LEMMA Mailing == ChunksApart /\ Spec => []MailInv
  BY MailInit, MailStep, PTL DEF Spec

-----------------------------------------------------------------------------
(***************************************************************************)
(* The worker is a mailer                                                  *)
(***************************************************************************)
\* What Mailer sees as the status of the emails, for a given table of rows.
StatusOf(rows) == [r \in Recipients |-> IF Terminal(rows[r]) THEN rows[r] ELSE "open"]

\* Every step of the consumer is one of Mailer, in which doubt may grow.
LEMMA MailerStep == MailInv /\ [Next]_vars => Mail!Next
  <1> SUFFICES ASSUME MailInv, [Next]_vars PROVE Mail!Next
    OBVIOUS
  <1> USE DEF MailInv
  <1>1. ambiguous \subseteq ambiguous'
    BY HistoryGrows
  <1>2. CASE UNCHANGED accepted /\ StatusOf(recipient') = StatusOf(recipient)
    BY <1>1, <1>2 DEF Mail!Next, StatusOf
  <1>3. ASSUME NEW w \in Workers, pc[w] = "send", cur[w] \in Recipients,
               accepted' = [accepted EXCEPT ![cur[w]] = @ + 1], UNCHANGED recipient
        PROVE  Mail!Next
    <2>1. Mail!Accept(cur[w])
      BY <1>3 DEF Mail!Accept, NotAcceptedYet
    <2> QED
      BY <1>1, <1>3, <2>1 DEF Mail!Next
  <1>4. ASSUME NEW r \in Recipients,
               NEW t \in {MarkedSending(recipient[r]), MarkedFailed(recipient[r])}, MarkRecipient(r, t)
        PROVE  StatusOf(recipient') = StatusOf(recipient)
    <2>1. recipient[r] \in RecipientStates
      BY DEF Typed, TypeOK
    <2>2. IF Terminal(t) THEN t = recipient[r] ELSE ~Terminal(recipient[r])
      BY <2>1, RecipientFacts
    <2> QED
      BY <1>4, <2>2 DEF MarkRecipient, StatusOf, Typed, TypeOK
  <1>5. ASSUME NEW w \in Workers, RecordSent(w), cur[w] \in Recipients,
               MarkRecipient(cur[w], MarkedSent(recipient[cur[w]]))
        PROVE  Mail!Next
    <2>1. accepted[cur[w]] > 0 /\ UNCHANGED accepted
      BY <1>5 DEF RecordSent, RecordedIsTrue
    <2>2. CASE Terminal(recipient[cur[w]])
      <3>1. StatusOf(recipient') = StatusOf(recipient)
        <4>1. MarkedSent(recipient[cur[w]]) = recipient[cur[w]]
          BY <2>2 DEF MarkedSent, Terminal
        <4>2. recipient' = recipient
          BY <1>5, <4>1 DEF MarkRecipient, Typed, TypeOK
        <4> QED
          BY <4>2
      <3> QED
        BY <1>2, <2>1, <3>1
    <2>3. CASE ~Terminal(recipient[cur[w]])
      <3>1. MarkedSent(recipient[cur[w]]) = "sent"
        BY <1>5, <2>3 DEF MarkedSent, Terminal, RowsThere, Typed, Placed, TypeOK, RecordSent, AtRecipient, Unrecorded
      <3>2. /\ StatusOf(recipient') = [StatusOf(recipient) EXCEPT ![cur[w]] = "sent"]
            /\ StatusOf(recipient)[cur[w]] = "open"
        BY <1>5, <2>3, <3>1 DEF MarkRecipient, StatusOf, Terminal, Typed, TypeOK
      <3>3. PICK r \in Recipients : r = cur[w]
        BY <1>5
      <3>4. Mail!Record(r)
        BY <2>1, <3>2, <3>3 DEF Mail!Record, StatusOf
      <3> QED
        BY <1>1, <3>4 DEF Mail!Next
    <2> QED
      BY <2>2, <2>3
  <1>6. ASSUME NEW r \in Recipients, Bounce(r) PROVE Mail!Next
    <2>1. StatusOf(recipient') = [StatusOf(recipient) EXCEPT ![r] = "bounced"]
      BY <1>6 DEF Bounce, MarkRecipient, StatusOf, Terminal, Typed, TypeOK
    <2>2. Mail!Bounce(r)
      BY <1>6, <2>1 DEF Bounce, Mail!Bounce, StatusOf, sesVars
    <2> QED
      BY <1>1, <2>2 DEF Mail!Next
  <1>7. CASE UNCHANGED accepted
    <2>1. CASE UNCHANGED recipient
      BY <1>2, <1>7, <2>1
    <2>2. ASSUME NEW r \in Recipients,
                 \E t \in {MarkedSending(recipient[r]), MarkedFailed(recipient[r])} : MarkRecipient(r, t)
          PROVE  Mail!Next
      BY <1>2, <1>4, <1>7, <2>2
    <2> QED
      BY <1>5, <1>6, <2>1, <2>2, RowSteps
  <1>8. Typed
    OBVIOUS
  <1> QED
    BY <1>3, <1>7, <1>8, Acceptances

\* For the recipients of its chunks the consumer is a mailer, however deliveries
\* overlap, when no recipient is in two chunks (handler.go:604-713).
THEOREM IsMailer == ChunksApart /\ Spec => ImplementsMailer
  <1>1. Init => Mail!Init
    <2> SUFFICES ASSUME Init PROVE Mail!Init
      OBVIOUS
    <2>1. \A r \in Recipients : ~Terminal(recipient[r])
      BY DEF Init, Terminal
    <2> QED
      BY <2>1 DEF Init, NothingSent, Mail!Init
  <1>2. MailInv /\ [Next]_vars => [Mail!Next]_(Mail!vars)
    BY MailerStep
  <1> QED
    BY <1>1, <1>2, Mailing, PTL DEF Spec, ImplementsMailer, Mail!Spec

-----------------------------------------------------------------------------
(***************************************************************************)
(* What answers mean                                                       *)
(***************************************************************************)
\* SES accepted the email of r, or refused it for good.
Decided(r) == accepted[r] > 0 \/ r \in refused
AllDecided(k) == \A r \in payload[k] : Decided(r)

BeforeDisposal == Looping \cup {"count", "complete"}
GivingUp == {"giveUp", "countGivenUp", "completeGivenUp", "publishDLQ"}

\* A recipient of the chunk is still to do, at hand, for the next delivery, or decided.
Accounted(w) ==
    pc[w] \in BeforeDisposal => \A r \in payload[job[w]] :
        r \in todo[w] \cup retry[w] \/ (pc[w] \in AtRecipient /\ cur[w] = r) \/ Decided(r)

\* Each verdict has its reason.
VerdictJustified(w) ==
    /\ verdict[w] # "nak" => pc[w] = "answer"
    /\ verdict[w] = "ack" => AllDecided(job[w])
    /\ verdict[w] = "term" => job[w] \in Malformed \/ attempt[w] >= MaxAttempts
    /\ pc[w] \in GivingUp => attempt[w] >= MaxAttempts

\* The attempt is one the message counted.
Counts(w) == pc[w] # "idle" => attempt[w] <= chunkMsg[job[w]].n

Own(w) == /\ Accounted(w) /\ VerdictJustified(w) /\ Counts(w)
          /\ pc[w] = "recordFailed" => cur[w] \in refused

AnswerInv == Typed /\ RecordedIsTrue /\ (\A w \in Workers : Own(w)) /\ SettledIsJustified

\* A message's count only grows, and it is settled by the answer of a worker.
LEMMA MessagesMove ==
    ASSUME Typed, [Next]_vars, NEW k \in Chunks
    PROVE  /\ chunkMsg'[k].n \in Nat /\ chunkMsg[k].n \in Nat /\ chunkMsg'[k].n >= chunkMsg[k].n
           /\ \A st \in {"acked", "termed"} : chunkMsg'[k].st = st =>
                 \/ chunkMsg[k].st = st
                 \/ \E w \in Workers : /\ AnswerMessage(w) /\ job[w] = k
                                       /\ verdict[w] = (IF st = "acked" THEN "ack" ELSE "term")
  <1>1. chunkMsg \in [Chunks -> Msgs] /\ chunkMsg[k] \in Msgs
    BY DEF Typed, TypeOK
  <1>2. CASE UNCHANGED chunkMsg
    BY <1>1, <1>2 DEF Msgs
  <1>3. ASSUME NEW w \in Workers, NEW l \in Chunks, Receive(w, l)
        PROVE  /\ chunkMsg'[k].n \in Nat /\ chunkMsg[k].n \in Nat /\ chunkMsg'[k].n >= chunkMsg[k].n
               /\ chunkMsg'[k].st \in {chunkMsg[k].st, "pending"}
    BY <1>1, <1>3, DeliveredFacts DEF Receive, Msgs
  <1>4. ASSUME NEW l \in Chunks, Expire(l)
        PROVE  /\ chunkMsg'[k].n = chunkMsg[k].n /\ chunkMsg[k].n \in Nat
               /\ \A st \in {"acked", "termed"} : chunkMsg'[k].st = st => chunkMsg[k].st = st
    BY <1>1, <1>4, RequeuedFacts DEF Expire, Msgs
  <1>5. ASSUME NEW w \in Workers, AnswerMessage(w)
        PROVE  /\ chunkMsg'[k].n = chunkMsg[k].n /\ chunkMsg[k].n \in Nat
               /\ \A st \in {"acked", "termed"} : chunkMsg'[k].st = st =>
                     \/ chunkMsg[k].st = st
                     \/ job[w] = k /\ verdict[w] = (IF st = "acked" THEN "ack" ELSE "term")
    <2>1. job[w] \in Chunks /\ verdict[w] \in Verdicts
          /\ chunkMsg' = [chunkMsg EXCEPT ![job[w]] = Answered(@, verdict[w], MaxAttempts)]
      BY <1>5 DEF AnswerMessage, Typed, TypeOK
    <2>2. CASE job[w] = k
      BY <1>1, <2>1, <2>2, AnsweredFacts DEF Msgs
    <2>3. CASE job[w] # k
      BY <1>1, <2>1, <2>3 DEF Msgs
    <2> QED
      BY <2>2, <2>3
  <1>6. \/ UNCHANGED chunkMsg
        \/ \E w \in Workers, l \in Chunks : Receive(w, l)
        \/ \E w \in Workers : AnswerMessage(w)
        \/ \E l \in Chunks : Expire(l)
    BY Steps, OthersStay DEF Crash, Bounce, vars
  <1> QED
    BY <1>2, <1>3, <1>4, <1>5, <1>6

\* The end of the loop decides: no recipient is left, and who is not for the next
\* delivery is decided.
LEMMA DisposeJustified ==
    ASSUME Typed, NEW w \in Workers, Dispose(w), pc[w] \in BeforeDisposal \ AtRecipient, todo[w] = {},
           Own(w), UNCHANGED <<accepted, refused, payload, chunkMsg>>
    PROVE  Own(w)'
  <1> USE DEF Typed, TypeOK
  <1>1. attempt[w] \in Nat /\ MaxAttempts \in Nat
    BY MaxAttemptsAssumption
  <1>2. CASE retry[w] = {} /\ Answer(w, "ack")
    <2>1. AllDecided(job[w])
      BY <1>2 DEF Own, Accounted, AllDecided
    <2> QED
      BY <1>2, <2>1 DEF Answer, Own, Accounted, VerdictJustified, Counts, AllDecided, Decided,
         BeforeDisposal, Looping, AtRecipient, Unrecorded, GivingUp
  <1>3. CASE Answer(w, "nak")
    BY <1>3 DEF Answer, Own, Accounted, VerdictJustified, Counts,
       BeforeDisposal, Looping, AtRecipient, Unrecorded, GivingUp
  <1>4. CASE /\ ~(attempt[w] < MaxAttempts)
             /\ pc' = [pc EXCEPT ![w] = "giveUp"]
             /\ UNCHANGED <<job, attempt, todo, cur, retry, verdict>>
    BY <1>1, <1>4 DEF Own, Accounted, VerdictJustified, Counts,
       BeforeDisposal, Looping, AtRecipient, Unrecorded, GivingUp
  <1> QED
    BY <1>2, <1>3, <1>4 DEF Dispose

\* A worker that does nothing stays justified.
LEMMA OwnStays ==
    ASSUME Typed, [Next]_vars, NEW w \in Workers, Own(w), Still(w)
    PROVE  Own(w)'
  <1>1. \A r \in Recipients : Decided(r) => Decided(r)'
    BY HistoryGrows DEF Decided
  <1>2. payload' = payload /\ refused \subseteq refused' /\ payload \in [Chunks -> SUBSET Recipients]
    BY HistoryGrows DEF Typed, TypeOK
  <1>3. pc[w] # "idle" => job[w] \in Chunks
    BY DEF Typed, TypeOK
  <1>4. Accounted(w)'
    BY <1>1, <1>2, <1>3 DEF Own, Still, Accounted, BeforeDisposal, Looping, AtRecipient, Unrecorded
  <1>5. VerdictJustified(w)'
    BY <1>1, <1>2, <1>3 DEF Own, Still, VerdictJustified, AllDecided
  <1>6. Counts(w)'
    <2>1. attempt[w] \in Nat
      BY DEF Typed, TypeOK
    <2> QED
      BY <1>3, <2>1, MessagesMove DEF Own, Still, Counts
  <1> QED
    BY <1>2, <1>4, <1>5, <1>6 DEF Own, Still

\* A worker's own step leaves it justified.
LEMMA OwnMoves ==
    ASSUME Typed, RecordedIsTrue, [Next]_vars, NEW w \in Workers, Own(w), Acts(w)
    PROVE  Own(w)'
  <1> USE DEF Typed, TypeOK
  <1> DEFINE Why == /\ Accounted(w) /\ VerdictJustified(w) /\ Counts(w)
                    /\ pc[w] = "recordFailed" => cur[w] \in refused
  <1>1. Why
    BY DEF Own
  <1>2. /\ \A r \in Recipients : Decided(r) => Decided(r)'
        /\ payload' = payload /\ refused \subseteq refused'
    BY HistoryGrows DEF Decided
  <1>3. ASSUME NEW k \in Chunks, Receive(w, k) PROVE Own(w)'
    <2>1. chunkMsg[k].n + 1 = chunkMsg'[k].n /\ chunkMsg[k].n \in Nat
      BY <1>3, DeliveredFacts DEF Receive, Msgs
    <2> QED
      BY <1>1, <1>2, <1>3, <2>1 DEF Receive, Own, Accounted, VerdictJustified, Counts,
         BeforeDisposal, Looping, AtRecipient, Unrecorded, GivingUp
  <1>4. CASE Release(w)
    BY <1>4 DEF Release, Own, Accounted, VerdictJustified, Counts,
       BeforeDisposal, Looping, AtRecipient, Unrecorded, GivingUp
  <1>5. CASE Validate(w)
    BY <1>1, <1>2, <1>5 DEF Validate, Goto, Own, Accounted, VerdictJustified, Counts,
       BeforeDisposal, Looping, AtRecipient, Unrecorded, GivingUp
  <1>6. ASSUME NEW r \in Recipients, CheckRecipient(w, r) PROVE Own(w)'
    <2>1. Terminal(recipient[r]) => Decided(r)
      BY DEF RecordedIsTrue, Decided
    <2>2. Counts(w)' /\ VerdictJustified(w)' /\ pc'[w] # "recordFailed"
      BY <1>1, <1>6 DEF CheckRecipient, TransientOutcome, Duplicate,
         VerdictJustified, Counts, GivingUp
    <2>3. Accounted(w)'
      BY <1>1, <1>2, <1>6, <2>1 DEF CheckRecipient, TransientOutcome, Duplicate,
         Accounted, BeforeDisposal, Looping, AtRecipient, Unrecorded
    <2> QED
      BY <2>2, <2>3 DEF Own
  <1>7. CASE Acquire(w) \/ MarkSending(w)
    <2>1. Counts(w)' /\ VerdictJustified(w)' /\ pc'[w] # "recordFailed"
      BY <1>1, <1>7 DEF Acquire, MarkSending, Goto, TransientOutcome,
         VerdictJustified, Counts, GivingUp
    <2>2. Accounted(w)'
      BY <1>1, <1>2, <1>7 DEF Acquire, MarkSending, Goto, TransientOutcome,
         Accounted, BeforeDisposal, Looping, AtRecipient, Unrecorded
    <2> QED
      BY <2>1, <2>2 DEF Own
  <1>8. CASE SendAccepted(w) \/ SendTransient(w) \/ SendRefused(w)
    <2>1. /\ Counts(w)' /\ VerdictJustified(w)'
          /\ pc'[w] = "recordFailed" => cur'[w] \in refused'
      BY <1>1, <1>8 DEF SendAccepted, SendTransient, SendRefused, Goto, TransientOutcome,
         VerdictJustified, Counts, GivingUp
    <2>2. Accounted(w)'
      BY <1>1, <1>2, <1>8 DEF SendAccepted, SendTransient, SendRefused, Goto, TransientOutcome,
         Accounted, BeforeDisposal, Looping, AtRecipient, Unrecorded
    <2> QED
      BY <2>1, <2>2 DEF Own
  <1>9. CASE RecordSent(w) \/ RecordFailed(w)
    <2>1. Decided(cur[w])
      BY <1>1, <1>9 DEF RecordSent, RecordFailed, RecordedIsTrue, Decided
    <2>2. Counts(w)' /\ VerdictJustified(w)' /\ pc'[w] # "recordFailed"
      BY <1>1, <1>9 DEF RecordSent, RecordFailed, FreshOutcome, VerdictJustified, Counts, GivingUp
    <2>3. Accounted(w)'
      BY <1>1, <1>2, <1>9, <2>1 DEF RecordSent, RecordFailed, FreshOutcome,
         Accounted, BeforeDisposal, Looping, AtRecipient, Unrecorded
    <2> QED
      BY <2>2, <2>3 DEF Own
  <1>10. CASE EndLoop(w) \/ Count(w) \/ Complete(w)
    <2>1. /\ UNCHANGED <<accepted, refused, payload, chunkMsg>> /\ todo[w] = {}
          /\ pc[w] \in BeforeDisposal \ AtRecipient
          /\ Dispose(w) \/ Goto(w, "count") \/ Goto(w, "complete") \/ Answer(w, "nak")
      BY <1>10 DEF EndLoop, Count, Complete, sesVars, given, Placed,
         BeforeDisposal, Looping, AtRecipient, Unrecorded
    <2>2. CASE Goto(w, "count") \/ Goto(w, "complete") \/ Answer(w, "nak")
      BY <1>1, <1>2, <2>1, <2>2 DEF Goto, Answer, Own, Accounted, VerdictJustified, Counts,
         BeforeDisposal, Looping, AtRecipient, Unrecorded, GivingUp
    <2> QED
      BY <2>1, <2>2, DisposeJustified
  <1>11. CASE \/ \E r \in Recipients : GiveUp(w, r)
              \/ EndGiveUp(w) \/ CountGivenUp(w) \/ CompleteGivenUp(w) \/ PublishDLQ(w)
    <2>1. /\ pc[w] \in GivingUp /\ UNCHANGED <<job, attempt, chunkMsg>>
          /\ \/ pc'[w] \in GivingUp /\ verdict' = verdict
             \/ pc'[w] = "answer" /\ verdict'[w] = "term"
      BY <1>11 DEF GiveUp, EndGiveUp, CountGivenUp, CompleteGivenUp, PublishDLQ, Goto, Answer, GivingUp
    <2> QED
      BY <1>1, <2>1 DEF Own, Accounted, VerdictJustified, Counts,
         BeforeDisposal, Looping, AtRecipient, Unrecorded, GivingUp
  <1> QED
    BY <1>3, <1>4, <1>5, <1>6, <1>7, <1>8, <1>9, <1>10, <1>11 DEF Acts, HandlerSteps, AnswerMessage, Crash

\* Dead letters are published, and failures told, with a reason.
LEMMA PublishedFor ==
    ASSUME Typed, [Next]_vars, \A w \in Workers : Own(w)
    PROVE  /\ \A k \in dlq' \ dlq : \E w \in Workers : job[w] = k /\ pc[w] \in GivingUp
           /\ \A r \in Recipients : <<r, "failed">> \in events' \ events =>
                 r \in refused \/ \E w \in Workers : r \in payload[job[w]] /\ pc[w] \in GivingUp
  <1> USE DEF Typed, TypeOK
  <1>1. CASE UNCHANGED pubVars
    BY <1>1 DEF pubVars
  <1>2. ASSUME NEW w \in Workers, RecordSent(w)
        PROVE  dlq' = dlq /\ \A r \in Recipients : <<r, "failed">> \notin events' \ events
    BY <1>2 DEF RecordSent, MayPublishEvent
  <1>3. ASSUME NEW w \in Workers, RecordFailed(w)
        PROVE  dlq' = dlq /\ \A r \in Recipients : <<r, "failed">> \in events' \ events => r \in refused
    BY <1>3 DEF RecordFailed, MayPublishEvent, Own
  <1>4. ASSUME NEW w \in Workers, NEW q \in Recipients, GiveUp(w, q)
        PROVE  /\ dlq' = dlq /\ pc[w] \in GivingUp
               /\ \A r \in Recipients : <<r, "failed">> \in events' \ events => r \in payload[job[w]]
    BY <1>4 DEF GiveUp, MayPublishEvent, GivingUp, Placed
  <1>5. ASSUME NEW w \in Workers, PublishDLQ(w)
        PROVE  events' = events /\ pc[w] \in GivingUp /\ \A k \in dlq' \ dlq : job[w] = k
    BY <1>5 DEF PublishDLQ, GivingUp
  <1>6. ASSUME NEW w \in Workers, HandlerSteps(w)
        PROVE  \/ UNCHANGED pubVars \/ RecordSent(w) \/ RecordFailed(w) \/ PublishDLQ(w)
               \/ \E r \in Recipients : GiveUp(w, r)
    BY <1>6 DEF HandlerSteps, Validate, CheckRecipient, Acquire, MarkSending, SendAccepted, SendTransient,
       SendRefused, EndLoop, Count, Complete, EndGiveUp, CountGivenUp, CompleteGivenUp, pubVars
  <1>7. ~(\E w \in Workers : HandlerSteps(w)) => UNCHANGED pubVars
    BY Steps DEF Receive, AnswerMessage, Crash, Expire, Bounce, vars, pubVars
  <1> QED
    BY <1>1, <1>2, <1>3, <1>4, <1>5, <1>6, <1>7

\* Every answer, dead letter and failure told stays justified.
LEMMA AnswerStep == AnswerInv /\ [Next]_vars => AnswerInv'
  <1> SUFFICES ASSUME AnswerInv, [Next]_vars PROVE AnswerInv'
    OBVIOUS
  <1> USE DEF AnswerInv
  <1>1. Typed' /\ RecordedIsTrue'
    BY TypedStep, RecordedStep
  <1>2. \A w \in Workers : Own(w)'
    BY OneActs, OwnStays, OwnMoves
  <1>3. /\ payload' = payload /\ payload \in [Chunks -> SUBSET Recipients] /\ refused \subseteq refused'
        /\ \A r \in Recipients : Decided(r) => Decided(r)'
        /\ \A k \in Chunks : chunkMsg'[k].n \in Nat /\ chunkMsg[k].n \in Nat /\ chunkMsg'[k].n >= chunkMsg[k].n
        /\ MaxAttempts \in Nat
    BY HistoryGrows, MessagesMove, MaxAttemptsAssumption DEF Decided, Typed, TypeOK
  <1>4. \A w \in Workers : pc[w] # "idle" =>
           job[w] \in Chunks /\ attempt[w] \in Nat /\ attempt[w] <= chunkMsg[job[w]].n
    BY DEF Own, Counts, Typed, TypeOK
  <1>5. ASSUME NEW k \in Chunks, chunkMsg'[k].st = "acked", NEW r \in payload[k]
        PROVE  Decided(r)'
    <2>1. chunkMsg[k].st = "acked" \/ \E w \in Workers : job[w] = k /\ verdict[w] = "ack"
      BY <1>5, MessagesMove
    <2>2. Decided(r)
      BY <2>1 DEF SettledIsJustified, Own, VerdictJustified, AllDecided, Decided
    <2> QED
      BY <1>3, <2>2
  <1>6. ASSUME NEW k \in Chunks \ Malformed, chunkMsg'[k].st = "termed" \/ k \in dlq'
        PROVE  chunkMsg'[k].n >= MaxAttempts
    <2>1. CASE chunkMsg[k].st = "termed" \/ k \in dlq
      BY <1>3, <2>1 DEF SettledIsJustified
    <2>2. CASE ~(chunkMsg[k].st = "termed" \/ k \in dlq)
      <3>1. PICK w \in Workers : /\ job[w] = k /\ pc[w] # "idle"
                                 /\ verdict[w] = "term" \/ pc[w] \in GivingUp
        <4>1. CASE chunkMsg'[k].st = "termed"
          <5>1. \E w \in Workers : AnswerMessage(w) /\ job[w] = k /\ verdict[w] = "term"
            BY <2>2, <4>1, MessagesMove
          <5> QED
            BY <5>1 DEF AnswerMessage
        <4>2. CASE k \in dlq'
          <5>1. k \in dlq' \ dlq
            BY <2>2, <4>2
          <5> QED
            BY <5>1, PublishedFor DEF GivingUp
        <4> QED
          BY <1>6, <4>1, <4>2
      <3>2. attempt[w] >= MaxAttempts
        BY <3>1 DEF Own, VerdictJustified
      <3> QED
        BY <1>3, <1>4, <3>1, <3>2
    <2> QED
      BY <2>1, <2>2
  <1>7. ASSUME NEW r \in Recipients \ refused', <<r, "failed">> \in events'
        PROVE  \E k \in Chunks : r \in payload'[k] /\ chunkMsg'[k].n >= MaxAttempts
    <2>1. CASE <<r, "failed">> \in events
      BY <1>3, <1>7, <2>1 DEF SettledIsJustified
    <2>2. CASE <<r, "failed">> \notin events
      <3>1. PICK w \in Workers : r \in payload[job[w]] /\ pc[w] \in GivingUp
        BY <1>3, <1>7, <2>2, PublishedFor
      <3>2. attempt[w] >= MaxAttempts /\ pc[w] # "idle"
        BY <3>1 DEF Own, VerdictJustified, GivingUp
      <3> QED
        BY <1>3, <1>4, <3>1, <3>2
    <2> QED
      BY <2>1, <2>2
  <1>8. SettledIsJustified'
    <2>1. \A k \in Chunks : chunkMsg'[k].st = "acked" => \A r \in payload'[k] : accepted'[r] > 0 \/ r \in refused'
      BY <1>3, <1>5 DEF Decided
    <2> QED
      BY <1>6, <1>7, <2>1 DEF SettledIsJustified
  <1> QED
    BY <1>1, <1>2, <1>8

\* It holds of a campaign just started.
LEMMA AnswerInit == Init => AnswerInv
  <1> SUFFICES ASSUME Init PROVE AnswerInv
    OBVIOUS
  <1>1. Typed
    BY TypedInit
  <1>2. RecordedIsTrue
    BY DEF Init, Idle, RecordedIsTrue, Terminal
  <1>3. \A w \in Workers : Own(w)
    BY DEF Init, Idle, Own, Accounted, VerdictJustified, Counts,
       BeforeDisposal, Looping, AtRecipient, Unrecorded, GivingUp
  <1>4. SettledIsJustified
    BY DEF Init, NothingSent, NewMsg, NoMsg, SettledIsJustified
  <1> QED
    BY <1>1, <1>2, <1>3, <1>4 DEF AnswerInv

\* However deliveries overlap and calls fail, a chunk is acked only when each of its
\* recipients was accepted or refused, and given up only at its last delivery
\* (handler.go:557-597).
THEOREM AnswersAreJustified == Spec => []SettledIsJustified
  <1>1. AnswerInv => SettledIsJustified
    BY DEF AnswerInv
  <1> QED
    BY <1>1, AnswerInit, AnswerStep, PTL DEF Spec

-----------------------------------------------------------------------------
(***************************************************************************)
(* What the rest of the pipeline sees of a step                            *)
(***************************************************************************)
\* No message appears or disappears.
LEMMA MessagesStay ==
    ASSUME Typed, [Next]_vars, NEW k \in Chunks
    PROVE  /\ chunkMsg'[k].st = "absent" <=> chunkMsg[k].st = "absent"
           /\ chunkMsg[k].st = "absent" => chunkMsg'[k] = chunkMsg[k]
  <1>1. chunkMsg \in [Chunks -> Msgs]
    BY DEF Typed, TypeOK
  <1>2. ASSUME NEW m \in Msgs, NEW v \in Verdicts
        PROVE  /\ Requeued(m, MaxAttempts).st = "absent" <=> m.st = "absent"
               /\ Answered(m, v, MaxAttempts).st = "absent" <=> m.st = "absent"
               /\ m.st = "absent" => Requeued(m, MaxAttempts) = m /\ Answered(m, v, MaxAttempts) = m
    <2>1. /\ Requeued(m, MaxAttempts).st = "absent" <=> m.st = "absent"
          /\ m.st = "absent" => Requeued(m, MaxAttempts) = m
      BY DEF Requeued, Msgs
    <2>2. ASSUME NEW st \in {"acked", "termed"}
          PROVE  /\ Ended(m, st).st = "absent" <=> m.st = "absent"
                 /\ m.st = "absent" => Ended(m, st) = m
      BY DEF Ended, Msgs
    <2>3. Answered(m, v, MaxAttempts) \in {Requeued(m, MaxAttempts), Ended(m, "acked"), Ended(m, "termed")}
      BY DEF Answered, Verdicts
    <2> QED
      BY <2>1, <2>2, <2>3
  <1>3. ASSUME NEW w \in Workers, NEW l \in Chunks, Receive(w, l)
        PROVE  chunkMsg[l].st = "queued" /\ chunkMsg' = [chunkMsg EXCEPT ![l] = Delivered(@)]
    BY <1>3 DEF Receive, Deliverable
  <1>4. ASSUME NEW m \in Msgs PROVE Delivered(m).st # "absent"
    BY DEF Delivered
  <1>5. ASSUME NEW l \in Chunks, Expire(l)
        PROVE  chunkMsg' = [chunkMsg EXCEPT ![l] = Requeued(@, MaxAttempts)]
    BY <1>5 DEF Expire
  <1>6. ASSUME NEW w \in Workers, AnswerMessage(w)
        PROVE  /\ job[w] \in Chunks /\ verdict[w] \in Verdicts
               /\ chunkMsg' = [chunkMsg EXCEPT ![job[w]] = Answered(@, verdict[w], MaxAttempts)]
    BY <1>6 DEF AnswerMessage, Typed, TypeOK
  <1>7. \/ UNCHANGED chunkMsg
        \/ \E w \in Workers, l \in Chunks : Receive(w, l)
        \/ \E w \in Workers : AnswerMessage(w)
        \/ \E l \in Chunks : Expire(l)
    BY Steps, OthersStay DEF Crash, Bounce, vars
  <1>8. CASE \E w \in Workers, l \in Chunks : Receive(w, l)
    BY <1>1, <1>3, <1>4, <1>8
  <1>9. CASE \E l \in Chunks : Expire(l)
    <2>1. PICK l \in Chunks : Expire(l)
      BY <1>9
    <2>2. PICK v \in Verdicts : TRUE
      BY DEF Verdicts
    <2> QED
      BY <1>1, <1>2, <1>5, <2>1, <2>2
  <1>10. CASE \E w \in Workers : AnswerMessage(w)
    BY <1>1, <1>2, <1>6, <1>10
  <1> QED
    BY <1>7, <1>8, <1>9, <1>10

\* A worker's chunk was published.
Held == \A w \in Workers : pc[w] # "idle" => chunkMsg[job[w]].st # "absent"

\* It stays so: only published chunks are delivered.
LEMMA HeldStep == Typed /\ Held /\ [Next]_vars => Held'
  <1> SUFFICES ASSUME Typed, Held, [Next]_vars, NEW w \in Workers, pc'[w] # "idle"
               PROVE  chunkMsg'[job'[w]].st # "absent"
    BY DEF Held
  <1>1. CASE Still(w)
    BY <1>1, MessagesStay DEF Still, Held, Typed, TypeOK
  <1>2. CASE HandlerSteps(w)
    BY <1>2, OthersStay, MessagesStay DEF Held, Typed, TypeOK
  <1>3. ASSUME NEW k \in Chunks, Receive(w, k) PROVE chunkMsg'[job'[w]].st # "absent"
    <2>1. job'[w] = k /\ chunkMsg[k].st = "queued"
      BY <1>3 DEF Receive, Deliverable, Typed, TypeOK
    <2> QED
      BY <2>1, MessagesStay
  <1>4. CASE AnswerMessage(w) \/ Crash(w)
    BY <1>4 DEF AnswerMessage, Crash, Release, Typed, TypeOK
  <1> QED
    BY <1>1, <1>2, <1>3, <1>4, OneActs DEF Acts

\* The campaign's row is counted up or completed.
LEMMA CampaignMoves ==
    ASSUME Typed, [Next]_vars
    PROVE  \/ campaign' \in {campaign, CompletedIfCounted(campaign)}
           \/ \E n, m \in Nat : campaign' = Counted(campaign, n, m)
  <1>1. ASSUME NEW w \in Workers, HandlerSteps(w)
        PROVE  campaign' \in {campaign, CompletedIfCounted(campaign),
                              Counted(campaign, res[w].sent, res[w].failed),
                              Counted(campaign, 0, res[w].failed)}
    <2>1. CASE \/ Validate(w) \/ \E r \in Recipients : CheckRecipient(w, r)
               \/ Acquire(w) \/ MarkSending(w) \/ SendAccepted(w) \/ SendTransient(w) \/ SendRefused(w)
               \/ RecordSent(w) \/ RecordFailed(w) \/ EndLoop(w)
               \/ \E r \in Recipients : GiveUp(w, r)
               \/ EndGiveUp(w) \/ PublishDLQ(w)
      <3>1. campaign' = campaign
        BY <2>1 DEF Validate, CheckRecipient, Acquire, MarkSending, SendAccepted, SendTransient,
           SendRefused, RecordSent, RecordFailed, EndLoop, GiveUp, EndGiveUp, PublishDLQ, rowVars
      <3> QED
        BY <3>1
    <2>2. CASE Count(w) \/ Complete(w) \/ CountGivenUp(w) \/ CompleteGivenUp(w)
      BY <2>2, Zenon DEF Count, Complete, CountGivenUp, CompleteGivenUp, MayUpdateCampaign
    <2> QED
      BY <1>1, <2>1, <2>2 DEF HandlerSteps
  <1>2. \A w \in Workers : res[w].sent \in Nat /\ res[w].failed \in Nat
    BY DEF Typed, TypeOK, Results
  <1>3. CASE \E w \in Workers : HandlerSteps(w)
    <2>1. PICK w \in Workers : HandlerSteps(w)
      BY <1>3
    <2>2. CASE campaign' \in {campaign, CompletedIfCounted(campaign)}
      BY <2>2
    <2>3. CASE campaign' \in {Counted(campaign, res[w].sent, res[w].failed),
                              Counted(campaign, 0, res[w].failed)}
      BY <1>2, <2>3
    <2> QED
      BY <1>1, <2>1, <2>2, <2>3
  <1>4. CASE ~\E w \in Workers : HandlerSteps(w)
    BY <1>4, Steps DEF Receive, AnswerMessage, Crash, Expire, Bounce, vars, rowVars
  <1> QED
    BY <1>3, <1>4

\* A second email is accepted only where there is doubt.
LEMMA OnceStep == MailInv /\ AcceptedOnce /\ [Next]_vars => AcceptedOnce'
  <1> SUFFICES ASSUME MailInv, AcceptedOnce, [Next]_vars, NEW r \in Recipients, r \notin ambiguous'
               PROVE  accepted'[r] <= 1
    BY DEF AcceptedOnce
  <1>1. Typed /\ ambiguous \subseteq ambiguous'
    BY HistoryGrows DEF MailInv
  <1>2. accepted \in [Recipients -> Nat] /\ accepted[r] <= 1
    BY <1>1 DEF AcceptedOnce, Typed, TypeOK
  <1>3. ASSUME NEW w \in Workers, pc[w] = "send", cur[w] = r, cur[w] \notin ambiguous,
               accepted' = [accepted EXCEPT ![cur[w]] = @ + 1]
        PROVE  accepted'[r] <= 1
    <2>1. accepted[r] = 0
      BY <1>3 DEF MailInv, NotAcceptedYet
    <2> QED
      BY <1>2, <1>3, <2>1
  <1>4. ASSUME NEW w \in Workers, cur[w] # r, accepted' = [accepted EXCEPT ![cur[w]] = @ + 1]
        PROVE  accepted'[r] <= 1
    BY <1>2, <1>4
  <1> QED
    BY <1>1, <1>2, <1>3, <1>4, Acceptances

(***************************************************************************)
(* What the rest of the pipeline may do beside the handlers                *)
(***************************************************************************)
\* Rows are inserted, a chunk is published that was not, the campaign's row is
\* written; nothing else of the handlers' changes (batcher.go:99-239).
RowsInserted ==
    /\ recipient' \in [Recipients -> RecipientStates]
    /\ \A r \in Recipients : recipient'[r] = recipient[r] \/ (recipient[r] = "none" /\ recipient'[r] = "queued")

ChunkPublished(k, batch) ==
    /\ chunkMsg[k] = NoMsg /\ payload[k] = {}
    /\ chunkMsg' = [chunkMsg EXCEPT ![k] = NewMsg]
    /\ payload' = [payload EXCEPT ![k] = batch]

Beside ==
    /\ UNCHANGED <<faulty, workerVars, sesVars, pubVars>>
    /\ campaign' \in Campaigns
    /\ RowsInserted
    /\ \/ UNCHANGED <<chunkMsg, payload>>
       \/ \E k \in Chunks, batch \in SUBSET Recipients : ChunkPublished(k, batch)

\* A chunk a handler holds stays as it is, and so does every published one.
LEMMA PublishedStay ==
    ASSUME Typed, Held, Beside
    PROVE  /\ chunkMsg' \in [Chunks -> Msgs] /\ payload' \in [Chunks -> SUBSET Recipients]
           /\ \A k \in Chunks :
                 /\ payload[k] \subseteq payload'[k]
                 /\ chunkMsg[k].st # "absent" => chunkMsg'[k] = chunkMsg[k] /\ payload'[k] = payload[k]
                 /\ chunkMsg[k] = chunkMsg'[k] \/ (chunkMsg[k] = NoMsg /\ chunkMsg'[k] = NewMsg)
           /\ \A w \in Workers : pc[w] # "idle" =>
                 chunkMsg'[job[w]] = chunkMsg[job[w]] /\ payload'[job[w]] = payload[job[w]]
  <1> USE DEF Typed, TypeOK
  <1>1. NoMsg.st = "absent" /\ NewMsg \in Msgs
    BY DEF NoMsg, NewMsg, Msgs, MsgStates
  <1> DEFINE Stays ==
        /\ chunkMsg' \in [Chunks -> Msgs] /\ payload' \in [Chunks -> SUBSET Recipients]
        /\ \A k \in Chunks :
              /\ payload[k] \subseteq payload'[k]
              /\ chunkMsg[k].st # "absent" => chunkMsg'[k] = chunkMsg[k] /\ payload'[k] = payload[k]
              /\ chunkMsg[k] = chunkMsg'[k] \/ (chunkMsg[k] = NoMsg /\ chunkMsg'[k] = NewMsg)
  <1>2. Stays
    <2>1. CASE UNCHANGED <<chunkMsg, payload>>
      BY <2>1
    <2>2. ASSUME NEW l \in Chunks, NEW batch \in SUBSET Recipients, ChunkPublished(l, batch)
          PROVE  Stays
      BY <1>1, <2>2 DEF ChunkPublished
    <2> QED
      BY <2>1, <2>2 DEF Beside
  <1> QED
    BY <1>2 DEF Held

\* Every handler still has its own recipients at hand, of a published chunk.
LEMMA TypedBeside == Typed /\ Held /\ Beside => Typed' /\ Held'
  <1> SUFFICES ASSUME Typed, Held, Beside PROVE Typed' /\ Held'
    OBVIOUS
  <1>1. chunkMsg' \in [Chunks -> Msgs] /\ payload' \in [Chunks -> SUBSET Recipients]
    BY PublishedStay
  <1>2. UNCHANGED <<faulty, workerVars, sesVars, pubVars>> /\ campaign' \in Campaigns
        /\ recipient' \in [Recipients -> RecipientStates]
    BY DEF Beside, RowsInserted
  <1>3. TypeOK'
    BY <1>1, <1>2 DEF Typed, TypeOK, workerVars, sesVars, pubVars, Unrecorded
  <1>4. Placed'
    BY <1>2, PublishedStay DEF Typed, TypeOK, Placed, workerVars, AtRecipient, Looping, Unrecorded
  <1>5. Held'
    BY <1>2, PublishedStay DEF Held, workerVars
  <1> QED
    BY <1>3, <1>4, <1>5 DEF Typed

\* What is recorded, or about to be, still did happen.
LEMMA RecordedBeside == Typed /\ Held /\ RecordedIsTrue /\ Beside => RecordedIsTrue'
  BY DEF RecordedIsTrue, Beside, RowsInserted, Terminal, workerVars, sesVars

\* The answers stay justified.
LEMMA AnswerBeside == AnswerInv /\ Held /\ Beside => AnswerInv' /\ Held'
  <1> SUFFICES ASSUME AnswerInv, Held, Beside PROVE AnswerInv' /\ Held'
    OBVIOUS
  <1> USE DEF AnswerInv
  <1>1. Typed' /\ Held' /\ RecordedIsTrue'
    BY TypedBeside, RecordedBeside
  <1>2. UNCHANGED <<workerVars, sesVars, pubVars>>
    BY DEF Beside
  <1>3. ASSUME NEW w \in Workers PROVE Own(w)'
    <2>1. pc[w] # "idle" => chunkMsg'[job[w]] = chunkMsg[job[w]] /\ payload'[job[w]] = payload[job[w]]
      BY PublishedStay
    <2>2. Own(w)
      OBVIOUS
    <2>3. Accounted(w)'
      BY <1>2, <2>1, <2>2 DEF Own, Accounted, Decided, BeforeDisposal, Looping, AtRecipient, Unrecorded,
         workerVars, sesVars
    <2>4. VerdictJustified(w)'
      BY <1>2, <2>1, <2>2 DEF Own, VerdictJustified, AllDecided, Decided, GivingUp, workerVars, sesVars
    <2> QED
      BY <1>2, <2>1, <2>2, <2>3, <2>4 DEF Own, Counts, workerVars, sesVars
  <1>4. SettledIsJustified'
    <2>1. /\ NoMsg.st = "absent" /\ NoMsg.n = 0 /\ NewMsg.st = "queued" /\ NewMsg.n = 0
          /\ ~(0 >= MaxAttempts)
      BY MaxAttemptsAssumption DEF NoMsg, NewMsg
    <2>2. ASSUME NEW k \in Chunks, chunkMsg'[k].st = "acked"
          PROVE  \A r \in payload'[k] : accepted'[r] > 0 \/ r \in refused'
      <3>1. chunkMsg[k].st = "acked" /\ payload'[k] = payload[k]
        BY <2>1, <2>2, PublishedStay
      <3> QED
        BY <1>2, <3>1 DEF SettledIsJustified, sesVars
    <2>3. ASSUME NEW k \in Chunks \ Malformed, chunkMsg'[k].st = "termed" \/ k \in dlq'
          PROVE  chunkMsg'[k].n >= MaxAttempts
      <3>1. chunkMsg[k].st = "termed" \/ k \in dlq
        BY <1>2, <2>1, <2>3, PublishedStay DEF pubVars
      <3>2. chunkMsg[k].n >= MaxAttempts
        BY <3>1 DEF SettledIsJustified
      <3> QED
        BY <2>1, <3>2, PublishedStay
    <2>4. ASSUME NEW r \in Recipients \ refused', <<r, "failed">> \in events'
          PROVE  \E k \in Chunks : r \in payload'[k] /\ chunkMsg'[k].n >= MaxAttempts
      <3>1. PICK k \in Chunks : r \in payload[k] /\ chunkMsg[k].n >= MaxAttempts
        BY <1>2, <2>4 DEF SettledIsJustified, pubVars, sesVars
      <3> QED
        BY <2>1, <3>1, PublishedStay
    <2> QED
      BY <2>2, <2>3, <2>4 DEF SettledIsJustified
  <1> QED
    BY <1>1, <1>3, <1>4

\* So does what is known of the emails, when the chunks stay apart and have rows.
LEMMA MailBeside == MailInv /\ Held /\ Beside /\ Apart' /\ RowsThere' => MailInv'
  <1> SUFFICES ASSUME MailInv, Held, Beside, Apart', RowsThere' PROVE MailInv'
    OBVIOUS
  <1> USE DEF MailInv
  <1>1. Typed' /\ RecordedIsTrue'
    BY TypedBeside, RecordedBeside
  <1>2. UNCHANGED <<workerVars, sesVars>>
    BY DEF Beside
  <1>3. OneHolder'
    <2>1. \A w \in Workers : \A r \in Recipients : AtHand(w, r) =>
             pc[w] # "idle" \/ todo[w] # {}
      BY DEF AtHand, Unrecorded
    <2>2. \A w \in Workers : pc[w] = "idle" => todo[w] = {}
      BY DEF Typed, Placed, Looping, AtRecipient, Unrecorded
    <2>3. \A w \in Workers : \A r \in Recipients : AtHand(w, r)' <=> AtHand(w, r)
      BY <1>2 DEF AtHand, workerVars
    <2>4. ambiguous' = ambiguous /\ job' = job
      BY <1>2 DEF workerVars, sesVars
    <2> QED
      BY <2>1, <2>2, <2>3, <2>4, PublishedStay DEF OneHolder
  <1>4. AcceptanceKnown'
    BY <1>2 DEF AcceptanceKnown, Beside, RowsInserted, Terminal, workerVars, sesVars
  <1>5. NotAcceptedYet'
    BY <1>2 DEF NotAcceptedYet, workerVars, sesVars
  <1> QED
    BY <1>1, <1>3, <1>4, <1>5

\* Seen from the emails, nothing happens.
LEMMA MailerBeside == Beside => UNCHANGED <<StatusOf(recipient), accepted, ambiguous>>
  BY DEF Beside, RowsInserted, StatusOf, Terminal, sesVars

\* With idle workers and nothing sent, answered or known, all of it holds.
Untouched ==
    /\ TypeOK /\ Idle /\ NothingSent
    /\ \A r \in Recipients : ~Terminal(recipient[r])
    /\ \A k \in Chunks : chunkMsg[k].st \notin {"acked", "termed"}

\* The types, and what is recorded.
LEMMA TypedUntouched == Untouched => Typed /\ Held /\ RecordedIsTrue
  <1> SUFFICES ASSUME Untouched PROVE Typed /\ Held /\ RecordedIsTrue
    OBVIOUS
  <1>1. \A w \in Workers : pc[w] = "idle" /\ todo[w] = {} /\ retry[w] = {}
    BY DEF Untouched, Idle
  <1> QED
    BY <1>1 DEF Untouched, Typed, Placed, Held, RecordedIsTrue, AtRecipient, Unrecorded, Looping

\* No answer was given.
LEMMA AnswerUntouched == Untouched => AnswerInv /\ Held
  <1> SUFFICES ASSUME Untouched PROVE AnswerInv /\ Held
    OBVIOUS
  <1>1. \A w \in Workers : Own(w)
    BY DEF Untouched, Idle, Own, Accounted, VerdictJustified, Counts,
       BeforeDisposal, Looping, AtRecipient, Unrecorded, GivingUp
  <1>2. SettledIsJustified
    BY DEF Untouched, NothingSent, SettledIsJustified
  <1> QED
    BY <1>1, <1>2, TypedUntouched DEF AnswerInv

\* No email was sent; chunks must be apart, and rows there.
LEMMA MailUntouched == Untouched /\ Apart /\ RowsThere => MailInv
  <1> SUFFICES ASSUME Untouched, Apart, RowsThere PROVE MailInv
    OBVIOUS
  <1>1. OneHolder /\ NotAcceptedYet
    BY DEF Untouched, Idle, OneHolder, NotAcceptedYet, AtHand, Unrecorded
  <1>2. AcceptanceKnown
    BY DEF Untouched, NothingSent, AcceptanceKnown
  <1> QED
    BY <1>1, <1>2, TypedUntouched DEF MailInv

=============================================================================
