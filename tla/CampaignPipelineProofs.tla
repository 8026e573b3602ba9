------------------------- MODULE CampaignPipelineProofs -------------------------
(***************************************************************************)
(* Proofs about CampaignPipeline, for any contacts, chunk size, start jobs,*)
(* chunk workers and schedulers, whatever fails.  What CampaignChunkProofs *)
(* shows of the handlers of chunks is used, by INSTANCE, for the steps of  *)
(* Chunk, and every other step is one beside the handlers.  The last three *)
(* theorems are about a segment that stays the same and chunk ids that are *)
(* remembered; the others hold of any.                                     *)
(***************************************************************************)
EXTENDS CampaignPipeline, FiniteSetTheorems, TLAPS

Chunks == INSTANCE CampaignChunkProofs
             WITH Recipients <- Contacts, Chunks <- ChunkIds, Malformed <- {},
                  Scenarios <- {}, Workers <- ChunkWorkers

-----------------------------------------------------------------------------
(***************************************************************************)
(* The handlers of chunks                                                  *)
(***************************************************************************)
\* What CampaignChunk assumes of its constants.
LEMMA ChunkConstants ==
    /\ None \notin ChunkIds \cup Contacts
    /\ MaxAttempts \in Nat \ {0}
    /\ {} \subseteq [payload : [ChunkIds -> SUBSET Contacts], faulty : BOOLEAN]
    /\ Chunks!IsFiniteSet(Contacts)
  BY ChunkAssumption, ContactsAssumption DEF IsFiniteSet, Chunks!IsFiniteSet

\* The rows and messages are the same on both sides.
LEMMA SameRows ==
    /\ Chunks!Campaigns = Campaigns /\ Chunks!RecipientStates = RecipientStates
    /\ Chunks!Msgs = Msgs /\ Chunks!NoMsg = NoMsg /\ Chunks!NewMsg = NewMsg
    /\ \A c, n, m : Chunks!Counted(c, n, m) = Counted(c, n, m)
    /\ \A c : Chunks!CompletedIfCounted(c) = CompletedIfCounted(c)
  BY DEF Chunks!Campaigns, Campaigns, Chunks!CampaignStates, CampaignStates,
     Chunks!RecipientStates, RecipientStates, Chunks!Msgs, Msgs, Chunks!MsgStates, MsgStates,
     Chunks!NoMsg, NoMsg, Chunks!NewMsg, NewMsg, Chunks!Counted, Counted,
     Chunks!CompletedIfCounted, CompletedIfCounted, Chunks!AllCounted, AllCounted

\* The steps of Chunk are those the proofs are about.
LEMMA SameSteps == Chunk!Next => Chunks!Next
  <1> USE DEF Chunk!given, Chunks!given, Chunk!rowVars, Chunks!rowVars, Chunk!sesVars, Chunks!sesVars,
              Chunk!pubVars, Chunks!pubVars, Chunk!workerVars, Chunks!workerVars,
              Chunk!Goto, Chunks!Goto, Chunk!Answer, Chunks!Answer, Chunk!Release, Chunks!Release,
              Chunk!NoResult, Chunks!NoResult
  <1>1. ASSUME NEW w, NEW k
        PROVE  /\ Chunk!Receive(w, k) => Chunks!Receive(w, k)
               /\ Chunk!Crash(w) => Chunks!Crash(w)
               /\ Chunk!Expire(k) => Chunks!Expire(k)
               /\ Chunk!AnswerMessage(w) => Chunks!AnswerMessage(w)
    <2> USE DEF Chunk!HeldUnrecorded, Chunks!HeldUnrecorded, Chunk!Unrecorded, Chunks!Unrecorded,
                Chunk!RequeueNoted, Chunks!RequeueNoted, Chunk!LeaveNoted, Chunks!LeaveNoted,
                Chunk!Deliverable, Chunks!Deliverable, Chunk!Delivered, Chunks!Delivered,
                Chunk!Requeued, Chunks!Requeued
    <2>1. Chunk!Receive(w, k) => Chunks!Receive(w, k)
      BY DEF Chunk!Receive, Chunks!Receive
    <2>2. Chunk!Crash(w) => Chunks!Crash(w)
      BY DEF Chunk!Crash, Chunks!Crash
    <2>3. Chunk!Expire(k) => Chunks!Expire(k)
      BY DEF Chunk!Expire, Chunks!Expire
    <2>4. Chunk!AnswerMessage(w) => Chunks!AnswerMessage(w)
      BY DEF Chunk!AnswerMessage, Chunks!AnswerMessage, Chunk!Answered, Chunks!Answered,
             Chunk!Ended, Chunks!Ended
    <2> QED
      BY <2>1, <2>2, <2>3, <2>4
  <1> USE DEF Chunk!MarkRecipient, Chunks!MarkRecipient, Chunk!MayMarkRecipient, Chunks!MayMarkRecipient,
              Chunk!MarkedFailed, Chunks!MarkedFailed, Chunk!MarkedSent, Chunks!MarkedSent,
              Chunk!MarkedSending, Chunks!MarkedSending, Chunk!Terminal, Chunks!Terminal,
              Chunk!MayPublishEvent, Chunks!MayPublishEvent,
              Chunk!TransientOutcome, Chunks!TransientOutcome, Chunk!Duplicate, Chunks!Duplicate,
              Chunk!FreshOutcome, Chunks!FreshOutcome,
              Chunk!OneMoreSent, Chunks!OneMoreSent, Chunk!OneMoreFailed, Chunks!OneMoreFailed
  <1>2. ASSUME NEW w
        PROVE  /\ Chunk!Validate(w) => Chunks!Validate(w)
               /\ Chunk!Acquire(w) => Chunks!Acquire(w)
               /\ Chunk!MarkSending(w) => Chunks!MarkSending(w)
               /\ Chunk!SendAccepted(w) => Chunks!SendAccepted(w)
               /\ Chunk!SendTransient(w) => Chunks!SendTransient(w)
               /\ Chunk!SendRefused(w) => Chunks!SendRefused(w)
               /\ Chunk!EndGiveUp(w) => Chunks!EndGiveUp(w)
               /\ Chunk!PublishDLQ(w) => Chunks!PublishDLQ(w)
    BY DEF Chunk!Validate, Chunks!Validate, Chunk!Acquire, Chunks!Acquire,
       Chunk!MarkSending, Chunks!MarkSending, Chunk!SendAccepted, Chunks!SendAccepted,
       Chunk!SendTransient, Chunks!SendTransient, Chunk!SendRefused, Chunks!SendRefused,
       Chunk!EndGiveUp, Chunks!EndGiveUp, Chunk!PublishDLQ, Chunks!PublishDLQ,
       Chunk!AcceptedBySES, Chunks!AcceptedBySES
  <1>3. ASSUME NEW w, NEW r
        PROVE  /\ Chunk!CheckRecipient(w, r) => Chunks!CheckRecipient(w, r)
               /\ Chunk!RecordSent(w) => Chunks!RecordSent(w)
               /\ Chunk!RecordFailed(w) => Chunks!RecordFailed(w)
               /\ Chunk!GiveUp(w, r) => Chunks!GiveUp(w, r)
               /\ Chunk!Bounce(r) => Chunks!Bounce(r)
    BY DEF Chunk!CheckRecipient, Chunks!CheckRecipient, Chunk!RecordSent, Chunks!RecordSent,
       Chunk!RecordFailed, Chunks!RecordFailed, Chunk!GiveUp, Chunks!GiveUp, Chunk!Bounce, Chunks!Bounce
  <1>4. ASSUME NEW w
        PROVE  /\ Chunk!EndLoop(w) => Chunks!EndLoop(w)
               /\ Chunk!Count(w) => Chunks!Count(w)
               /\ Chunk!Complete(w) => Chunks!Complete(w)
               /\ Chunk!CountGivenUp(w) => Chunks!CountGivenUp(w)
               /\ Chunk!CompleteGivenUp(w) => Chunks!CompleteGivenUp(w)
    BY DEF Chunk!EndLoop, Chunks!EndLoop, Chunk!Count, Chunks!Count, Chunk!Complete, Chunks!Complete,
       Chunk!CountGivenUp, Chunks!CountGivenUp, Chunk!CompleteGivenUp, Chunks!CompleteGivenUp,
       Chunk!Dispose, Chunks!Dispose, Chunk!MayUpdateCampaign, Chunks!MayUpdateCampaign,
       Chunk!Counted, Chunks!Counted, Chunk!AllCounted, Chunks!AllCounted,
       Chunk!CompletedIfCounted, Chunks!CompletedIfCounted
  <1> QED
    BY <1>1, <1>2, <1>3, <1>4 DEF Chunk!Next, Chunks!Next, Chunk!Work, Chunks!Work

\* What a handler's step does to what it shares: no chunk appears, disappears or
\* changes its contacts, no row comes or goes, and the campaign's row is counted up
\* or completed (client.go:301-333).
LEMMA ChunkSteps ==
    ASSUME Chunks!AnswerInv, Chunks!Held, Chunk!Next
    PROVE  /\ Chunks!AnswerInv' /\ Chunks!Held'
           /\ UNCHANGED payload
           /\ \A k \in ChunkIds : /\ chunkMsg'[k].st = "absent" <=> chunkMsg[k].st = "absent"
                                  /\ chunkMsg[k].st = "absent" => chunkMsg'[k] = chunkMsg[k]
           /\ \A c \in Contacts : recipient'[c] = "none" <=> recipient[c] = "none"
           /\ \/ campaign' \in {campaign, CompletedIfCounted(campaign)}
              \/ \E n, m \in Nat : campaign' = Counted(campaign, n, m)
  <1>1. Chunks!Typed /\ Chunks!Next
    BY SameSteps DEF Chunks!AnswerInv
  <1>2. [Chunks!Next]_Chunks!vars
    BY <1>1
  <1>3. Chunks!AnswerInv'
    BY <1>2, ChunkConstants, Chunks!AnswerStep
  <1>4. Chunks!Held'
    BY <1>1, <1>2, ChunkConstants, Chunks!HeldStep
  <1>5. UNCHANGED payload
    BY <1>1, <1>2, ChunkConstants, Chunks!HistoryGrows
  <1>6. \A k \in ChunkIds : /\ chunkMsg'[k].st = "absent" <=> chunkMsg[k].st = "absent"
                            /\ chunkMsg[k].st = "absent" => chunkMsg'[k] = chunkMsg[k]
    BY <1>1, <1>2, ChunkConstants, Chunks!MessagesStay
  <1>7. \A c \in Contacts : recipient'[c] = "none" <=> recipient[c] = "none"
    BY <1>1, <1>2, ChunkConstants, Chunks!RowsMove
  <1>8. \/ campaign' \in {campaign, CompletedIfCounted(campaign)}
        \/ \E n, m \in Nat : campaign' = Counted(campaign, n, m)
    BY <1>1, <1>2, ChunkConstants, SameRows, Chunks!CampaignMoves
  <1> QED
    BY <1>3, <1>4, <1>5, <1>6, <1>7, <1>8

-----------------------------------------------------------------------------
(***************************************************************************)
(* Types, and the chunks that are published                                *)
(***************************************************************************)
Indexes == 0 .. MaxChunks - 1

\* The types of what CampaignStart, the scheduler and the segment keep.
StartTyped == StartTypeOK /\ segment \in Segments /\ due \subseteq Schedulers

\* What is not published carries nobody, and the messages of an id are numbered.
Fresh ==
    /\ \A k \in ChunkIds : chunkMsg[k].st = "absent" => chunkMsg[k] = NoMsg /\ payload[k] = {}
    /\ \A i \in Indexes : Copies(i) = 1 .. Cardinality(Copies(i))

\* A page about to be published is not empty, and has an index within the bound.
PageAtHand ==
    \A w \in StartWorkers :
        spc[w] \in {"insert", "publish"} => page[w].idx \in Indexes /\ page[w].batch # {}

\* The handlers of chunks hold published chunks, and their answers are justified.
Handled == Chunks!AnswerInv /\ Chunks!Held

Base == StartTyped /\ Fresh /\ PageAtHand /\ Handled

\* Publishing stores a message that was absent, as the next one of its id, or none
\* (batcher.go:148-150).
LEMMA PublishFacts ==
    ASSUME StartTyped, Fresh, NEW idx \in Indexes, NEW batch \in SUBSET Contacts, PublishChunk(idx, batch)
    PROVE  \/ ~Stored(idx) /\ UNCHANGED <<chunkMsg, payload>>
           \/ /\ Stored(idx)
              /\ Fresh'
              /\ \E g \in 1 .. Generations :
                    /\ Copies(idx) = 1 .. (g - 1)
                    /\ chunkMsg[<<idx, g>>] = NoMsg /\ payload[<<idx, g>>] = {}
                    /\ chunkMsg' = [chunkMsg EXCEPT ![<<idx, g>>] = NewMsg]
                    /\ payload' = [payload EXCEPT ![<<idx, g>>] = batch]
  <1> SUFFICES ASSUME Stored(idx)
               PROVE  /\ Fresh'
                      /\ \E g \in 1 .. Generations :
                            /\ Copies(idx) = 1 .. (g - 1)
                            /\ chunkMsg[<<idx, g>>] = NoMsg /\ payload[<<idx, g>>] = {}
                            /\ chunkMsg' = [chunkMsg EXCEPT ![<<idx, g>>] = NewMsg]
                            /\ payload' = [payload EXCEPT ![<<idx, g>>] = batch]
    BY DEF PublishChunk
  <1> DEFINE n == Cardinality(Copies(idx))
             id == <<idx, n + 1>>
  <1>1. /\ chunkMsg \in [ChunkIds -> Msgs] /\ payload \in [ChunkIds -> SUBSET Contacts]
        /\ Generations \in Nat \ {0}
    BY BoundsAssumption DEF StartTyped, StartTypeOK
  <1>2. n \in Nat /\ n < Generations /\ Copies(idx) = 1 .. n
    <2>1. Copies(idx) \subseteq 1 .. Generations /\ Copies(idx) = 1 .. n
      BY DEF Copies, Fresh
    <2>2. IsFiniteSet(Copies(idx)) /\ n \in Nat
      <3>1. IsFiniteSet(1 .. Generations)
        BY <1>1, FS_Interval
      <3> QED
        BY <2>1, <3>1, FS_Subset, FS_CardinalityType
    <2>3. CASE Copies(idx) = {}
      BY <1>1, <2>1, <2>2, <2>3, FS_EmptySet
    <2>4. CASE Copies(idx) # {}
      BY <2>1, <2>2, <2>4 DEF Stored
    <2> QED
      BY <2>1, <2>2, <2>3, <2>4
  <1>3. /\ chunkMsg' = [chunkMsg EXCEPT ![id] = NewMsg]
        /\ payload' = [payload EXCEPT ![id] = batch]
    BY DEF PublishChunk
  <1>4. n + 1 \in 1 .. Generations /\ n + 1 \notin Copies(idx)
    <2> HIDE DEF n
    <2> QED
      BY <1>1, <1>2
  <1>5. id \in ChunkIds
    BY <1>4 DEF ChunkIds, Indexes
  <1>6. chunkMsg[id] = NoMsg /\ payload[id] = {}
    BY <1>4, <1>5 DEF Copies, Fresh
  <1>7. \A k \in ChunkIds : chunkMsg'[k].st = "absent" => chunkMsg'[k] = NoMsg /\ payload'[k] = {}
    <2>1. NewMsg.st # "absent"
      BY DEF NewMsg
    <2> QED
      BY <1>1, <1>3, <1>5, <2>1 DEF Fresh
  <1>8. ASSUME NEW i \in Indexes PROVE Copies(i)' = 1 .. Cardinality(Copies(i)')
    <2>1. CASE i # idx
      <3>1. \A g \in 1 .. Generations : <<i, g>> \in ChunkIds /\ chunkMsg'[<<i, g>>] = chunkMsg[<<i, g>>]
        BY <1>1, <1>3, <1>5, <2>1 DEF ChunkIds, Indexes
      <3>2. Copies(i)' = Copies(i)
        BY <3>1 DEF Copies
      <3> QED
        BY <3>2 DEF Fresh
    <2>2. CASE i = idx
      <3>1. \A g \in 1 .. Generations :
               /\ <<idx, g>> \in ChunkIds
               /\ g # n + 1 => chunkMsg'[<<idx, g>>] = chunkMsg[<<idx, g>>]
        BY <1>1, <1>3, <1>5 DEF ChunkIds, Indexes
      <3>2. chunkMsg'[id].st # "absent"
        BY <1>1, <1>3, <1>5 DEF NewMsg
      <3>3. Copies(idx)' = Copies(idx) \cup {n + 1}
        BY <1>4, <3>1, <3>2 DEF Copies
      <3>4. Copies(idx)' = 1 .. (n + 1)
        <4> HIDE DEF n
        <4> QED
          BY <1>2, <3>3
      <3>5. Cardinality(1 .. (n + 1)) = n + 1
        <4>1. n + 1 \in Int /\ 1 \in Int /\ 1 <= n + 1
          BY <1>2
        <4> HIDE DEF n
        <4> QED
          BY <1>2, <4>1, FS_Interval
      <3> QED
        BY <2>2, <3>4, <3>5
    <2> QED
      BY <2>1, <2>2
  <1>9. Fresh'
    BY <1>7, <1>8 DEF Fresh
  <1>10. Copies(idx) = 1 .. ((n + 1) - 1)
    BY <1>2
  <1> HIDE DEF n
  <1> QED
    BY <1>3, <1>4, <1>6, <1>9, <1>10


-----------------------------------------------------------------------------
(***************************************************************************)
(* Finite sets of numbers, and their pages                                 *)
(***************************************************************************)
\* x contains no other set of T.
Smallest(x, T) == \A y \in T : y \subseteq x => y = x

\* A set of finite sets has one that contains no other of them.
LEMMA SmallestSet ==
    ASSUME NEW S, IsFiniteSet(S), NEW T, T \subseteq SUBSET S, T # {}
    PROVE  \E x \in T : Smallest(x, T)
  <1>1. T \subseteq FiniteSubsetsOf(S)
    BY FS_Subset DEF FiniteSubsetsOf
  <1>2. PICK x \in T : \A y \in T : <<y, x>> \notin StrictSubsetOrdering(S)
    BY <1>1, FS_StrictSubsetOrderingWellFounded, WFMin
  <1>3. Smallest(x, T)
    BY <1>2 DEF StrictSubsetOrdering, Smallest
  <1> QED
    BY <1>3

\* A finite set of numbers has a least element.
LEMMA LeastExists ==
    ASSUME NEW S, S \subseteq Nat, IsFiniteSet(S), S # {}
    PROVE  \E m \in S : \A c \in S : m <= c
  <1> DEFINE below(c) == {d \in S : d < c}
             T == {below(c) : c \in S}
  <1>0. T \subseteq SUBSET S /\ T # {}
    OBVIOUS
  <1> HIDE DEF T
  <1>1. \E x \in T : Smallest(x, T)
    BY <1>0, SmallestSet
  <1> USE DEF T
  <1>2. PICK m \in S : \A y \in T : y \subseteq below(m) => y = below(m)
    BY <1>1 DEF Smallest
  <1>3. ASSUME NEW c \in S, c < m PROVE FALSE
    <2>1. below(c) \in T /\ below(c) \subseteq below(m)
      <3>1. c \in Nat /\ m \in Nat /\ \A d \in S : d \in Nat
        OBVIOUS
      <3>2. \A d \in S : d < c => d < m
        BY <1>3, <3>1
      <3> QED
        BY <3>2
    <2>2. c \in below(m) /\ c \notin below(c)
      BY <1>3
    <2> QED
      BY <1>2, <2>1, <2>2
  <1> QED
    BY <1>3

\* A finite set of numbers has a greatest element.
LEMMA GreatestExists ==
    ASSUME NEW S, S \subseteq Nat, IsFiniteSet(S), S # {}
    PROVE  \E m \in S : \A c \in S : c <= m
  <1> DEFINE above(c) == {d \in S : d > c}
             T == {above(c) : c \in S}
  <1>0. T \subseteq SUBSET S /\ T # {}
    OBVIOUS
  <1> HIDE DEF T
  <1>1. \E x \in T : Smallest(x, T)
    BY <1>0, SmallestSet
  <1> USE DEF T
  <1>2. PICK m \in S : \A y \in T : y \subseteq above(m) => y = above(m)
    BY <1>1 DEF Smallest
  <1>3. ASSUME NEW c \in S, c > m PROVE FALSE
    <2>1. above(c) \in T /\ above(c) \subseteq above(m)
      <3>1. c \in Nat /\ m \in Nat /\ \A d \in S : d \in Nat
        OBVIOUS
      <3>2. \A d \in S : d > c => d > m
        BY <1>3, <3>1
      <3> QED
        BY <3>2
    <2>2. c \in above(m) /\ c \notin above(c)
      BY <1>3
    <2> QED
      BY <1>2, <2>1, <2>2
  <1> QED
    BY <1>3

\* The last contact of a batch (batcher.go:160).
LEMMA LastOfFacts ==
    ASSUME NEW S, S \subseteq Nat, IsFiniteSet(S), S # {}
    PROVE  LastOf(S) \in S /\ \A c \in S : c <= LastOf(S)
  BY GreatestExists DEF LastOf

\* The first n of a set: none only of none, downward closed, and all of it when
\* they are fewer than n.
LEMMA FirstOfSet ==
    ASSUME NEW T, T \subseteq Nat, IsFiniteSet(T), NEW n \in Nat \ {0},
           NEW B, B = {c \in T : Cardinality({d \in T : d < c}) < n}
    PROVE  /\ B = {} => T = {}
           /\ \A c \in B, d \in T : d <= c => d \in B
           /\ Cardinality(B) < n => B = T
  <1> DEFINE below(c) == {d \in T : d < c}
  <1>1. \A c : IsFiniteSet(below(c)) /\ Cardinality(below(c)) \in Nat
    BY FS_Subset, FS_CardinalityType
  <1>2. ASSUME NEW U, U \subseteq T, U # {} PROVE \E m \in U : \A c \in U : m <= c
    BY <1>2, FS_Subset, LeastExists
  <1>3. ASSUME NEW c \in B, NEW d \in T, d <= c PROVE d \in B
    <2>1. below(d) \subseteq below(c)
      <3>1. c \in Nat /\ d \in Nat /\ \A e \in T : e \in Nat
        OBVIOUS
      <3>2. \A e \in T : e < d => e < c
        BY <1>3, <3>1
      <3> QED
        BY <3>2
    <2>2. Cardinality(below(d)) <= Cardinality(below(c))
      BY <1>1, <2>1, FS_Subset
    <2>3. Cardinality(below(c)) < n
      OBVIOUS
    <2>4. Cardinality(below(d)) < n
      <3> HIDE DEF below
      <3> QED
        BY <1>1, <2>2, <2>3
    <2> QED
      BY <2>4
  <1>4. ASSUME B = {} PROVE T = {}
    <2> SUFFICES ASSUME T # {} PROVE FALSE
      OBVIOUS
    <2>1. PICK m \in T : \A c \in T : m <= c
      BY <1>2
    <2>2. below(m) = {}
      <3> HIDE DEF below
      <3>1. m \in Nat /\ \A c \in T : c \in Nat
        OBVIOUS
      <3>2. \A d \in T : ~(d < m)
        BY <2>1, <3>1
      <3> QED
        BY <3>2 DEF below
    <2>3. Cardinality(below(m)) = 0
      BY <2>2, FS_EmptySet
    <2>4. m \in B
      BY <2>3
    <2> QED
      BY <1>4, <2>4
  <1>5. ASSUME Cardinality(B) < n PROVE B = T
    <2> SUFFICES ASSUME T \ B # {} PROVE FALSE
      OBVIOUS
    <2>1. PICK m \in T \ B : \A c \in T \ B : m <= c
      BY <1>2
    <2>2. below(m) \subseteq B
      <3>1. m \in Nat /\ \A c \in T : c \in Nat
        OBVIOUS
      <3>2. \A c \in T : c < m => c \in B
        <4> HIDE DEF below
        <4>1. \A c \in T : c \notin B => m <= c
          BY <2>1
        <4> QED
          BY <3>1, <4>1
      <3> QED
        BY <3>2
    <2>3. IsFiniteSet(B) /\ Cardinality(B) \in Nat
      BY FS_Subset, FS_CardinalityType
    <2>4. Cardinality(below(m)) <= Cardinality(B)
      BY <2>2, <2>3, FS_Subset
    <2>5. Cardinality(below(m)) < n
      <3> HIDE DEF below
      <3> QED
        BY <1>1, <1>5, <2>3, <2>4
    <2> QED
      BY <2>1, <2>5
  <1> QED
    BY <1>3, <1>4, <1>5
\* A batch is a finite part of the segment.
LEMMA BatchFacts ==
    ASSUME StartTyped, NEW after
    PROVE  /\ NextBatch(after) \subseteq segment /\ segment \subseteq Contacts
           /\ NextBatch(after) \in SUBSET Contacts
  BY DEF StartTyped, StartTypeOK, NextBatch

\* Contacts are numbers, and sets of them finite.
LEMMA ContactFacts ==
    ASSUME NEW S \in SUBSET Contacts
    PROVE  S \subseteq Nat /\ IsFiniteSet(S) /\ Cardinality(S) \in Nat
  BY ContactsAssumption, FS_Subset, FS_CardinalityType

\* The statements on campaigns make campaigns of campaigns (client.go:277-349).
LEMMA CampaignFacts ==
    ASSUME NEW c \in Campaigns, NEW total \in Nat
    PROVE  /\ Started(c, total) \in Campaigns
           /\ CompletedEmpty(c) \in Campaigns
           /\ Scheduler!Claimed(c) \in Campaigns
  BY DEF Campaigns, CampaignStates, Started, CompletedEmpty, Scheduler!Claimed

\* What a message of a start job can become.
LEMMA MessageFacts ==
    ASSUME NEW m \in Msgs
    PROVE  /\ NewMsg \in Msgs /\ NoMsg \in Msgs /\ NoMsg.st = "absent"
           /\ Published(m) \in Msgs /\ Delivered(m) \in Msgs
           /\ Requeued(m, MaxAttempts) \in Msgs
           /\ \A v \in Verdicts : Answered(m, v, MaxAttempts) \in Msgs
           /\ m.st # "absent" => /\ Requeued(m, MaxAttempts).st # "absent"
                                 /\ \A v \in Verdicts : Answered(m, v, MaxAttempts).st # "absent"
           /\ m.st = "absent" => /\ Requeued(m, MaxAttempts) = m
                                 /\ \A v \in Verdicts : Answered(m, v, MaxAttempts) = m
  <1>1. /\ NewMsg \in Msgs /\ NoMsg \in Msgs /\ NoMsg.st = "absent"
        /\ Published(m) \in Msgs /\ Delivered(m) \in Msgs
    BY DEF NewMsg, NoMsg, Published, Delivered, Msgs, MsgStates
  <1>2. /\ Requeued(m, MaxAttempts) \in Msgs
        /\ Requeued(m, MaxAttempts).st = "absent" <=> m.st = "absent"
        /\ m.st = "absent" => Requeued(m, MaxAttempts) = m
    BY DEF Requeued, Msgs, MsgStates
  <1>3. ASSUME NEW st \in {"acked", "termed"}
        PROVE  /\ Ended(m, st) \in Msgs
               /\ Ended(m, st).st = "absent" <=> m.st = "absent"
               /\ m.st = "absent" => Ended(m, st) = m
    BY DEF Ended, Msgs, MsgStates
  <1>4. \A v \in Verdicts :
           Answered(m, v, MaxAttempts) \in {Requeued(m, MaxAttempts), Ended(m, "acked"), Ended(m, "termed")}
    BY DEF Answered, Verdicts
  <1> QED
    BY <1>1, <1>2, <1>3, <1>4

\* The initial rows and messages.
LEMMA RowsInit ==
    ASSUME Init
    PROVE  /\ startMsg \in [Jobs -> Msgs] /\ campaign \in Campaigns
           /\ segment \in Segments /\ segment \subseteq Contacts /\ window \in BOOLEAN /\ due = {}
           /\ chunkMsg = [k \in ChunkIds |-> NoMsg] /\ payload = [k \in ChunkIds |-> {}]
           /\ recipient = [c \in Contacts |-> "none"] /\ recipient \in [Contacts -> RecipientStates]
           /\ NoMsg \in Msgs /\ NoMsg.st = "absent"
  <1>1. /\ startMsg \in [Jobs -> Msgs] /\ campaign \in Campaigns
        /\ segment \in Segments /\ segment \subseteq Contacts /\ window \in BOOLEAN /\ due = {}
    <2>1. NewMsg \in Msgs /\ NoMsg \in Msgs
      BY DEF NewMsg, NoMsg, Msgs, MsgStates
    <2>2. \A st \in {"scheduled", "queued"} : NewCampaign(st) \in Campaigns
      BY DEF NewCampaign, Campaigns, CampaignStates
    <2>3. startMsg \in [Jobs -> Msgs] /\ campaign \in Campaigns
      BY <2>1, <2>2 DEF Init
    <2> QED
      BY <2>3, SegmentsAssumption DEF Init
  <1>2. /\ chunkMsg = [k \in ChunkIds |-> NoMsg] /\ payload = [k \in ChunkIds |-> {}]
        /\ recipient = [c \in Contacts |-> "none"]
        /\ NoMsg \in Msgs /\ NoMsg.st = "absent"
    BY DEF Init, NothingPublished, NoMsg, Msgs, MsgStates
  <1>3. recipient \in [Contacts -> RecipientStates]
    BY <1>2 DEF RecipientStates
  <1> QED
    BY <1>1, <1>2, <1>3

\* The handlers of chunks have done nothing.
LEMMA UntouchedInit == Init => Chunks!Untouched
  <1> SUFFICES ASSUME Init PROVE Chunks!Untouched
    OBVIOUS
  <1>1. Chunks!Idle /\ Chunks!NothingSent
    BY DEF Init, Chunk!Idle, Chunks!Idle, Chunk!NothingSent, Chunks!NothingSent,
       Chunk!NoResult, Chunks!NoResult
  <1>2. \A c \in Contacts : ~Chunks!Terminal(recipient[c])
    BY RowsInit DEF Chunks!Terminal
  <1>3. \A k \in ChunkIds : chunkMsg[k].st \notin {"acked", "termed"}
    BY RowsInit
  <1>4. faulty \in BOOLEAN
    BY ChunkAssumption DEF Init
  <1>5. Chunks!TypeOK
    <2>1. /\ chunkMsg \in [ChunkIds -> Chunks!Msgs] /\ payload \in [ChunkIds -> SUBSET Contacts]
          /\ campaign \in Chunks!Campaigns /\ recipient \in [Contacts -> Chunks!RecipientStates]
      BY RowsInit, SameRows
    <2>2. /\ pc \in [ChunkWorkers -> Chunks!PCs] /\ job \in [ChunkWorkers -> ChunkIds \cup {None}]
          /\ \A w \in ChunkWorkers : pc[w] = "idle"
          /\ attempt \in [ChunkWorkers -> Nat] /\ todo \in [ChunkWorkers -> SUBSET Contacts]
          /\ cur \in [ChunkWorkers -> Contacts \cup {None}]
          /\ res \in [ChunkWorkers -> Chunks!Results]
          /\ retry \in [ChunkWorkers -> SUBSET Contacts]
          /\ verdict \in [ChunkWorkers -> Chunks!Verdicts]
      BY <1>1 DEF Chunks!Idle, Chunks!PCs, Chunks!Results, Chunks!NoResult, Chunks!Verdicts
    <2>3. /\ events \subseteq Contacts \X {"sent", "failed"} /\ dlq \subseteq ChunkIds
          /\ accepted \in [Contacts -> Nat] /\ refused \subseteq Contacts /\ ambiguous \subseteq Contacts
      BY <1>1 DEF Chunks!NothingSent
    <2> QED
      BY <1>4, <2>1, <2>2, <2>3 DEF Chunks!TypeOK, Chunks!Unrecorded
  <1> QED
    BY <1>1, <1>2, <1>3, <1>5 DEF Chunks!Untouched

\* The initial state is well-typed, and nothing is published.
LEMMA BaseInit == Init => Base
  <1> SUFFICES ASSUME Init PROVE Base
    OBVIOUS
  <1>1. /\ spc \in [StartWorkers -> StartPCs] /\ sjob \in [StartWorkers -> Jobs \cup {None}]
        /\ page \in [StartWorkers -> Pages] /\ sverdict \in [StartWorkers -> Verdicts]
        /\ \A w \in StartWorkers : spc[w] = "idle"
    BY DEF Init, StartIdle, StartPCs, Pages, FirstPage, Verdicts
  <1>2. StartTyped /\ PageAtHand
    BY <1>1, RowsInit DEF StartTyped, StartTypeOK, PageAtHand
  <1>3. Fresh
    <2>1. ASSUME NEW i \in Indexes PROVE Copies(i) = 1 .. Cardinality(Copies(i))
      <3>1. \A g \in 1 .. Generations : <<i, g>> \in ChunkIds
        BY DEF ChunkIds, Indexes
      <3>2. Copies(i) = {}
        BY RowsInit, <3>1 DEF Copies
      <3>3. Cardinality(Copies(i)) = 0
        BY <3>2, FS_EmptySet
      <3> QED
        BY <3>2, <3>3
    <2> QED
      BY RowsInit, <2>1 DEF Fresh
  <1>4. Handled
    BY UntouchedInit, ChunkConstants, Chunks!AnswerUntouched DEF Handled
  <1> QED
    BY <1>2, <1>3, <1>4 DEF Base

\* The steps of a start worker that leave the chunks and rows alone.
StartControl(w) ==
    \/ \E j \in Jobs : ReceiveStart(w, j)
    \/ ValidateStart(w) \/ GetStatus(w) \/ Fetch(w) \/ AnswerStart(w) \/ CrashStart(w)

\* They keep the types, and a page at hand is not empty.
LEMMA StartControlStep ==
    ASSUME StartTyped, PageAtHand, UNCHANGED due, NEW w \in StartWorkers, StartControl(w)
    PROVE  StartTyped' /\ PageAtHand' /\ UNCHANGED <<chunkMsg, payload, campaign, recipient>>
  <1> USE DEF StartTyped, StartTypeOK, PageAtHand
  <1>1. ASSUME NEW j \in Jobs, ReceiveStart(w, j)
        PROVE  StartTyped' /\ PageAtHand' /\ UNCHANGED <<chunkMsg, payload, campaign, recipient>>
    BY <1>1, MessageFacts DEF ReceiveStart, StartPCs
  <1>2. CASE ValidateStart(w) \/ GetStatus(w)
    BY <1>2 DEF ValidateStart, GetStatus, GotoS, AnswerS, StartPCs, Verdicts
  <1>3. CASE Fetch(w)
    <2>1. UNCHANGED <<startMsg, segment, window, chunkMsg, payload, campaign, recipient>>
      BY <1>3 DEF Fetch
    <2>2. CASE AnswerS(w, "nak") \/ GotoS(w, "finish")
      BY <2>1, <2>2 DEF AnswerS, GotoS, StartPCs, Verdicts
    <2>3. CASE /\ NextBatch(page[w].after) # {}
               /\ page[w].idx < MaxChunks
               /\ page' = [page EXCEPT ![w].batch = NextBatch(page[w].after)]
               /\ spc' = [spc EXCEPT ![w] = "insert"]
               /\ UNCHANGED <<sjob, sverdict>>
      <3> DEFINE batch == NextBatch(page[w].after)
      <3>1. batch \in SUBSET Contacts
        BY BatchFacts
      <3>2. page[w] \in Pages
        OBVIOUS
      <3> HIDE DEF batch
      <3>3. [page[w] EXCEPT !.batch = batch] \in Pages
        BY <3>1, <3>2 DEF Pages
      <3>4. page' = [page EXCEPT ![w] = [page[w] EXCEPT !.batch = batch]]
        BY <2>3 DEF batch
      <3>5. page' \in [StartWorkers -> Pages]
        BY <3>3, <3>4
      <3>6. page'[w].batch = batch /\ page'[w].idx = page[w].idx
        BY <3>2, <3>4 DEF Pages
      <3>7. page[w].idx \in Indexes
        BY <2>3, <3>2, BoundsAssumption DEF Pages, Indexes
      <3>8. batch # {} /\ spc' = [spc EXCEPT ![w] = "insert"] /\ UNCHANGED <<sjob, sverdict>>
        BY <2>3 DEF batch
      <3>9. PageAtHand'
        BY <3>4, <3>6, <3>7, <3>8
      <3> QED
        BY <2>1, <3>5, <3>8, <3>9 DEF StartPCs
    <2> QED
      BY <1>3, <2>2, <2>3 DEF Fetch
  <1>4. CASE AnswerStart(w) \/ CrashStart(w)
    <2>1. startMsg' \in [Jobs -> Msgs]
      <3>1. CASE startMsg' = startMsg
        BY <3>1
      <3>2. CASE startMsg' = [startMsg EXCEPT ![sjob[w]] = Answered(@, sverdict[w], MaxAttempts)]
        <4>1. sverdict[w] \in Verdicts
          OBVIOUS
        <4>2. \A j \in Jobs : Answered(startMsg[j], sverdict[w], MaxAttempts) \in Msgs
          BY <4>1, MessageFacts
        <4> QED
          BY <3>2, <4>2
      <3> QED
        BY <1>4, <3>1, <3>2 DEF AnswerStart, CrashStart
    <2>2. ReleaseS(w) /\ UNCHANGED <<segment, window, chunkMsg, payload, campaign, recipient>>
      BY <1>4 DEF AnswerStart, CrashStart
    <2>3. FirstPage \in Pages
      BY DEF FirstPage, Pages
    <2> QED
      BY <2>1, <2>2, <2>3 DEF ReleaseS, StartPCs, Verdicts
  <1> QED
    BY <1>1, <1>2, <1>3, <1>4 DEF StartControl

\* The rows of a page are inserted: those there are keep their status
\* (client.go:376-412).
LEMMA InsertStep ==
    ASSUME StartTyped, PageAtHand, UNCHANGED due, NEW w \in StartWorkers, Insert(w)
    PROVE  /\ StartTyped' /\ PageAtHand' /\ UNCHANGED <<chunkMsg, payload, campaign>>
           /\ recipient' \in {recipient, Inserted(page[w].batch)}
           /\ \A c \in Contacts : \/ recipient'[c] = recipient[c]
                                  \/ recipient[c] = "none" /\ recipient'[c] = "queued"
  <1> USE DEF StartTyped, StartTypeOK, PageAtHand
  <1>1. recipient' \in {recipient, Inserted(page[w].batch)}
    BY DEF Insert
  <1>2. /\ recipient' \in [Contacts -> RecipientStates]
        /\ \A c \in Contacts : \/ recipient'[c] = recipient[c]
                               \/ recipient[c] = "none" /\ recipient'[c] = "queued"
    BY <1>1 DEF Inserted, RecipientStates
  <1> QED
    BY <1>1, <1>2 DEF Insert, GotoS, AnswerS, StartPCs, Verdicts

\* A page is published, or not, and the next one is turned to, or not.
LEMMA PublishStep ==
    ASSUME StartTyped, PageAtHand, UNCHANGED due, NEW w \in StartWorkers, Publish(w)
    PROVE  /\ StartTyped' /\ PageAtHand' /\ UNCHANGED <<campaign, recipient, window, segment>>
           /\ page[w].idx \in Indexes /\ page[w].batch \in SUBSET Contacts
           /\ PublishChunk(page[w].idx, page[w].batch) \/ UNCHANGED <<chunkMsg, payload>>
  <1> USE DEF StartTyped, StartTypeOK, PageAtHand
  <1> DEFINE p == page[w]
             next == [after |-> LastOf(p.batch), idx |-> p.idx + 1,
                      total |-> p.total + Cardinality(p.batch), batch |-> {}]
  <1>1. /\ p \in Pages /\ p.idx \in Indexes /\ p.batch \in SUBSET Contacts /\ p.batch # {}
        /\ UNCHANGED <<startMsg, segment, window, campaign, recipient>>
    BY DEF Publish, Pages
  <1>2. PublishChunk(p.idx, p.batch) \/ UNCHANGED <<chunkMsg, payload>>
    BY DEF Publish
  <1>3. next \in Pages
    <2>1. LastOf(p.batch) \in Nat /\ Cardinality(p.batch) \in Nat
      BY <1>1, ContactFacts, LastOfFacts
    <2>2. p.idx + 1 \in Nat /\ p.total + Cardinality(p.batch) \in Nat
      <3>1. p.idx \in Nat /\ p.total \in Nat
        BY <1>1 DEF Pages
      <3> HIDE DEF p
      <3> QED
        BY <2>1, <3>1
    <2> QED
      BY <2>1, <2>2 DEF Pages
  <1>4. /\ chunkMsg' \in [ChunkIds -> Msgs] /\ payload' \in [ChunkIds -> SUBSET Contacts]
    <2>1. NewMsg \in Msgs
      BY DEF NewMsg, Msgs, MsgStates
    <2> QED
      BY <1>1, <1>2, <2>1 DEF PublishChunk
  <1>5. CASE /\ page' = [page EXCEPT ![w] = next]
             /\ spc' = [spc EXCEPT ![w] = IF Cardinality(p.batch) < ChunkSize THEN "finish" ELSE "fetch"]
             /\ UNCHANGED <<sjob, sverdict>>
    <2> HIDE DEF p, next
    <2>1. /\ page' \in [StartWorkers -> Pages] /\ spc' \in [StartWorkers -> StartPCs]
          /\ spc'[w] \in {"finish", "fetch"}
          /\ \A v \in StartWorkers \ {w} : page'[v] = page[v] /\ spc'[v] = spc[v]
      BY <1>3, <1>5 DEF StartPCs
    <2> QED
      BY <1>1, <1>2, <1>4, <1>5, <2>1 DEF p
  <1>6. CASE AnswerS(w, "nak")
    BY <1>1, <1>2, <1>4, <1>6 DEF AnswerS, StartPCs, Verdicts
  <1> QED
    BY <1>5, <1>6 DEF Publish

\* The total is recorded, or the empty campaign completed, or neither.
LEMMA FinishStep ==
    ASSUME StartTyped, PageAtHand, UNCHANGED due, NEW w \in StartWorkers, Finish(w)
    PROVE  /\ StartTyped' /\ PageAtHand' /\ UNCHANGED <<chunkMsg, payload, recipient, window, segment>>
           /\ page[w].total \in Nat
           /\ \/ campaign' = campaign
              \/ page[w].total = 0 /\ campaign' = CompletedEmpty(campaign)
              \/ page[w].total # 0 /\ campaign' = Started(campaign, page[w].total)
  <1> USE DEF StartTyped, StartTypeOK, PageAtHand
  <1>1. /\ page[w].total \in Nat
        /\ UNCHANGED <<startMsg, segment, window, chunkMsg, payload, recipient>>
    BY DEF Finish, Pages
  <1>2. \/ campaign' = campaign
        \/ page[w].total = 0 /\ campaign' = CompletedEmpty(campaign)
        \/ page[w].total # 0 /\ campaign' = Started(campaign, page[w].total)
    BY DEF Finish
  <1>3. campaign' \in Campaigns
    BY <1>1, <1>2, CampaignFacts
  <1>4. AnswerS(w, "ack") \/ AnswerS(w, "nak")
    BY DEF Finish
  <1> QED
    BY <1>1, <1>2, <1>3, <1>4 DEF AnswerS, StartPCs, Verdicts

\* What the scheduler does to the campaign and its start messages.
LEMMA ScheduleSteps ==
    ASSUME StartTyped, ScheduleStep
    PROVE  /\ StartTyped'
           /\ \/ /\ campaign.status = "scheduled" /\ campaign' = Scheduler!Claimed(campaign)
                 /\ UNCHANGED startMsg
                 /\ \E p \in Schedulers : due' \in {due, due \cup {p}}
              \/ /\ UNCHANGED campaign
                 /\ \E p \in due : due' = due \ {p}
                 /\ \/ UNCHANGED startMsg
                    \/ \E j \in Jobs : startMsg' = [startMsg EXCEPT ![j] = NewMsg]
  <1> USE DEF StartTyped, StartTypeOK
  <1>1. UNCHANGED <<segment, window, chunkMsg, payload, recipient, startWorkerVars>>
    BY DEF ScheduleStep
  <1>2. PICK p \in Schedulers : Scheduler!Poll(p) \/ Scheduler!Fire(p) \/ Scheduler!CrashScheduler(p)
    BY DEF ScheduleStep, Scheduler!SchedulerNext
  <1>3. CASE Scheduler!Poll(p)
    <2>1. /\ campaign.status = "scheduled" /\ campaign' = Scheduler!Claimed(campaign)
          /\ UNCHANGED startMsg /\ due' \in {due, due \cup {p}}
      BY <1>3 DEF Scheduler!Poll
    <2>2. campaign' \in Campaigns
      <3>1. 0 \in Nat /\ campaign \in Campaigns
        OBVIOUS
      <3> QED
        BY <2>1, <3>1, CampaignFacts
    <2> QED
      BY <1>1, <2>1, <2>2 DEF startWorkerVars
  <1>4. CASE Scheduler!Fire(p)
    <2>1. /\ p \in due /\ due' = due \ {p} /\ UNCHANGED campaign
          /\ \/ \E j \in Jobs : /\ startMsg[j].st = "absent"
                                /\ startMsg' = [startMsg EXCEPT ![j] = Scheduler!Published(@)]
             \/ UNCHANGED startMsg
      BY <1>4 DEF Scheduler!Fire
    <2>2. \A m : m.st = "absent" => Scheduler!Published(m) = NewMsg
      BY DEF Scheduler!Published, Scheduler!NewMsg, NewMsg
    <2>3. UNCHANGED startMsg \/ \E j \in Jobs : startMsg' = [startMsg EXCEPT ![j] = NewMsg]
      BY <2>1, <2>2
    <2>4. startMsg' \in [Jobs -> Msgs]
      <3>1. NewMsg \in Msgs
        BY DEF NewMsg, Msgs, MsgStates
      <3> QED
        BY <2>3, <3>1
    <2> QED
      BY <1>1, <2>1, <2>3, <2>4 DEF startWorkerVars
  <1>5. CASE Scheduler!CrashScheduler(p)
    <2>1. p \in due /\ due' = due \ {p} /\ UNCHANGED <<campaign, startMsg>>
      BY <1>5 DEF Scheduler!CrashScheduler
    <2> QED
      BY <1>1, <2>1 DEF startWorkerVars
  <1> QED
    BY <1>2, <1>3, <1>4, <1>5

\* What else there is beside the steps of chunk handlers and of the scheduler.
LEMMA OtherActions ==
    ASSUME StartStep \/ ChangeSegment \/ CloseWindow
    PROVE  \/ UNCHANGED due /\ \E w \in StartWorkers : StartControl(w) \/ Insert(w) \/ Publish(w) \/ Finish(w)
           \/ \E j \in Jobs : ExpireStart(j) /\ UNCHANGED due
           \/ ChangeSegment \/ CloseWindow
  BY DEF StartStep, StartNext, WorkStart, StartControl

\* Rows may be inserted, and one chunk may be published.
RowsGrow ==
    \A c \in Contacts :
        recipient'[c] = recipient[c] \/ (recipient[c] = "none" /\ recipient'[c] = "queued")
OnePublished ==
    \E k \in ChunkIds, batch \in SUBSET Contacts :
        /\ chunkMsg[k] = NoMsg /\ payload[k] = {}
        /\ chunkMsg' = [chunkMsg EXCEPT ![k] = NewMsg]
        /\ payload' = [payload EXCEPT ![k] = batch]

\* A step other than a handler's keeps the types, and publishes afresh or not.
LEMMA OtherSteps ==
    ASSUME StartTyped, Fresh, PageAtHand, ScheduleStep \/ StartStep \/ ChangeSegment \/ CloseWindow
    PROVE  /\ StartTyped' /\ Fresh' /\ PageAtHand' /\ RowsGrow
           /\ UNCHANGED <<chunkMsg, payload>> \/ OnePublished
  <1>1. UNCHANGED <<chunkMsg, payload>> => Fresh'
    BY DEF Fresh, Copies
  <1>2. UNCHANGED recipient => RowsGrow
    BY DEF RowsGrow
  <1>3. CASE ScheduleStep
    <2>1. UNCHANGED <<chunkMsg, payload, recipient, startWorkerVars>> /\ StartTyped'
      BY <1>3, ScheduleSteps DEF ScheduleStep
    <2>2. PageAtHand'
      BY <2>1 DEF PageAtHand, startWorkerVars
    <2> QED
      BY <1>1, <1>2, <2>1, <2>2
  <1>4. ASSUME NEW w \in StartWorkers, UNCHANGED due, StartControl(w) \/ Finish(w)
        PROVE  StartTyped' /\ PageAtHand' /\ UNCHANGED <<chunkMsg, payload, recipient>>
    BY <1>4, StartControlStep, FinishStep
  <1>5. ASSUME NEW w \in StartWorkers, UNCHANGED due, Insert(w)
        PROVE  StartTyped' /\ PageAtHand' /\ RowsGrow /\ UNCHANGED <<chunkMsg, payload>>
    BY <1>5, InsertStep DEF RowsGrow
  <1>6. ASSUME NEW w \in StartWorkers, UNCHANGED due, Publish(w)
        PROVE  /\ StartTyped' /\ Fresh' /\ PageAtHand' /\ RowsGrow
               /\ UNCHANGED <<chunkMsg, payload>> \/ OnePublished
    <2>1. /\ StartTyped' /\ PageAtHand' /\ UNCHANGED recipient
          /\ page[w].idx \in Indexes /\ page[w].batch \in SUBSET Contacts
          /\ PublishChunk(page[w].idx, page[w].batch) \/ UNCHANGED <<chunkMsg, payload>>
      BY <1>6, PublishStep
    <2>2. CASE UNCHANGED <<chunkMsg, payload>>
      BY <1>1, <1>2, <2>1, <2>2
    <2>3. CASE PublishChunk(page[w].idx, page[w].batch) /\ ~UNCHANGED <<chunkMsg, payload>>
      <3>1. /\ Fresh'
            /\ \E g \in 1 .. Generations :
                  /\ chunkMsg[<<page[w].idx, g>>] = NoMsg /\ payload[<<page[w].idx, g>>] = {}
                  /\ chunkMsg' = [chunkMsg EXCEPT ![<<page[w].idx, g>>] = NewMsg]
                  /\ payload' = [payload EXCEPT ![<<page[w].idx, g>>] = page[w].batch]
        BY <2>1, <2>3, PublishFacts
      <3>2. \A g \in 1 .. Generations : <<page[w].idx, g>> \in ChunkIds
        BY <2>1 DEF ChunkIds, Indexes
      <3>3. OnePublished
        BY <2>1, <3>1, <3>2 DEF OnePublished
      <3> QED
        BY <1>2, <2>1, <3>1, <3>3
    <2> QED
      BY <2>1, <2>2, <2>3
  <1>7. ASSUME NEW j \in Jobs, ExpireStart(j), UNCHANGED due
        PROVE  StartTyped' /\ PageAtHand' /\ UNCHANGED <<chunkMsg, payload, recipient>>
    BY <1>7, MessageFacts DEF ExpireStart, StartTyped, StartTypeOK, PageAtHand, startWorkerVars
  <1>8. CASE ChangeSegment \/ CloseWindow
    <2>1. UNCHANGED <<startMsg, chunkMsg, payload, campaign, recipient, startWorkerVars, due>>
      BY <1>8 DEF ChangeSegment, CloseWindow
    <2>2. segment' \in Segments /\ segment' \subseteq Contacts /\ window' \in BOOLEAN
      BY <1>8, SegmentsAssumption DEF ChangeSegment, CloseWindow, StartTyped, StartTypeOK
    <2>3. StartTyped' /\ PageAtHand'
      BY <2>1, <2>2 DEF StartTyped, StartTypeOK, PageAtHand, startWorkerVars
    <2> QED
      BY <1>1, <1>2, <2>1, <2>3
  <1> QED
    BY <1>1, <1>2, <1>3, <1>4, <1>5, <1>6, <1>7, <1>8, OtherActions

\* To the handlers of chunks, such a step is one beside them.
LEMMA BesideTheHandlers ==
    ASSUME StartTyped, Fresh, PageAtHand, ScheduleStep \/ StartStep \/ ChangeSegment \/ CloseWindow
    PROVE  Chunks!Beside
  <1>1. UNCHANGED chunkOnly
    BY DEF ScheduleStep, StartStep, ChangeSegment, CloseWindow
  <1>2. UNCHANGED <<faulty, Chunks!workerVars, Chunks!sesVars, Chunks!pubVars>>
    BY <1>1 DEF chunkOnly, Chunks!workerVars, Chunks!sesVars, Chunks!pubVars
  <1>3. StartTyped' /\ RowsGrow /\ (UNCHANGED <<chunkMsg, payload>> \/ OnePublished)
    BY OtherSteps
  <1>4. Chunks!RowsInserted
    BY <1>3, SameRows DEF Chunks!RowsInserted, RowsGrow, StartTyped, StartTypeOK
  <1>5. campaign' \in Chunks!Campaigns
    BY <1>3, SameRows DEF StartTyped, StartTypeOK
  <1>6. OnePublished => \E k \in ChunkIds, batch \in SUBSET Contacts : Chunks!ChunkPublished(k, batch)
    BY SameRows DEF OnePublished, Chunks!ChunkPublished
  <1> QED
    BY <1>2, <1>3, <1>4, <1>5, <1>6 DEF Chunks!Beside

\* Every step keeps the types, the numbering of the messages and what the handlers
\* of chunks know.
LEMMA BaseStep == Base /\ [Next]_vars => Base'
  <1> SUFFICES ASSUME Base, [Next]_vars PROVE Base'
    OBVIOUS
  <1>1. CASE ScheduleStep \/ StartStep \/ ChangeSegment \/ CloseWindow
    <2>1. StartTyped' /\ Fresh' /\ PageAtHand'
      BY <1>1, OtherSteps DEF Base
    <2>2. Chunks!Beside
      BY <1>1, BesideTheHandlers DEF Base
    <2>3. Handled'
      BY <2>2, ChunkConstants, Chunks!AnswerBeside DEF Base, Handled
    <2> QED
      BY <2>1, <2>3 DEF Base
  <1>2. CASE ChunkStep
    <2>1. Chunk!Next /\ UNCHANGED startOnly /\ UNCHANGED due
      BY <1>2 DEF ChunkStep
    <2>2. Handled'
      BY <2>1, ChunkSteps DEF Base, Handled
    <2>3. /\ chunkMsg' \in [ChunkIds -> Msgs] /\ payload' \in [ChunkIds -> SUBSET Contacts]
          /\ campaign' \in Campaigns /\ recipient' \in [Contacts -> RecipientStates]
      BY <2>2, SameRows DEF Handled, Chunks!AnswerInv, Chunks!Typed, Chunks!TypeOK
    <2>4. StartTyped' /\ PageAtHand'
      BY <2>1, <2>3 DEF Base, StartTyped, StartTypeOK, PageAtHand, startOnly, startWorkerVars
    <2>5. /\ UNCHANGED payload
          /\ \A k \in ChunkIds : /\ chunkMsg'[k].st = "absent" <=> chunkMsg[k].st = "absent"
                                 /\ chunkMsg[k].st = "absent" => chunkMsg'[k] = chunkMsg[k]
      BY <2>1, ChunkSteps DEF Base, Handled
    <2>6. \A i \in Indexes : Copies(i)' = Copies(i)
      <3>1. \A i \in Indexes, g \in 1 .. Generations : <<i, g>> \in ChunkIds
        BY DEF ChunkIds, Indexes
      <3> QED
        BY <2>5, <3>1 DEF Copies
    <2>7. Fresh'
      BY <2>5, <2>6 DEF Base, Fresh
    <2> QED
      BY <2>2, <2>4, <2>7 DEF Base
  <1>3. CASE UNCHANGED vars
    <2>1. UNCHANGED <<startVars, due>> /\ Chunks!vars' = Chunks!vars
      BY <1>3 DEF vars, chunkOnly, startVars, startWorkerVars, Chunks!vars, Chunks!given, Chunks!rowVars,
         Chunks!workerVars, Chunks!sesVars, Chunks!pubVars
    <2>2. [Chunks!Next]_Chunks!vars
      BY <2>1
    <2>3. Handled'
      BY <2>2, ChunkConstants, Chunks!AnswerStep, Chunks!HeldStep DEF Base, Handled, Chunks!AnswerInv
    <2>4. StartTyped' /\ PageAtHand' /\ Fresh'
      BY <2>1 DEF Base, StartTyped, StartTypeOK, PageAtHand, Fresh, Copies, startVars, startWorkerVars
    <2> QED
      BY <2>3, <2>4 DEF Base
  <1> QED
    BY <1>1, <1>2, <1>3 DEF Next

\* All of it holds throughout.
LEMMA BaseAlways == Spec => []Base
  BY BaseInit, BaseStep, PTL DEF Spec

\* Whatever fails, every row, message and worker of the pipeline keeps its shape, and
\* a handler has only contacts of its own chunk at hand.
THEOREM TypeCorrect == Spec => []TypeOK
  <1>1. Base => TypeOK
    BY SameRows DEF Base, StartTyped, Handled, TypeOK, Chunks!AnswerInv, Chunks!Typed, Chunks!TypeOK, Chunk!TypeOK,
       Chunks!PCs, Chunk!PCs, Chunks!Results, Chunk!Results, Chunks!Unrecorded, Chunk!Unrecorded,
       Chunks!Verdicts, Chunk!Verdicts, Chunks!Msgs, Chunk!Msgs, Chunks!MsgStates, Chunk!MsgStates,
       Chunks!Campaigns, Chunk!Campaigns, Chunks!CampaignStates, Chunk!CampaignStates,
       Chunks!RecipientStates, Chunk!RecipientStates
  <1> QED
    BY <1>1, BaseAlways, PTL

\* Whatever the segment does and however often its pages are published, a chunk is
\* acked only when SES accepted or refused the email of each of its contacts, and is
\* given up only at its last delivery (handler.go:557-597).
THEOREM ChunkAnswersAreJustified == Spec => []Chunk!SettledIsJustified
  <1>1. Base => Chunk!SettledIsJustified
    BY DEF Base, Handled, Chunks!AnswerInv, Chunks!SettledIsJustified, Chunk!SettledIsJustified
  <1> QED
    BY <1>1, BaseAlways, PTL

-----------------------------------------------------------------------------
(***************************************************************************)
(* The campaign's row and its start message                                *)
(***************************************************************************)
\* Who may still fire the campaign, and what was fired: one scheduler, one message.
Claims ==
    /\ campaign.status = "scheduled" => due = {}
    /\ campaign.status = "scheduled" \/ due # {} => \A j \in Jobs : startMsg[j].st = "absent"
    /\ \A p, q \in due : p = q
    /\ \A i, j \in Jobs : startMsg[i].st # "absent" /\ startMsg[j].st # "absent" => i = j

\* What a step does to the campaign's row: one of the statements on it, or nothing.
LEMMA CampaignSteps ==
    ASSUME Base, [Next]_vars
    PROVE  \/ UNCHANGED campaign
           \/ campaign.status = "scheduled" /\ campaign' = Scheduler!Claimed(campaign) /\ ScheduleStep
           \/ \E total \in Nat : campaign' = Started(campaign, total)
           \/ campaign' \in {CompletedEmpty(campaign), CompletedIfCounted(campaign)}
           \/ \E n, m \in Nat : campaign' = Counted(campaign, n, m)
  <1> USE DEF Base
  <1>1. CASE ScheduleStep
    BY <1>1, ScheduleSteps
  <1>2. CASE ChunkStep
    BY <1>2, ChunkSteps DEF ChunkStep, Handled
  <1>3. CASE StartStep
    <2>1. ASSUME NEW w \in StartWorkers, UNCHANGED due, StartControl(w) \/ Insert(w) \/ Publish(w)
          PROVE  UNCHANGED campaign
      BY <2>1, StartControlStep, InsertStep, PublishStep
    <2>2. ASSUME NEW w \in StartWorkers, UNCHANGED due, Finish(w)
          PROVE  \/ UNCHANGED campaign \/ campaign' = CompletedEmpty(campaign)
                 \/ \E total \in Nat : campaign' = Started(campaign, total)
      BY <2>2, FinishStep
    <2> QED
      BY <1>3, <2>1, <2>2, OtherActions DEF ExpireStart, ChangeSegment, CloseWindow
  <1>4. CASE ChangeSegment \/ CloseWindow \/ UNCHANGED vars
    BY <1>4 DEF ChangeSegment, CloseWindow, vars, startVars
  <1> QED
    BY <1>1, <1>2, <1>3, <1>4 DEF Next

\* A campaign is 'scheduled' only until it is claimed, completed for good, and it is
\* completed only when its counters cover its total.
LEMMA StatusMoves ==
    ASSUME NEW c \in Campaigns, NEW d,
           \/ d = c \/ (c.status = "scheduled" /\ d = Scheduler!Claimed(c))
           \/ \E total \in Nat : d = Started(c, total)
           \/ d \in {CompletedEmpty(c), CompletedIfCounted(c)}
           \/ \E n, m \in Nat : d = Counted(c, n, m)
    PROVE  /\ d.status = "scheduled" => c.status = "scheduled"
           /\ c.status = "completed" => d.status = "completed" /\ d.total = c.total
           /\ (c.status = "completed" => c.sent + c.failed >= c.total)
                 => (d.status = "completed" => d.sent + d.failed >= d.total)
  <1>1. CASE d = c
    BY <1>1
  <1>2. CASE c.status = "scheduled" /\ d = Scheduler!Claimed(c)
    BY <1>2 DEF Scheduler!Claimed, Campaigns
  <1>3. ASSUME NEW total \in Nat, d = Started(c, total)
        PROVE  /\ d.status = "scheduled" => c.status = "scheduled"
               /\ c.status = "completed" => d = c
               /\ d.status = "completed" => d = c
    BY <1>3 DEF Started, Campaigns
  <1>4. CASE d = CompletedEmpty(c)
    BY <1>4 DEF CompletedEmpty, Campaigns
  <1>5. CASE d = CompletedIfCounted(c)
    BY <1>5 DEF CompletedIfCounted, AllCounted, Campaigns
  <1>6. ASSUME NEW n \in Nat, NEW m \in Nat, d = Counted(c, n, m)
        PROVE  /\ d.status = c.status /\ d.total = c.total
               /\ c.sent + c.failed >= c.total => d.sent + d.failed >= d.total
    <2>1. /\ d.status = c.status /\ d.total = c.total
          /\ d.sent = c.sent + n /\ d.failed = c.failed + m
      BY <1>6 DEF Counted, Campaigns
    <2>2. \A s, f, t \in Nat : s + f >= t => (s + n) + (f + m) >= t
      OBVIOUS
    <2>3. c.sent \in Nat /\ c.failed \in Nat /\ c.total \in Nat
      BY DEF Campaigns
    <2> QED
      BY <2>1, <2>2, <2>3
  <1> QED
    BY <1>1, <1>2, <1>3, <1>4, <1>5, <1>6

\* Before anything is claimed, at most the start message of the API is there.
LEMMA ClaimsInit == Init => Claims
  <1> SUFFICES ASSUME Init PROVE Claims
    OBVIOUS
  <1>1. NoMsg.st = "absent" /\ NewMsg.st = "queued"
    BY DEF NoMsg, NewMsg
  <1>2. /\ \/ \A j \in Jobs : startMsg[j].st = "absent"
           \/ /\ campaign.status = "queued"
              /\ \E first \in Jobs : \A j \in Jobs : j # first => startMsg[j].st = "absent"
        /\ due = {}
    BY <1>1 DEF Init, NewCampaign
  <1> QED
    BY <1>2 DEF Claims

\* A start message that is there stays, and none appears but by a scheduler.
LEMMA StartMessagesStay ==
    ASSUME Base, StartStep
    PROVE  \A j \in Jobs : startMsg'[j].st = "absent" <=> startMsg[j].st = "absent"
  <1> USE DEF Base, StartTyped, StartTypeOK
  <1>1. ASSUME NEW w \in StartWorkers, NEW i \in Jobs, ReceiveStart(w, i)
        PROVE  \A j \in Jobs : startMsg'[j].st = "absent" <=> startMsg[j].st = "absent"
    BY <1>1 DEF ReceiveStart, Deliverable, Delivered
  <1>2. ASSUME NEW w \in StartWorkers, AnswerStart(w)
        PROVE  \A j \in Jobs : startMsg'[j].st = "absent" <=> startMsg[j].st = "absent"
    <2>1. sverdict[w] \in Verdicts /\ sjob[w] \in Jobs \cup {None} /\ None \notin Jobs
      BY StartAssumption
    <2>2. startMsg' = [startMsg EXCEPT ![sjob[w]] = Answered(@, sverdict[w], MaxAttempts)]
      BY <1>2 DEF AnswerStart
    <2>3. \A j \in Jobs : startMsg[j] \in Msgs
      OBVIOUS
    <2>4. \A j \in Jobs : Answered(startMsg[j], sverdict[w], MaxAttempts).st = "absent"
                             <=> startMsg[j].st = "absent"
      BY <2>1, <2>3, MessageFacts
    <2> QED
      BY <2>1, <2>2, <2>4
  <1>3. ASSUME NEW i \in Jobs, ExpireStart(i)
        PROVE  \A j \in Jobs : startMsg'[j].st = "absent" <=> startMsg[j].st = "absent"
    <2>1. startMsg' = [startMsg EXCEPT ![i] = Requeued(@, MaxAttempts)]
      BY <1>3 DEF ExpireStart
    <2>2. Requeued(startMsg[i], MaxAttempts).st = "absent" <=> startMsg[i].st = "absent"
      BY MessageFacts
    <2> QED
      BY <2>1, <2>2
  <1>4. CASE UNCHANGED startMsg
    BY <1>4
  <1>5. ASSUME NEW w \in StartWorkers, WorkStart(w) \/ CrashStart(w)
        PROVE  UNCHANGED startMsg \/ AnswerStart(w)
    BY <1>5 DEF WorkStart, ValidateStart, GetStatus, Fetch, Insert, Publish, Finish, CrashStart
  <1> QED
    BY <1>1, <1>2, <1>3, <1>4, <1>5 DEF StartStep, StartNext

\* A scheduler fires only what it alone claimed (client.go:1140-1142).
LEMMA ClaimsStep == Base /\ Claims /\ [Next]_vars => Claims'
  <1> SUFFICES ASSUME Base, Claims, [Next]_vars PROVE Claims'
    OBVIOUS
  <1>1. campaign \in Campaigns /\ startMsg \in [Jobs -> Msgs]
    BY DEF Base, StartTyped, StartTypeOK
  <1>2. campaign'.status = "scheduled" => campaign.status = "scheduled"
    BY <1>1, CampaignSteps, StatusMoves
  <1>3. CASE ScheduleStep
    <2>1. CASE /\ campaign.status = "scheduled" /\ campaign' = Scheduler!Claimed(campaign)
               /\ UNCHANGED startMsg
               /\ \E p \in Schedulers : due' \in {due, due \cup {p}}
      <3>1. due = {} /\ \A j \in Jobs : startMsg[j].st = "absent"
        BY <2>1 DEF Claims
      <3>2. campaign'.status # "scheduled"
        BY <1>1, <2>1 DEF Scheduler!Claimed, Campaigns
      <3> QED
        BY <2>1, <3>1, <3>2 DEF Claims
    <2>2. CASE /\ UNCHANGED campaign
               /\ \E p \in due : due' = due \ {p}
               /\ \/ UNCHANGED startMsg
                  \/ \E j \in Jobs : startMsg' = [startMsg EXCEPT ![j] = NewMsg]
      <3>1. /\ due # {} /\ due' = {} /\ campaign'.status # "scheduled"
            /\ \A j \in Jobs : startMsg[j].st = "absent"
        BY <2>2 DEF Claims
      <3> QED
        BY <1>1, <2>2, <3>1 DEF Claims
    <2> QED
      BY <1>3, <2>1, <2>2, ScheduleSteps DEF Base
  <1>4. CASE StartStep
    <2>1. UNCHANGED due
      BY <1>4 DEF StartStep
    <2> QED
      BY <1>2, <1>4, <2>1, StartMessagesStay DEF Claims
  <1>5. CASE ChunkStep \/ ChangeSegment \/ CloseWindow \/ UNCHANGED vars
    <2>1. UNCHANGED <<due, startMsg>>
      BY <1>5 DEF ChunkStep, startOnly, ChangeSegment, CloseWindow, vars, startVars
    <2> QED
      BY <1>2, <2>1 DEF Claims
  <1> QED
    BY <1>3, <1>4, <1>5 DEF Next

\* However many replicas poll, and whatever fails, there is one start message at most
\* (client.go:1140-1142).
THEOREM FiredAtMostOnce == Spec => []FiredOnce
  <1>1. Base /\ Claims => FiredOnce
    <2> SUFFICES ASSUME Base, Claims PROVE FiredOnce
      OBVIOUS
    <2> DEFINE fired == {j \in DOMAIN startMsg : startMsg[j].st # "absent"}
    <2>1. DOMAIN startMsg = Jobs
      BY DEF Base, StartTyped, StartTypeOK
    <2>2. \A i, j \in fired : i = j
      BY <2>1 DEF Claims
    <2>3. CASE fired = {}
      BY <2>3, FS_EmptySet DEF FiredOnce
    <2>4. CASE fired # {}
      <3>1. PICK j \in fired : fired = {j}
        BY <2>2, <2>4
      <3>2. Cardinality(fired) = 1
        BY <3>1, FS_Singleton
      <3> QED
        BY <3>2 DEF FiredOnce
    <2> QED
      BY <2>3, <2>4
  <1> QED
    BY <1>1, BaseAlways, ClaimsInit, ClaimsStep, PTL DEF Spec

\* Whoever completes the campaign, and whenever its total is written, its counters
\* cover its total (client.go:321-349).
THEOREM CompletedIsCounted == Spec => []CompletedMeansCounted
  <1>1. Init => CompletedMeansCounted
    BY DEF Init, NewCampaign, CompletedMeansCounted
  <1>2. Base /\ CompletedMeansCounted /\ [Next]_vars => CompletedMeansCounted'
    <2> SUFFICES ASSUME Base, CompletedMeansCounted, [Next]_vars PROVE CompletedMeansCounted'
      OBVIOUS
    <2>1. campaign \in Campaigns
      BY DEF Base, StartTyped, StartTypeOK
    <2> QED
      BY <2>1, CampaignSteps, StatusMoves DEF CompletedMeansCounted
  <1> QED
    BY <1>1, <1>2, BaseAlways, PTL DEF Spec

\* Nothing takes a campaign out of 'completed' or rewrites its total then: not a start
\* job delivered again, nor one still streaming (client.go:274-290).
THEOREM CompletedStays == Spec => CompletedIsFinal
  <1>1. Base /\ [Next]_vars =>
           [campaign.status = "completed" =>
               campaign'.status = "completed" /\ campaign'.total = campaign.total]_vars
    <2> SUFFICES ASSUME Base, [Next]_vars, campaign.status = "completed"
                 PROVE  campaign'.status = "completed" /\ campaign'.total = campaign.total
      OBVIOUS
    <2>1. campaign \in Campaigns
      BY DEF Base, StartTyped, StartTypeOK
    <2> QED
      BY <2>1, CampaignSteps, StatusMoves
  <1> QED
    BY <1>1, BaseAlways, PTL DEF Spec, CompletedIsFinal


-----------------------------------------------------------------------------
(***************************************************************************)
(* Pages and chunks, while the segment stays the same                      *)
(***************************************************************************)
\* The segment's query returns the same contacts throughout.
SegmentStays == \A S, T \in Segments : S = T

\* The contacts of chunk i, and where its page begins: after the last contact of the
\* page before.
Page(i) == payload[<<i, 1>>]
Cut(i) == IF i = 0 THEN 0 ELSE LastOf(Page(i - 1))

\* The contacts of the segment up to an id.
UpTo(last) == {c \in segment : c <= last}

\* A contact has its row and is in a chunk.
Reached(c) == recipient[c] # "none" /\ \E k \in ChunkIds : c \in payload[k]

\* Each chunk is published once, and is the page that follows the chunks before it.
Paged ==
    /\ window = TRUE
    /\ \A k \in ChunkIds : chunkMsg[k].st = "absent" <=> payload[k] = {}
    /\ \A i \in Indexes, g \in 2 .. Generations : payload[<<i, g>>] = {}
    /\ \A i, j \in Indexes : i < j /\ Page(j) # {} =>
          Page(i) # {} /\ \A c \in Page(i), d \in Page(j) : c < d
    /\ \A i \in Indexes : Page(i) # {} =>
          /\ Page(i) = NextBatch(Cut(i))
          /\ \A c \in UpTo(LastOf(Page(i))) : Reached(c)

\* A run of the paging went along these pages, and has counted what it passed.
Walked(p) ==
    /\ p.idx <= MaxChunks /\ \A i \in 0 .. p.idx - 1 : Page(i) # {}
    /\ p.after = Cut(p.idx)
    /\ p.total = Cardinality(UpTo(p.after))

AtBatch(p) == p.idx < MaxChunks /\ p.batch = NextBatch(p.after) /\ p.batch # {}

Passed(p) == p.total = Cardinality(segment) /\ \A c \in segment : Reached(c)

OnPage(w) ==
    /\ spc[w] \in {"idle", "validate", "status"} => page[w] = FirstPage
    /\ spc[w] \in {"fetch", "insert", "publish"} => Walked(page[w])
    /\ spc[w] \in {"insert", "publish"} => AtBatch(page[w])
    /\ spc[w] = "publish" => \A c \in page[w].batch : recipient[c] # "none"
    /\ spc[w] = "finish" => Passed(page[w])

\* A recorded total is that of a finished run.
Recorded ==
    campaign.total > 0 =>
       campaign.total = Cardinality(segment) /\ \A c \in segment : Reached(c)

PubInv == Paged /\ (\A w \in StartWorkers : OnPage(w)) /\ Recorded

\* What a page is (client.go:221-257): contacts after the last one, none only at the
\* end, no gap before its own last, and the rest of the segment when it is not full.
LEMMA NextBatchFacts ==
    ASSUME StartTyped, NEW after \in Nat, NEW B, B = NextBatch(after)
    PROVE  /\ B \subseteq segment /\ B \subseteq Nat /\ IsFiniteSet(B)
           /\ \A c \in B : c > after
           /\ B = {} => UpTo(after) = segment
           /\ B # {} => LastOf(B) \in B /\ LastOf(B) > after /\ UpTo(LastOf(B)) = UpTo(after) \cup B
           /\ Cardinality(B) < ChunkSize => segment = UpTo(after) \cup B
  <1> DEFINE T == {c \in segment : c > after}
  <1>1. segment \in SUBSET Contacts /\ segment \subseteq Nat /\ T \in SUBSET Contacts
    BY ContactFacts DEF StartTyped, StartTypeOK
  <1>2. T \subseteq Nat /\ IsFiniteSet(T)
    BY <1>1, ContactFacts
  <1>3. B = {c \in T : Cardinality({d \in T : d < c}) < ChunkSize}
    BY DEF NextBatch
  <1>4. /\ B = {} => T = {}
        /\ \A c \in B, d \in T : d <= c => d \in B
        /\ Cardinality(B) < ChunkSize => B = T
    BY <1>2, <1>3, ChunkSizeAssumption, FirstOfSet
  <1>5. B \subseteq T
    BY <1>3
  <1>6. B \subseteq segment /\ B \subseteq Nat /\ IsFiniteSet(B) /\ \A c \in B : c > after
    BY <1>1, <1>2, <1>5, FS_Subset
  <1>7. \A c \in segment : c <= after \/ c \in T
    <2>1. \A c \in segment : c \in Nat
      BY <1>1
    <2> QED
      BY <2>1
  <1>8. UpTo(after) \subseteq segment
    BY DEF UpTo
  <1>9. B = {} => UpTo(after) = segment
    BY <1>4, <1>7 DEF UpTo
  <1>10. Cardinality(B) < ChunkSize => segment = UpTo(after) \cup B
    BY <1>4, <1>6, <1>7, <1>8 DEF UpTo
  <1>11. ASSUME B # {}
         PROVE  LastOf(B) \in B /\ LastOf(B) > after /\ UpTo(LastOf(B)) = UpTo(after) \cup B
    <2> DEFINE last == LastOf(B)
    <2>1. last \in B /\ \A c \in B : c <= last
      BY <1>6, <1>11, LastOfFacts
    <2>2. last \in Nat /\ last > after
      BY <1>6, <2>1
    <2> HIDE DEF last
    <2>3. ASSUME NEW c \in segment, c <= last PROVE c <= after \/ c \in B
      BY <1>4, <1>7, <2>1, <2>3
    <2>4. ASSUME NEW c \in segment, c <= after PROVE c <= last
      <3>1. c \in Nat
        BY <1>1
      <3> QED
        BY <2>2, <2>4, <3>1
    <2>5. UpTo(last) = UpTo(after) \cup B
      BY <1>6, <2>1, <2>3, <2>4 DEF UpTo
    <2> QED
      BY <2>1, <2>2, <2>5 DEF last
  <1> QED
    BY <1>6, <1>9, <1>10, <1>11

\* The contacts up to an id and the page after it add up (batcher.go:160-161).
LEMMA PagesAddUp ==
    ASSUME StartTyped, NEW after \in Nat, NEW B, B = NextBatch(after)
    PROVE  Cardinality(UpTo(after) \cup B) = Cardinality(UpTo(after)) + Cardinality(B)
  <1>1. B \subseteq Nat /\ IsFiniteSet(B) /\ \A c \in B : c > after
    BY NextBatchFacts
  <1>2. IsFiniteSet(UpTo(after))
    <2>1. UpTo(after) \in SUBSET Contacts
      BY DEF UpTo, StartTyped, StartTypeOK
    <2> QED
      BY <2>1, ContactFacts
  <1>3. UpTo(after) \cap B = {}
    <2>1. \A c \in B : ~(c <= after)
      <3>1. \A c \in B : c \in Nat /\ c > after
        BY <1>1
      <3> QED
        BY <3>1
    <2> QED
      BY <2>1 DEF UpTo
  <1>4. Cardinality({}) = 0 /\ Cardinality(UpTo(after)) \in Nat /\ Cardinality(B) \in Nat
    BY <1>1, <1>2, FS_EmptySet, FS_CardinalityType
  <1>5. Cardinality(UpTo(after) \cup B) = Cardinality(UpTo(after)) + Cardinality(B) - Cardinality({})
    BY <1>1, <1>2, <1>3, FS_Union
  <1>6. \A m, n \in Nat : m + n - 0 = m + n
    OBVIOUS
  <1> QED
    BY <1>4, <1>5, <1>6

\* No contact comes before the first.
LEMMA NobodyUpToZero ==
    ASSUME StartTyped
    PROVE  UpTo(0) = {} /\ Cardinality(UpTo(0)) = 0
  <1>1. \A c \in segment : c \in Nat /\ c # 0
    BY ContactsAssumption DEF StartTyped, StartTypeOK
  <1>2. UpTo(0) = {}
    BY <1>1 DEF UpTo
  <1> QED
    BY <1>2, FS_EmptySet

\* Published pages and rows stay, and so does the segment.
Kept ==
    /\ UNCHANGED <<segment, window>>
    /\ \A i \in Indexes : Page(i) # {} => Page(i)' = Page(i)
    /\ \A k \in ChunkIds : payload[k] \subseteq payload'[k]
    /\ \A c \in Contacts : recipient[c] # "none" => recipient'[c] # "none"

\* Then what was reached stays reached, and what was walked stays walked.
LEMMA ReachedStays ==
    ASSUME Kept, NEW c \in Contacts, Reached(c)
    PROVE  Reached(c)'
  BY DEF Kept, Reached

\* The contacts up to an id, and the page after it, depend on the segment only.
LEMMA SameSegment ==
    ASSUME UNCHANGED segment, NEW after
    PROVE  UpTo(after)' = UpTo(after) /\ NextBatch(after)' = NextBatch(after)
  BY DEF UpTo, NextBatch

\* So the page begins where it began, when the page before it is there,
LEMMA CutStays ==
    ASSUME Kept, NEW i \in Nat, i <= MaxChunks, i # 0 => Page(i - 1) # {}
    PROVE  Cut(i)' = Cut(i)
  <1>1. CASE i = 0
    BY <1>1 DEF Cut
  <1>2. CASE i # 0
    <2>1. i - 1 \in Indexes
      BY <1>2, BoundsAssumption DEF Indexes
    <2>2. Page(i - 1)' = Page(i - 1)
      BY <1>2, <2>1 DEF Kept
    <2> QED
      BY <1>2, <2>2 DEF Cut
  <1> QED
    BY <1>1, <1>2

\* the way of a run stays walked,
LEMMA WalkedStays ==
    ASSUME Kept, NEW p \in Pages, Walked(p)
    PROVE  Walked(p)'
  <1>1. p.idx \in Nat /\ p.idx <= MaxChunks /\ \A i \in 0 .. p.idx - 1 : Page(i) # {}
    BY DEF Pages, Walked
  <1>2. \A i \in 0 .. p.idx - 1 : i \in Indexes
    BY <1>1, BoundsAssumption DEF Indexes
  <1>3. \A i \in 0 .. p.idx - 1 : Page(i)' # {}
    BY <1>1, <1>2 DEF Kept
  <1>4. p.idx # 0 => p.idx - 1 \in 0 .. p.idx - 1
    BY <1>1
  <1>5. Cut(p.idx)' = Cut(p.idx)
    BY <1>1, <1>4, CutStays
  <1>6. UpTo(p.after)' = UpTo(p.after)
    BY SameSegment DEF Kept
  <1> QED
    BY <1>1, <1>3, <1>5, <1>6 DEF Walked

\* and a finished run has passed the whole segment.
LEMMA PassedStays ==
    ASSUME StartTyped, Kept, NEW p, Passed(p)
    PROVE  Passed(p)'
  <1>1. segment' = segment /\ segment \subseteq Contacts
    BY DEF Kept, StartTyped, StartTypeOK
  <1> QED
    BY <1>1, ReachedStays DEF Passed

\* A start worker that does not move stays on its page.
LEMMA OnPageStays ==
    ASSUME StartTyped, Kept, NEW v \in StartWorkers, OnPage(v), spc'[v] = spc[v], page'[v] = page[v]
    PROVE  OnPage(v)'
  <1> DEFINE p == page[v]
  <1>1. p \in Pages /\ p.batch \subseteq Contacts
    BY DEF StartTyped, StartTypeOK, Pages
  <1>2. Walked(p) => Walked(p)'
    BY <1>1, WalkedStays
  <1>3. AtBatch(p) => AtBatch(p)'
    BY SameSegment DEF Kept, AtBatch
  <1>4. Passed(p) => Passed(p)'
    BY PassedStays
  <1>5. ASSUME \A c \in p.batch : recipient[c] # "none" PROVE \A c \in p.batch : recipient'[c] # "none"
    BY <1>1, <1>5 DEF Kept
  <1>6. page'[v] = p /\ spc'[v] = spc[v]
    OBVIOUS
  <1>7. /\ spc[v] \in {"idle", "validate", "status"} => p = FirstPage
        /\ spc[v] \in {"fetch", "insert", "publish"} => Walked(p)
        /\ spc[v] \in {"insert", "publish"} => AtBatch(p)
        /\ spc[v] = "publish" => \A c \in p.batch : recipient[c] # "none"
        /\ spc[v] = "finish" => Passed(p)
    BY DEF OnPage
  <1>8. /\ spc'[v] \in {"idle", "validate", "status"} => page'[v] = FirstPage
        /\ spc'[v] = "publish" => \A c \in page'[v].batch : recipient'[c] # "none"
    BY <1>5, <1>6, <1>7
  <1> HIDE DEF p
  <1>9. Walked(p)' = Walked(page[v])' /\ AtBatch(p)' = AtBatch(page[v])' /\ Passed(p)' = Passed(page[v])'
    BY <1>6 DEF p, Walked, AtBatch, Passed
  <1> QED
    BY <1>2, <1>3, <1>4, <1>6, <1>7, <1>8, <1>9 DEF OnPage

\* The pages stay pages when no chunk is published (batcher.go:148-150).
LEMMA PagedStays ==
    ASSUME StartTyped, Paged, Kept, UNCHANGED payload,
           \A k \in ChunkIds : chunkMsg'[k].st = "absent" <=> chunkMsg[k].st = "absent"
    PROVE  Paged'
  <1>1. \A i : Page(i)' = Page(i) /\ Cut(i)' = Cut(i) /\ NextBatch(Cut(i))' = NextBatch(Cut(i))
    BY SameSegment DEF Page, Cut, Kept
  <1>2. ASSUME NEW i \in Indexes, Page(i) # {}, NEW c \in UpTo(LastOf(Page(i)))' PROVE Reached(c)'
    <2>1. c \in UpTo(LastOf(Page(i))) /\ c \in Contacts
      BY <1>1, <1>2 DEF UpTo, Kept, StartTyped, StartTypeOK
    <2> QED
      BY <1>2, <2>1, ReachedStays DEF Paged
  <1>3. /\ window' = TRUE
        /\ \A k \in ChunkIds : chunkMsg'[k].st = "absent" <=> payload'[k] = {}
        /\ \A i \in Indexes, g \in 2 .. Generations : payload'[<<i, g>>] = {}
    BY DEF Paged, Kept
  <1>4. \A i, j \in Indexes : i < j /\ Page(j)' # {} =>
           Page(i)' # {} /\ \A c \in Page(i)', d \in Page(j)' : c < d
    BY <1>1 DEF Paged
  <1>5. \A i \in Indexes : Page(i)' # {} =>
           Page(i)' = NextBatch(Cut(i))' /\ \A c \in UpTo(LastOf(Page(i)))' : Reached(c)'
    BY <1>1, <1>2 DEF Paged
  <1> QED
    BY <1>3, <1>4, <1>5 DEF Paged

\* All contacts up to the beginning of a page were reached.
LEMMA ReachedUpToCut ==
    ASSUME StartTyped, Paged, NEW i \in Nat, i <= MaxChunks, i # 0 => Page(i - 1) # {}
    PROVE  Cut(i) \in Nat /\ \A c \in UpTo(Cut(i)) : Reached(c)
  <1>1. CASE i = 0
    BY <1>1, NobodyUpToZero DEF Cut
  <1>2. CASE i # 0
    <2>1. i - 1 \in Indexes
      BY <1>2, BoundsAssumption DEF Indexes
    <2>2. <<i - 1, 1>> \in ChunkIds
      BY <2>1, BoundsAssumption DEF Indexes, ChunkIds
    <2>3. Page(i - 1) \in SUBSET Contacts /\ Page(i - 1) # {}
      BY <1>2, <2>2 DEF Page, StartTyped, StartTypeOK
    <2>4. Cut(i) = LastOf(Page(i - 1))
      BY <1>2 DEF Cut
    <2>5. Cut(i) \in Nat
      BY <2>3, <2>4, ContactFacts, LastOfFacts
    <2>6. \A c \in UpTo(LastOf(Page(i - 1))) : Reached(c)
      BY <1>2, <2>1 DEF Paged
    <2> QED
      BY <2>4, <2>5, <2>6
  <1> QED
    BY <1>1, <1>2

\* What the worker on its way knows of its place.
LEMMA Place ==
    ASSUME StartTyped, Paged, NEW p \in Pages, Walked(p)
    PROVE  /\ p.idx \in Nat /\ p.after \in Nat /\ p.idx <= MaxChunks
           /\ p.idx # 0 => Page(p.idx - 1) # {}
           /\ p.after = Cut(p.idx)
           /\ \A c \in UpTo(p.after) : Reached(c)
  <1>1. /\ p.idx \in Nat /\ p.idx <= MaxChunks /\ \A i \in 0 .. p.idx - 1 : Page(i) # {}
        /\ p.after = Cut(p.idx)
    BY DEF Pages, Walked
  <1>2. p.idx # 0 => p.idx - 1 \in 0 .. p.idx - 1
    BY <1>1
  <1>3. p.idx # 0 => Page(p.idx - 1) # {}
    BY <1>1, <1>2
  <1> QED
    BY <1>1, <1>3, ReachedUpToCut

\* Publishing the page at hand: its chunk is there, as the page at hand, or it is
\* stored now, after all chunks before it (batcher.go:148-150).
LEMMA PagePublished ==
    ASSUME StartTyped, StartTyped', Fresh, Paged, UNCHANGED <<segment, window, recipient>>,
           NEW p \in Pages, p.idx \in Indexes, Walked(p), AtBatch(p),
           \A c \in p.batch : recipient[c] # "none",
           PublishChunk(p.idx, p.batch)
    PROVE  Kept /\ Paged' /\ Page(p.idx)' = p.batch
  <1> DEFINE idx == p.idx
             batch == p.batch
  <1>1. /\ idx \in Nat /\ idx < MaxChunks /\ batch = NextBatch(Cut(idx)) /\ batch # {}
        /\ p.after = Cut(idx) /\ Cut(idx) \in Nat /\ batch \subseteq Contacts
        /\ idx # 0 => Page(idx - 1) # {}
        /\ \A c \in UpTo(Cut(idx)) : Reached(c)
    BY Place DEF AtBatch, Pages
  <1>2. /\ batch \subseteq segment /\ batch \subseteq Nat /\ IsFiniteSet(batch)
        /\ \A c \in batch : c > Cut(idx)
        /\ LastOf(batch) \in batch /\ UpTo(LastOf(batch)) = UpTo(Cut(idx)) \cup batch
    BY <1>1, NextBatchFacts
  <1>3. 1 \in 1 .. Generations /\ \A i \in Indexes : <<i, 1>> \in ChunkIds
    BY BoundsAssumption DEF ChunkIds, Indexes
  <1>4. CASE ~Stored(idx)
    <2>1. UNCHANGED <<chunkMsg, payload>>
      BY <1>4 DEF PublishChunk
    <2>2. Kept
      BY <2>1 DEF Kept, Page
    <2>3. Paged'
      BY <2>1, <2>2, PagedStays
    <2>4. Page(idx) # {}
      <3>1. PICK g \in 1 .. Generations : chunkMsg[<<idx, g>>].st # "absent"
        BY <1>4 DEF Stored, Copies
      <3>2. <<idx, g>> \in ChunkIds
        BY DEF ChunkIds, Indexes
      <3>3. payload[<<idx, g>>] # {}
        BY <3>1, <3>2 DEF Paged
      <3>4. g = 1
        <4>1. g \notin 2 .. Generations
          BY <3>3 DEF Paged
        <4> QED
          BY <4>1
      <3> QED
        BY <3>3, <3>4 DEF Page
    <2>5. Page(idx) = batch
      BY <1>1, <2>4 DEF Paged
    <2> QED
      BY <2>1, <2>2, <2>3, <2>5 DEF Page
  <1>5. CASE Stored(idx)
    <2>1. Copies(idx) = {}
      BY <1>5 DEF Stored, Paged
    <2>2. Page(idx) = {}
      BY <1>3, <2>1 DEF Copies, Paged, Page
    <2>3. PICK g \in 1 .. Generations :
             /\ Copies(idx) = 1 .. (g - 1)
             /\ chunkMsg' = [chunkMsg EXCEPT ![<<idx, g>>] = NewMsg]
             /\ payload' = [payload EXCEPT ![<<idx, g>>] = batch]
      BY <1>5, PublishFacts DEF Pages
    <2>4. g = 1
      <3>1. Copies(idx) = {} /\ Copies(idx) = 1 .. (g - 1)
        BY <2>1, <2>3
      <3>2. g \in Nat \ {0}
        BY BoundsAssumption
      <3>3. 1 \notin 1 .. (g - 1)
        BY <3>1
      <3> QED
        BY <3>2, <3>3
    <2>5. /\ chunkMsg' = [chunkMsg EXCEPT ![<<idx, 1>>] = NewMsg]
          /\ payload' = [payload EXCEPT ![<<idx, 1>>] = batch]
          /\ chunkMsg \in [ChunkIds -> Msgs] /\ payload \in [ChunkIds -> SUBSET Contacts]
      BY <2>3, <2>4 DEF StartTyped, StartTypeOK
    <2> HIDE DEF idx, batch
    <2>6. /\ Page(idx)' = batch
          /\ \A i \in Indexes \ {idx} : Page(i)' = Page(i)
          /\ \A i \in Indexes, h \in 2 .. Generations : payload'[<<i, h>>] = payload[<<i, h>>]
      <3>1. <<idx, 1>> \in ChunkIds
        BY <1>3 DEF idx
      <3> QED
        BY <2>5, <3>1 DEF Page
    <2>7. Kept
      BY <2>2, <2>5, <2>6 DEF Kept, Page, Indexes
    <2>8. ASSUME NEW i \in Indexes, NEW j \in Indexes, i < j, Page(j)' # {}
          PROVE  Page(i)' # {} /\ \A c \in Page(i)', d \in Page(j)' : c < d
      <3>1. CASE j = idx
        <4>1. idx - 1 \in Indexes /\ i <= idx - 1 /\ Page(idx - 1) # {} /\ idx # i
          <5>1. idx \in Nat /\ idx < MaxChunks /\ i \in Nat /\ i < idx /\ MaxChunks \in Nat
            BY <1>1, <2>8, <3>1, BoundsAssumption DEF Indexes, idx
          <5>2. idx - 1 \in Indexes /\ i <= idx - 1 /\ idx # 0 /\ idx # i
            BY <5>1 DEF Indexes
          <5> QED
            BY <1>1, <5>2 DEF idx
        <4>2. Page(idx - 1) \in SUBSET Contacts
          BY <1>3, <4>1 DEF Page, StartTyped, StartTypeOK
        <4>3. Cut(idx) = LastOf(Page(idx - 1)) /\ \A c \in Page(idx - 1) : c <= Cut(idx)
          <5>1. \A c \in Page(idx - 1) : c <= LastOf(Page(idx - 1))
            BY <4>1, <4>2, ContactFacts, LastOfFacts
          <5>2. idx # 0
            BY <2>8, <3>1 DEF Indexes
          <5> QED
            BY <5>1, <5>2 DEF Cut
        <4>4. Page(i) # {} /\ \A c \in Page(i) : c <= Cut(idx)
          <5>1. CASE i = idx - 1
            BY <4>1, <4>3, <5>1
          <5>2. CASE i # idx - 1
            <6>1. i < idx - 1
              BY <4>1, <5>2 DEF Indexes
            <6>2. Page(i) # {} /\ \A c \in Page(i), d \in Page(idx - 1) : c < d
              BY <4>1, <6>1 DEF Paged
            <6>3. Cut(idx) \in Page(idx - 1)
              BY <4>1, <4>2, <4>3, ContactFacts, LastOfFacts
            <6>4. \A c \in Page(i) : c \in Nat
              BY <1>3, ContactsAssumption DEF Page, StartTyped, StartTypeOK
            <6>5. \A c \in Page(i) : c < Cut(idx)
              BY <6>2, <6>3
            <6> QED
              BY <1>1, <6>2, <6>4, <6>5
          <5> QED
            BY <5>1, <5>2
        <4>5. Page(i)' = Page(i) /\ Page(j)' = batch
          BY <2>6, <3>1, <4>1
        <4>6. ASSUME NEW c \in Page(i), NEW d \in batch PROVE c < d
          <5>1. c \in Nat /\ c <= Cut(idx) /\ d \in Nat /\ d > Cut(idx)
            BY <1>2, <1>3, <4>4, ContactsAssumption DEF Page, StartTyped, StartTypeOK, batch
          <5> QED
            BY <1>1, <5>1
        <4> QED
          BY <4>4, <4>5, <4>6
      <3>2. CASE j # idx
        <4>1. Page(j) # {} /\ Page(j)' = Page(j)
          BY <2>6, <2>8, <3>2
        <4>2. Page(i) # {} /\ \A c \in Page(i), d \in Page(j) : c < d
          BY <2>8, <4>1 DEF Paged
        <4>3. i # idx
          BY <2>2, <4>2
        <4> QED
          BY <2>6, <4>1, <4>2, <4>3
      <3> QED
        BY <3>1, <3>2
    <2>9. ASSUME NEW i \in Indexes, Page(i)' # {}
          PROVE  Page(i)' = NextBatch(Cut(i))' /\ \A c \in UpTo(LastOf(Page(i)))' : Reached(c)'
      <3>1. CASE i = idx
        <4>1. Cut(idx)' = Cut(idx)
          <5>1. idx \in Nat /\ idx <= MaxChunks /\ (idx # 0 => Page(idx - 1) # {})
            BY <1>1, BoundsAssumption DEF idx
          <5> QED
            BY <2>7, <5>1, CutStays
        <4>2. NextBatch(Cut(i))' = batch
          BY <1>1, <3>1, <4>1 DEF NextBatch, batch, idx
        <4>3. UpTo(LastOf(Page(i)))' = UpTo(Cut(idx)) \cup batch
          BY <1>2, <2>6, <3>1 DEF UpTo, batch, idx
        <4>4. ASSUME NEW c \in UpTo(Cut(idx)) PROVE Reached(c)'
          <5>1. c \in Contacts /\ Reached(c)
            BY <1>1 DEF UpTo, StartTyped, StartTypeOK, idx
          <5> QED
            BY <2>7, <5>1, ReachedStays
        <4>5. ASSUME NEW c \in batch PROVE Reached(c)'
          <5>1. recipient'[c] # "none"
            BY DEF batch
          <5>2. c \in payload'[<<idx, 1>>] /\ <<idx, 1>> \in ChunkIds
            BY <1>3, <2>6 DEF Page, idx
          <5> QED
            BY <5>1, <5>2 DEF Reached
        <4> QED
          BY <2>6, <3>1, <4>2, <4>3, <4>4, <4>5
      <3>2. CASE i # idx
        <4>1. Page(i) # {} /\ Page(i)' = Page(i)
          BY <2>6, <2>9, <3>2
        <4>2. i \in Nat /\ i <= MaxChunks /\ (i # 0 => Page(i - 1) # {})
          <5>1. i \in Nat /\ i <= MaxChunks
            BY BoundsAssumption DEF Indexes
          <5>2. i # 0 => i - 1 \in Indexes /\ i - 1 < i
            BY BoundsAssumption DEF Indexes
          <5> QED
            BY <4>1, <5>1, <5>2 DEF Paged
        <4>3. Cut(i)' = Cut(i)
          BY <2>7, <4>2, CutStays
        <4>4. Page(i)' = NextBatch(Cut(i))'
          <5>1. Page(i) = NextBatch(Cut(i))
            BY <4>1 DEF Paged
          <5>2. NextBatch(Cut(i))' = NextBatch(Cut(i))
            BY <4>3 DEF NextBatch
          <5> QED
            BY <4>1, <5>1, <5>2
        <4>5. ASSUME NEW c \in UpTo(LastOf(Page(i)))' PROVE Reached(c)'
          <5>1. c \in UpTo(LastOf(Page(i))) /\ c \in Contacts
            BY <4>1, <4>5 DEF UpTo, StartTyped, StartTypeOK
          <5> QED
            BY <2>7, <4>1, <5>1, ReachedStays DEF Paged
        <4> QED
          BY <4>4, <4>5
      <3> QED
        BY <3>1, <3>2
    <2>10. window' = TRUE /\ \A i \in Indexes, h \in 2 .. Generations : payload'[<<i, h>>] = {}
      BY <2>6 DEF Paged
    <2>11. \A k \in ChunkIds : chunkMsg'[k].st = "absent" <=> payload'[k] = {}
      <3>1. NewMsg.st # "absent" /\ batch # {}
        BY <1>1 DEF NewMsg, batch
      <3> QED
        BY <2>5, <3>1 DEF Paged
    <2>12. Paged'
      BY <2>8, <2>9, <2>10, <2>11 DEF Paged
    <2> QED
      BY <2>6, <2>7, <2>12 DEF idx, batch
  <1> QED
    BY <1>4, <1>5

\* One start worker moves at a time, and none changes the segment.
LEMMA OneWalks ==
    ASSUME StartTyped, NEW w \in StartWorkers, StartControl(w) \/ Insert(w) \/ Publish(w) \/ Finish(w)
    PROVE  /\ \A v \in StartWorkers \ {w} : spc'[v] = spc[v] /\ page'[v] = page[v]
           /\ UNCHANGED <<segment, window>>
  BY DEF StartControl, ReceiveStart, ValidateStart, GetStatus, Fetch, AnswerStart, CrashStart,
     Insert, Publish, Finish, GotoS, AnswerS, ReleaseS, StartTyped, StartTypeOK

\* A worker that answers, or is idle again, is on no page.
LEMMA OffPage ==
    ASSUME NEW w \in StartWorkers, spc'[w] = "answer" \/ (spc'[w] = "idle" /\ page'[w] = FirstPage)
    PROVE  OnPage(w)'
  BY DEF OnPage

\* The steps of a run from its first page to a batch at hand (batcher.go:107-124).
LEMMA ControlWalks ==
    ASSUME StartTyped, Paged, NEW w \in StartWorkers, OnPage(w), StartControl(w),
           UNCHANGED <<segment, payload, recipient>>
    PROVE  OnPage(w)'
  <1> USE DEF StartTyped, StartTypeOK
  <1> DEFINE p == page[w]
  <1>0. p \in Pages
    OBVIOUS
  <1>1. CASE ValidateStart(w) \/ \E j \in Jobs : ReceiveStart(w, j)
    <2>1. /\ p = FirstPage /\ page' = page
          /\ spc'[w] \in {"validate", "status", "answer"}
      BY <1>1 DEF ValidateStart, ReceiveStart, OnPage, GotoS, AnswerS
    <2> QED
      BY <2>1 DEF OnPage
  <1>2. CASE GetStatus(w)
    <2>1. CASE AnswerS(w, "nak") \/ AnswerS(w, "ack")
      BY <2>1, OffPage DEF AnswerS
    <2>2. CASE GotoS(w, "fetch")
      <3>1. spc'[w] = "fetch" /\ page'[w] = FirstPage
        BY <1>2, <2>2 DEF GetStatus, OnPage, GotoS
      <3>2. Walked(FirstPage)'
        <4>1. /\ FirstPage.idx = 0 /\ FirstPage.after = 0 /\ FirstPage.total = 0
              /\ 0 <= MaxChunks /\ 0 .. 0 - 1 = {}
          BY BoundsAssumption DEF FirstPage
        <4>2. Cut(0)' = 0
          BY DEF Cut
        <4>3. Cardinality(UpTo(0)') = 0
          BY NobodyUpToZero, SameSegment
        <4> QED
          BY <4>1, <4>2, <4>3 DEF Walked
      <3>3. Walked(page[w])'
        BY <3>1, <3>2 DEF Walked
      <3> QED
        BY <3>1, <3>3 DEF OnPage
    <2> QED
      BY <1>2, <2>1, <2>2 DEF GetStatus
  <1>3. CASE Fetch(w)
    <2> DEFINE batch == NextBatch(p.after)
    <2>1. Walked(p)
      BY <1>3 DEF Fetch, OnPage
    <2>2. p.after \in Nat /\ \A c \in UpTo(p.after) : Reached(c)
      BY <1>0, <2>1, Place
    <2>3. CASE AnswerS(w, "nak")
      BY <2>3, OffPage DEF AnswerS
    <2>4. CASE batch = {} /\ GotoS(w, "finish")
      <3>1. UpTo(p.after) = segment
        BY <2>2, <2>4, NextBatchFacts
      <3>2. Passed(p)
        BY <2>1, <2>2, <3>1 DEF Passed, Walked
      <3>3. spc'[w] = "finish" /\ page'[w] = p
        BY <2>4 DEF GotoS
      <3>4. Passed(page[w])'
        BY <3>2, <3>3 DEF Passed, Reached
      <3> QED
        BY <3>3, <3>4 DEF OnPage
    <2>5. CASE /\ batch # {} /\ p.idx < MaxChunks
               /\ page' = [page EXCEPT ![w].batch = batch]
               /\ spc' = [spc EXCEPT ![w] = "insert"]
      <3>1. /\ spc'[w] = "insert"
            /\ page'[w].idx = p.idx /\ page'[w].after = p.after
            /\ page'[w].total = p.total /\ page'[w].batch = batch
        BY <1>0, <2>5 DEF Pages
      <3>2. Walked(page[w])'
        <4>1. \A i : Page(i)' = Page(i) /\ Cut(i)' = Cut(i)
          BY DEF Page, Cut
        <4>2. UpTo(page[w].after)' = UpTo(p.after)
          BY <3>1 DEF UpTo
        <4>3. Cut(page[w].idx)' = Cut(p.idx)
          BY <3>1 DEF Cut, Page
        <4> HIDE DEF p
        <4> QED
          BY <2>1, <3>1, <4>1, <4>2, <4>3 DEF Walked
      <3>3. AtBatch(page[w])'
        <4>1. NextBatch(page[w].after)' = batch
          BY <3>1 DEF NextBatch
        <4> QED
          BY <2>5, <3>1, <4>1 DEF AtBatch
      <3> QED
        BY <3>1, <3>2, <3>3 DEF OnPage
    <2> QED
      BY <1>3, <2>3, <2>4, <2>5 DEF Fetch
  <1>4. CASE AnswerStart(w) \/ CrashStart(w)
    BY <1>4, OffPage DEF AnswerStart, CrashStart, ReleaseS
  <1> QED
    BY <1>1, <1>2, <1>3, <1>4 DEF StartControl

\* The rows of the batch are there before its chunk is published (batcher.go:126-150).
LEMMA InsertWalks ==
    ASSUME StartTyped, Paged, NEW w \in StartWorkers, OnPage(w), Insert(w), Kept
    PROVE  OnPage(w)'
  <1> USE DEF StartTyped, StartTypeOK
  <1>1. CASE AnswerS(w, "nak")
    BY <1>1, OffPage DEF AnswerS
  <1>2. CASE recipient' = Inserted(page[w].batch) /\ GotoS(w, "publish")
    <2>1. spc'[w] = "publish" /\ page'[w] = page[w] /\ page[w] \in Pages /\ page[w].batch \subseteq Contacts
      BY <1>2 DEF GotoS, Pages
    <2>2. Walked(page[w]) /\ AtBatch(page[w])
      BY DEF Insert, OnPage
    <2>3. Walked(page[w])' /\ AtBatch(page[w])'
      <3>1. PICK p \in Pages : p = page[w]
        BY <2>1
      <3>2. Walked(p)' /\ AtBatch(p)'
        BY <2>2, <3>1, WalkedStays, SameSegment DEF AtBatch, Kept
      <3> QED
        BY <2>1, <3>1, <3>2 DEF Walked, AtBatch
    <2>4. \A c \in page[w].batch : recipient'[c] # "none"
      BY <1>2, <2>1 DEF Inserted
    <2> QED
      BY <2>1, <2>3, <2>4 DEF OnPage
  <1> QED
    BY <1>1, <1>2 DEF Insert

\* The chunk is the page at hand, whichever run published it (batcher.go:148-167).
LEMMA PublishWalks ==
    ASSUME StartTyped, StartTyped', Fresh, PageAtHand, Paged, NEW w \in StartWorkers, OnPage(w), Publish(w)
    PROVE  OnPage(w)' /\ Kept /\ Paged'
  <1> DEFINE p == page[w]
             next == [after |-> LastOf(p.batch), idx |-> p.idx + 1,
                      total |-> p.total + Cardinality(p.batch), batch |-> {}]
  <1>1. /\ p \in Pages /\ p.idx \in Indexes /\ Walked(p) /\ AtBatch(p)
        /\ \A c \in p.batch : recipient[c] # "none"
        /\ UNCHANGED <<segment, window, recipient>>
    BY DEF Publish, OnPage, PageAtHand, StartTyped, StartTypeOK
  <1>2. PublishChunk(p.idx, p.batch) => Kept /\ Paged' /\ payload'[<<p.idx, 1>>] = p.batch
    <2>1. PICK q \in Pages : q = p
      BY <1>1
    <2> HIDE DEF p
    <2>2. PublishChunk(q.idx, q.batch) => Kept /\ Paged' /\ Page(q.idx)' = q.batch
      BY <1>1, <2>1, PagePublished
    <2> QED
      BY <2>1, <2>2 DEF Page
  <1>3. CASE /\ PublishChunk(p.idx, p.batch) \/ UNCHANGED <<chunkMsg, payload>>
             /\ AnswerS(w, "nak")
    <2>1. UNCHANGED <<chunkMsg, payload>> => Kept
      BY <1>1 DEF Kept, Page
    <2>2. UNCHANGED <<chunkMsg, payload>> => Paged'
      BY <2>1, PagedStays
    <2>3. OnPage(w)'
      BY <1>3, OffPage DEF AnswerS, StartTyped, StartTypeOK
    <2> QED
      BY <1>2, <1>3, <2>1, <2>2, <2>3
  <1>4. CASE /\ PublishChunk(p.idx, p.batch)
             /\ page' = [page EXCEPT ![w] = next]
             /\ spc' = [spc EXCEPT ![w] = IF Cardinality(p.batch) < ChunkSize THEN "finish" ELSE "fetch"]
    <2>1. /\ page'[w] = next
          /\ spc'[w] = IF Cardinality(p.batch) < ChunkSize THEN "finish" ELSE "fetch"
      BY <1>4 DEF StartTyped, StartTypeOK
    <2>2. PICK q \in Pages : q = p
      BY <1>1
    <2>3. PICK r \in Pages : r = next
      BY <2>1 DEF StartTyped, StartTypeOK
    <2>4. /\ r.after = LastOf(q.batch) /\ r.idx = q.idx + 1
          /\ r.total = q.total + Cardinality(q.batch)
      BY <2>2, <2>3
    <2> HIDE DEF p, next
    <2>5. /\ q.idx \in Nat /\ q.idx < MaxChunks /\ q.after \in Nat /\ q.batch = NextBatch(q.after)
          /\ q.batch # {} /\ \A i \in 0 .. q.idx - 1 : Page(i) # {}
          /\ q.total = Cardinality(UpTo(q.after)) /\ \A c \in UpTo(q.after) : Reached(c)
      BY <1>1, <2>2, Place DEF AtBatch, Walked
    <2>6. Kept /\ Paged' /\ Page(q.idx)' = q.batch /\ q.idx \in Indexes
      BY <1>1, <1>2, <1>4, <2>2 DEF Page
    <2>7. /\ UpTo(r.after) = UpTo(q.after) \cup q.batch
          /\ Cardinality(q.batch) < ChunkSize => segment = UpTo(r.after)
      <3>1. /\ UpTo(LastOf(q.batch)) = UpTo(q.after) \cup q.batch
            /\ Cardinality(q.batch) < ChunkSize => segment = UpTo(q.after) \cup q.batch
        BY <2>5, NextBatchFacts
      <3> QED
        BY <2>4, <3>1
    <2>8. r.total = Cardinality(UpTo(r.after))
      BY <2>4, <2>5, <2>7, PagesAddUp
    <2>9. Walked(r)'
      <3>1. r.idx <= MaxChunks
        BY <2>4, <2>5, BoundsAssumption
      <3>2. \A i \in 0 .. r.idx - 1 : Page(i)' # {}
        <4>1. \A i \in 0 .. r.idx - 1 : i = q.idx \/ (i \in 0 .. q.idx - 1 /\ i \in Indexes)
          BY <2>4, <2>5, BoundsAssumption DEF Indexes
        <4>2. Page(q.idx)' # {}
          BY <2>5, <2>6
        <4>3. \A i \in Indexes : Page(i) # {} => Page(i)' # {}
          BY <2>6 DEF Kept
        <4> QED
          BY <2>5, <4>1, <4>2, <4>3
      <3>3. r.after = Cut(r.idx)'
        <4>1. r.idx # 0 /\ r.idx - 1 = q.idx
          BY <2>4, <2>5
        <4> QED
          BY <2>4, <2>6, <4>1 DEF Cut
      <3>4. UpTo(r.after)' = UpTo(r.after)
        BY <1>1, SameSegment
      <3> QED
        BY <2>8, <3>1, <3>2, <3>3, <3>4 DEF Walked
    <2>10. ASSUME Cardinality(q.batch) < ChunkSize PROVE Passed(r)'
      <3>1. segment' = UpTo(LastOf(Page(q.idx)))'
        BY <1>1, <2>4, <2>6, <2>7, <2>10 DEF UpTo
      <3>2. \A c \in segment' : Reached(c)'
        BY <2>5, <2>6, <3>1 DEF Paged
      <3> QED
        BY <1>1, <2>7, <2>8, <2>10, <3>2 DEF Passed
    <2>11. spc'[w] = (IF Cardinality(q.batch) < ChunkSize THEN "finish" ELSE "fetch") /\ page'[w] = r
      BY <2>1, <2>2, <2>3
    <2>12. Walked(page[w])' = Walked(r)' /\ Passed(page[w])' = Passed(r)'
      BY <2>11 DEF Walked, Passed
    <2>13. OnPage(w)'
      BY <2>9, <2>10, <2>11, <2>12 DEF OnPage
    <2> QED
      BY <2>6, <2>13
  <1> QED
    BY <1>3, <1>4 DEF Publish

\* A recorded total stands while it is not written again.
LEMMA RecordedStays ==
    ASSUME StartTyped, Kept, Recorded, campaign'.total = campaign.total
    PROVE  Recorded'
  <1>1. segment' = segment /\ segment \subseteq Contacts
    BY DEF Kept, StartTyped, StartTypeOK
  <1> QED
    BY <1>1, ReachedStays DEF Recorded

\* Nothing is published, and no run is under way.
LEMMA PubInit == Init => PubInv
  <1> SUFFICES ASSUME Init PROVE PubInv
    OBVIOUS
  <1>1. /\ \A k \in ChunkIds : chunkMsg[k].st = "absent" /\ payload[k] = {}
        /\ window = TRUE /\ campaign.total = 0
    BY DEF Init, NothingPublished, NoMsg, NewCampaign
  <1>2. \A i \in Indexes, g \in 1 .. Generations : payload[<<i, g>>] = {}
    BY <1>1 DEF ChunkIds, Indexes
  <1>3. \A i \in Indexes : Page(i) = {}
    BY <1>2, BoundsAssumption DEF Page
  <1>4. \A i \in Indexes, g \in 2 .. Generations : payload[<<i, g>>] = {}
    BY <1>2, BoundsAssumption
  <1>5. Paged
    BY <1>1, <1>3, <1>4 DEF Paged
  <1>6. \A w \in StartWorkers : OnPage(w)
    BY DEF Init, StartIdle, OnPage
  <1> QED
    BY <1>1, <1>5, <1>6 DEF PubInv, Recorded

\* Nothing that leaves the segment alone breaks the pages: a run that failed half-way,
\* or that goes on beside another (batcher.go:92-98).
LEMMA PubStep ==
    ASSUME SegmentStays, ~WindowCloses, Base, Base', PubInv, [Next]_vars
    PROVE  PubInv'
  <1> USE DEF Base, PubInv
  <1>0. StartTyped /\ StartTyped' /\ campaign \in Campaigns
    BY DEF StartTyped, StartTypeOK
  <1>1. ASSUME UNCHANGED <<segment, window, payload, spc, page>>,
               \A k \in ChunkIds : chunkMsg'[k].st = "absent" <=> chunkMsg[k].st = "absent",
               \A c \in Contacts : recipient[c] # "none" => recipient'[c] # "none",
               campaign'.total = campaign.total
        PROVE  PubInv'
    <2>1. Kept
      BY <1>1 DEF Kept, Page
    <2>2. Paged'
      BY <1>0, <1>1, <2>1, PagedStays
    <2>3. \A w \in StartWorkers : OnPage(w)'
      BY <1>0, <1>1, <2>1, OnPageStays
    <2> QED
      BY <1>0, <1>1, <2>1, <2>2, <2>3, RecordedStays
  <1>2. CASE ScheduleStep
    <2>1. UNCHANGED <<segment, window, chunkMsg, payload, recipient, spc, page>>
      BY <1>2 DEF ScheduleStep, startWorkerVars
    <2>2. campaign'.total = campaign.total
      BY <1>0, <1>2, ScheduleSteps DEF Scheduler!Claimed, Campaigns
    <2> QED
      BY <1>1, <2>1, <2>2
  <1>3. CASE ChunkStep
    <2>1. UNCHANGED <<segment, window, spc, page>>
      BY <1>3 DEF ChunkStep, startOnly, startWorkerVars
    <2>2. /\ UNCHANGED payload
          /\ \A k \in ChunkIds : chunkMsg'[k].st = "absent" <=> chunkMsg[k].st = "absent"
          /\ \A c \in Contacts : recipient'[c] = "none" <=> recipient[c] = "none"
          /\ \/ campaign' \in {campaign, CompletedIfCounted(campaign)}
             \/ \E n, m \in Nat : campaign' = Counted(campaign, n, m)
      BY <1>3, ChunkSteps DEF ChunkStep, Handled
    <2>3. campaign'.total = campaign.total
      BY <1>0, <2>2 DEF CompletedIfCounted, Counted, Campaigns
    <2> QED
      BY <1>1, <2>1, <2>2, <2>3
  <1>4. ASSUME NEW w \in StartWorkers, Kept, Paged', OnPage(w)', Recorded',
               StartControl(w) \/ Insert(w) \/ Publish(w) \/ Finish(w)
        PROVE  PubInv'
    <2>1. \A v \in StartWorkers \ {w} : OnPage(v)'
      BY <1>0, <1>4, OneWalks, OnPageStays
    <2> QED
      BY <1>4, <2>1
  <1>5. ASSUME NEW w \in StartWorkers, UNCHANGED due, StartControl(w) PROVE PubInv'
    <2>1. UNCHANGED <<segment, window, chunkMsg, payload, campaign, recipient>>
      BY <1>0, <1>5, StartControlStep, OneWalks
    <2>2. Kept
      BY <2>1 DEF Kept, Page
    <2>3. Paged' /\ Recorded'
      BY <1>0, <2>1, <2>2, PagedStays, RecordedStays
    <2>4. OnPage(w)'
      BY <1>0, <1>5, <2>1, ControlWalks
    <2> QED
      BY <1>4, <1>5, <2>2, <2>3, <2>4
  <1>6. ASSUME NEW w \in StartWorkers, UNCHANGED due, Insert(w) PROVE PubInv'
    <2>1. /\ UNCHANGED <<segment, window, chunkMsg, payload, campaign>>
          /\ \A c \in Contacts : recipient[c] # "none" => recipient'[c] # "none"
      BY <1>0, <1>6, InsertStep, OneWalks
    <2>2. Kept
      BY <2>1 DEF Kept, Page
    <2>3. Paged' /\ Recorded'
      BY <1>0, <2>1, <2>2, PagedStays, RecordedStays
    <2>4. OnPage(w)'
      BY <1>0, <1>6, <2>2, InsertWalks
    <2> QED
      BY <1>4, <1>6, <2>2, <2>3, <2>4
  <1>7. ASSUME NEW w \in StartWorkers, UNCHANGED due, Publish(w) PROVE PubInv'
    <2>1. OnPage(w)' /\ Kept /\ Paged'
      BY <1>0, <1>7, PublishWalks
    <2>2. UNCHANGED campaign
      BY <1>0, <1>7, PublishStep
    <2> QED
      BY <1>0, <1>4, <1>7, <2>1, <2>2, RecordedStays
  <1>8. ASSUME NEW w \in StartWorkers, UNCHANGED due, Finish(w) PROVE PubInv'
    <2>1. /\ UNCHANGED <<segment, window, chunkMsg, payload, recipient>>
          /\ page[w].total \in Nat
          /\ \/ campaign' = campaign
             \/ page[w].total = 0 /\ campaign' = CompletedEmpty(campaign)
             \/ page[w].total # 0 /\ campaign' = Started(campaign, page[w].total)
      BY <1>0, <1>8, FinishStep
    <2>2. Kept
      BY <2>1 DEF Kept, Page
    <2>3. Paged'
      BY <1>0, <2>1, <2>2, PagedStays
    <2>4. OnPage(w)'
      BY <1>0, <1>8, OffPage DEF Finish, AnswerS, StartTyped, StartTypeOK
    <2>5. campaign'.total \in {campaign.total, 0, page[w].total}
      BY <1>0, <2>1 DEF CompletedEmpty, Started, Campaigns
    <2>6. Passed(page[w])
      BY <1>8 DEF Finish, OnPage
    <2>7. Recorded'
      <3>1. CASE campaign'.total = campaign.total
        BY <1>0, <2>2, <3>1, RecordedStays
      <3>2. CASE campaign'.total = 0
        BY <3>2 DEF Recorded
      <3>3. CASE campaign'.total = page[w].total
        BY <2>1, <2>6, <3>3 DEF Recorded, Passed, Reached
      <3> QED
        BY <2>5, <3>1, <3>2, <3>3
    <2> QED
      BY <1>4, <1>8, <2>2, <2>3, <2>4, <2>7
  <1>9. CASE UNCHANGED vars \/ \E j \in Jobs : ExpireStart(j)
    <2>1. UNCHANGED <<segment, window, chunkMsg, payload, campaign, recipient, spc, page>>
      BY <1>9 DEF vars, startVars, startWorkerVars, ExpireStart
    <2> QED
      BY <1>1, <2>1
  <1>10. ~ChangeSegment /\ ~CloseWindow
    <2>1. segment' = segment
      BY <1>0 DEF SegmentStays, StartTyped
    <2> QED
      BY <2>1 DEF ChangeSegment, CloseWindow
  <1> QED
    BY <1>2, <1>3, <1>5, <1>6, <1>7, <1>8, <1>9, <1>10, OtherActions DEF Next

\* So a recipient is in one chunk only, and has its row.
LEMMA ChunksAreApart ==
    ASSUME StartTyped, Paged
    PROVE  Chunks!Apart /\ Chunks!RowsThere
  <1>1. ASSUME NEW k \in ChunkIds, payload[k] # {}
        PROVE  \E i \in Indexes : k = <<i, 1>>
    <2>1. PICK i \in Indexes, g \in 1 .. Generations : k = <<i, g>>
      BY DEF ChunkIds, Indexes
    <2>2. g \notin 2 .. Generations
      BY <1>1, <2>1 DEF Paged
    <2>3. g = 1
      BY <2>2, BoundsAssumption
    <2> QED
      BY <2>1, <2>3
  <1>2. ASSUME NEW k \in ChunkIds, NEW l \in ChunkIds, NEW c, c \in payload[k], c \in payload[l]
        PROVE  k = l
    <2>1. PICK i \in Indexes : k = <<i, 1>>
      BY <1>1, <1>2
    <2>2. PICK j \in Indexes : l = <<j, 1>>
      BY <1>1, <1>2
    <2>3. c \in Nat /\ c \in Page(i) /\ c \in Page(j)
      BY <1>2, <2>1, <2>2, ContactsAssumption DEF Page, StartTyped, StartTypeOK
    <2>4. ~(i < j) /\ ~(j < i)
      <3>1. ~(c < c)
        BY <2>3
      <3> QED
        BY <2>3, <3>1 DEF Paged
    <2> QED
      BY <2>1, <2>2, <2>4, BoundsAssumption DEF Indexes
  <1>3. ASSUME NEW k \in ChunkIds, NEW c \in payload[k] PROVE recipient[c] # "none"
    <2>1. PICK i \in Indexes : k = <<i, 1>>
      BY <1>1
    <2>2. c \in Page(i) /\ Page(i) = NextBatch(Cut(i)) /\ \A d \in UpTo(LastOf(Page(i))) : Reached(d)
      BY <2>1 DEF Paged, Page
    <2>3. c \in segment /\ Page(i) \in SUBSET Contacts
      BY <2>1, <2>2 DEF NextBatch, Page, StartTyped, StartTypeOK
    <2>4. c <= LastOf(Page(i))
      BY <2>2, <2>3, ContactFacts, LastOfFacts
    <2> QED
      BY <2>2, <2>3, <2>4 DEF UpTo, Reached
  <1> QED
    BY <1>2, <1>3 DEF Chunks!Apart, Chunks!RowsThere

\* Pages, runs and the recorded total agree throughout.
LEMMA PubAlways == SegmentStays /\ ~WindowCloses /\ Spec => []PubInv
  <1> DEFINE still == SegmentStays /\ ~WindowCloses
  <1>1. still /\ Init => still /\ PubInv
    BY PubInit
  <1>2. still /\ PubInv /\ Base /\ Base' /\ [Next]_vars => still' /\ PubInv'
    <2>1. still' = still
      BY DEF SegmentStays
    <2> QED
      BY <2>1, PubStep
  <1> HIDE DEF still
  <1>3. still /\ Spec => []PubInv
    BY <1>1, <1>2, BaseAlways, PTL DEF Spec
  <1> QED
    BY <1>3 DEF still

\* While the segment stays the same and the chunk ids are remembered, a recorded total
\* is the number of its contacts, each of whom has a row and is in exactly one chunk
\* (batcher.go:92-98, 235-239).
THEOREM StartedIsPublished == SegmentStays /\ ~WindowCloses /\ Spec => []StartedMeansPublished
  <1>1. Base /\ PubInv => StartedMeansPublished
    <2> SUFFICES ASSUME Base, PubInv, campaign.total > 0
                 PROVE  /\ campaign.total = Cardinality(segment)
                        /\ \A c \in segment :
                              /\ recipient[c] # "none"
                              /\ \E k \in ChunkIds : c \in payload[k] /\ \A l \in ChunkIds \ {k} : c \notin payload[l]
      BY DEF StartedMeansPublished
    <2>1. campaign.total = Cardinality(segment) /\ \A c \in segment : Reached(c)
      BY DEF PubInv, Recorded
    <2>2. \A k, l \in ChunkIds : k # l => payload[k] \cap payload[l] = {}
      BY ChunksAreApart DEF Base, PubInv, Chunks!Apart
    <2>3. ASSUME NEW c \in segment
          PROVE  /\ recipient[c] # "none"
                 /\ \E k \in ChunkIds : c \in payload[k] /\ \A l \in ChunkIds \ {k} : c \notin payload[l]
      <3>1. PICK k \in ChunkIds : recipient[c] # "none" /\ c \in payload[k]
        BY <2>1 DEF Reached
      <3>2. \A l \in ChunkIds \ {k} : c \notin payload[l]
        BY <2>2, <3>1
      <3> QED
        BY <3>1, <3>2
    <2> QED
      BY <2>1, <2>3
  <1> QED
    BY <1>1, BaseAlways, PubAlways, PTL

-----------------------------------------------------------------------------
(***************************************************************************)
(* The emails of the campaign                                              *)
(***************************************************************************)
\* What CampaignChunkProofs knows of the emails of chunks that stay apart holds here,
\* though they are published while they are handled.
LEMMA MailHere ==
    ASSUME Base, Base', [Next]_vars, Chunks!Apart', Chunks!RowsThere', Chunks!MailInv, Chunk!AcceptedOnce
    PROVE  Chunks!MailInv' /\ Chunk!AcceptedOnce'
  <1>1. Chunk!AcceptedOnce <=> Chunks!AcceptedOnce
    BY DEF Chunk!AcceptedOnce, Chunks!AcceptedOnce
  <1>2. Chunks!AcceptedOnce' => Chunk!AcceptedOnce'
    BY DEF Chunk!AcceptedOnce, Chunks!AcceptedOnce
  <1>3. ASSUME [Chunks!Next]_Chunks!vars PROVE Chunks!MailInv' /\ Chunks!AcceptedOnce'
    BY <1>1, <1>3, ChunkConstants, Chunks!MailStep, Chunks!OnceStep
  <1>4. CASE ChunkStep
    <2>1. [Chunks!Next]_Chunks!vars
      BY <1>4, SameSteps DEF ChunkStep
    <2> QED
      BY <1>2, <1>3, <2>1
  <1>5. CASE UNCHANGED vars
    <2>1. Chunks!vars' = Chunks!vars
      BY <1>5 DEF vars, chunkOnly, startVars, startWorkerVars, Chunks!vars, Chunks!given, Chunks!rowVars,
         Chunks!workerVars, Chunks!sesVars, Chunks!pubVars
    <2> QED
      BY <1>2, <1>3, <2>1
  <1>6. CASE ScheduleStep \/ StartStep \/ ChangeSegment \/ CloseWindow
    <2>1. Chunks!Beside
      BY <1>6, BesideTheHandlers DEF Base
    <2>2. Chunks!MailInv'
      BY <2>1, ChunkConstants, Chunks!MailBeside DEF Base, Handled
    <2>3. UNCHANGED <<accepted, ambiguous>>
      BY <1>6 DEF ScheduleStep, StartStep, ChangeSegment, CloseWindow, chunkOnly
    <2>4. Chunk!AcceptedOnce'
      BY <2>3 DEF Chunk!AcceptedOnce
    <2> QED
      BY <2>2, <2>4
  <1> QED
    BY <1>4, <1>5, <1>6 DEF Next

\* No email is accepted twice, and the handlers know why, throughout.
LEMMA MailAlways == SegmentStays /\ ~WindowCloses /\ Spec => [](Chunks!MailInv /\ Chunk!AcceptedOnce)
  <1>1. Base /\ PubInv => Chunks!Apart /\ Chunks!RowsThere
    BY ChunksAreApart DEF Base, PubInv
  <1>2. Init /\ Chunks!Apart /\ Chunks!RowsThere => Chunks!MailInv /\ Chunk!AcceptedOnce
    <2> SUFFICES ASSUME Init, Chunks!Apart, Chunks!RowsThere
                 PROVE  Chunks!MailInv /\ Chunk!AcceptedOnce
      OBVIOUS
    <2>1. Chunks!MailInv
      BY UntouchedInit, ChunkConstants, Chunks!MailUntouched
    <2>2. Chunk!AcceptedOnce
      BY DEF Init, Chunk!NothingSent, Chunk!AcceptedOnce
    <2> QED
      BY <2>1, <2>2
  <1>3. /\ Base /\ Base' /\ [Next]_vars /\ (Chunks!Apart /\ Chunks!RowsThere)'
        /\ Chunks!MailInv /\ Chunk!AcceptedOnce
        => Chunks!MailInv' /\ Chunk!AcceptedOnce'
    BY MailHere
  <1> QED
    BY <1>1, <1>2, <1>3, BaseAlways, PubAlways, PTL DEF Spec

\* While the segment stays the same and the chunk ids are remembered, no contact's email
\* is accepted twice, whatever fails, except where a worker may not know of an
\* acceptance (campaign-email.md:58-61).
THEOREM AcceptedAtMostOnce == SegmentStays /\ ~WindowCloses /\ Spec => []AcceptedOnce
  BY MailAlways, PTL DEF AcceptedOnce

\* The mailer the two modules speak of is the same.
LEMMA SameMailer ==
    /\ Chunks!Mail!Next => Chunk!Mail!Next
    /\ UNCHANGED <<Chunks!StatusOf(recipient), accepted, ambiguous>> => UNCHANGED Chunk!Mail!vars
  <1>1. Chunks!Mail!Next => Chunk!Mail!Next
    BY DEF Chunks!Mail!Next, Chunk!Mail!Next, Chunks!Mail!Accept, Chunk!Mail!Accept,
       Chunks!Mail!Record, Chunk!Mail!Record, Chunks!Mail!Bounce, Chunk!Mail!Bounce,
       Chunks!Terminal, Chunk!Terminal
  <1>2. UNCHANGED <<Chunks!StatusOf(recipient), accepted, ambiguous>> => UNCHANGED Chunk!Mail!vars
    BY DEF Chunk!Mail!vars, Chunks!StatusOf, Chunks!Terminal, Chunk!Terminal
  <1> QED
    BY <1>1, <1>2

\* So the pipeline is a mailer for the contacts of its campaign: from the schedule to
\* the last chunk, a step is one of Mailer or none (handler.go:604-713).
THEOREM CampaignIsMailer == SegmentStays /\ ~WindowCloses /\ Spec => Chunk!ImplementsMailer
  <1>1. Init => Chunk!Mail!Init
    <2> SUFFICES ASSUME Init PROVE Chunk!Mail!Init
      OBVIOUS
    <2>1. \A c \in Contacts : ~Chunk!Terminal(recipient[c])
      BY RowsInit DEF Chunk!Terminal
    <2> QED
      BY <2>1 DEF Init, Chunk!NothingSent, Chunk!Mail!Init
  <1>2. Base /\ Chunks!MailInv /\ [Next]_vars => [Chunk!Mail!Next]_(Chunk!Mail!vars)
    <2> SUFFICES ASSUME Base, Chunks!MailInv, [Next]_vars
                 PROVE  Chunk!Mail!Next \/ UNCHANGED Chunk!Mail!vars
      OBVIOUS
    <2>1. ASSUME [Chunks!Next]_Chunks!vars PROVE Chunk!Mail!Next
      BY <2>1, ChunkConstants, Chunks!MailerStep, SameMailer
    <2>2. CASE ChunkStep
      <3>1. [Chunks!Next]_Chunks!vars
        BY <2>2, SameSteps DEF ChunkStep
      <3> QED
        BY <2>1, <3>1
    <2>3. CASE UNCHANGED vars
      <3>1. UNCHANGED <<recipient, accepted, ambiguous>>
        BY <2>3 DEF vars, chunkOnly, startVars
      <3>2. UNCHANGED <<Chunks!StatusOf(recipient), accepted, ambiguous>>
        BY <3>1 DEF Chunks!StatusOf, Chunks!Terminal
      <3> QED
        BY <3>2, SameMailer
    <2>4. CASE ScheduleStep \/ StartStep \/ ChangeSegment \/ CloseWindow
      <3>1. Chunks!Beside
        BY <2>4, BesideTheHandlers DEF Base
      <3>2. UNCHANGED <<Chunks!StatusOf(recipient), accepted, ambiguous>>
        BY <3>1, ChunkConstants, Chunks!MailerBeside
      <3> QED
        BY <3>2, SameMailer
    <2> QED
      BY <2>2, <2>3, <2>4 DEF Next
  <1> QED
    BY <1>1, <1>2, BaseAlways, MailAlways, PTL DEF Spec, Chunk!ImplementsMailer, Chunk!Mail!Spec
=============================================================================
