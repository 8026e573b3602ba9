----------------------- MODULE TransactionalEmailProofs -----------------------
(***************************************************************************)
(* Proofs about TransactionalEmail, for any sets of sends and workers and  *)
(* any number of attempts.                                                 *)
(***************************************************************************)
EXTENDS TransactionalEmail, TLAPS

-----------------------------------------------------------------------------
(***************************************************************************)
(* Messages of the stream                                                  *)
(***************************************************************************)
\* A delivery counts up and leaves the message waiting for its answer.
LEMMA DeliveredFacts ==
    ASSUME NEW m \in Msgs
    PROVE  /\ Delivered(m) \in Msgs
           /\ Delivered(m).st = "pending"
           /\ Delivered(m).n = m.n + 1
  BY DEF Delivered, Msgs, MsgStates

\* A message put back keeps its count, is settled only if it was, and becomes
\* 'queued' only from 'pending'.
LEMMA RequeuedFacts ==
    ASSUME NEW m \in Msgs, NEW maxDeliver
    PROVE  /\ Requeued(m, maxDeliver) \in Msgs
           /\ Requeued(m, maxDeliver).n = m.n
           /\ Requeued(m, maxDeliver).st = "acked" <=> m.st = "acked"
           /\ Requeued(m, maxDeliver).st = "termed" <=> m.st = "termed"
           /\ m.st # "pending" => Requeued(m, maxDeliver) = m
  BY DEF Requeued, Msgs, MsgStates

\* Settling a message keeps its count, and its state is either unchanged or
\* the new one.
LEMMA EndedFacts ==
    ASSUME NEW m \in Msgs, NEW st \in {"acked", "termed"}
    PROVE  /\ Ended(m, st) \in Msgs
           /\ Ended(m, st).n = m.n
           /\ Ended(m, st).st \in {m.st, st}
  BY DEF Ended, Msgs, MsgStates

\* An answer keeps the count; only an Ack makes a message 'acked', only a Term
\* 'termed', and only a Nak of a pending message 'queued'.
LEMMA AnsweredFacts ==
    ASSUME NEW m \in Msgs, NEW v \in Verdicts, NEW maxDeliver
    PROVE  /\ Answered(m, v, maxDeliver) \in Msgs
           /\ Answered(m, v, maxDeliver).n = m.n
           /\ Answered(m, v, maxDeliver).st = "acked" => m.st = "acked" \/ v = "ack"
           /\ Answered(m, v, maxDeliver).st = "termed" => m.st = "termed" \/ v = "term"
           /\ Answered(m, v, maxDeliver).st = "queued"
                => m.st = "queued" \/ (v = "nak" /\ m.st = "pending")
  <1>1. CASE v = "ack"
    BY <1>1, EndedFacts DEF Answered, Ended, Msgs, MsgStates
  <1>2. CASE v = "term"
    BY <1>2, EndedFacts DEF Answered, Ended, Msgs, MsgStates
  <1>3. CASE v = "nak"
    <2>1. Answered(m, v, maxDeliver) = Requeued(m, maxDeliver)
      BY <1>3 DEF Answered
    <2> QED
      BY <1>3, <2>1, RequeuedFacts DEF Msgs, MsgStates
  <1> QED
    BY <1>1, <1>2, <1>3 DEF Verdicts

-----------------------------------------------------------------------------
\* Every step keeps the state well-typed, and a busy worker holds a send.
LEMMA TypeOKStep == TypeOK /\ [Next]_vars => TypeOK'
<1> SUFFICES ASSUME TypeOK, [Next]_vars PROVE TypeOK'
  OBVIOUS
<1> USE SendsAssumption, MaxAttemptsAssumption
<1> USE DEF TypeOK, PCs, Verdicts
<1>1. ASSUME NEW w \in Workers, NEW s \in Sends, Receive(w, s) PROVE TypeOK'
  BY <1>1, DeliveredFacts DEF Receive, Msgs
<1>2. ASSUME NEW w \in Workers, Validate(w) PROVE TypeOK'
  BY <1>2 DEF Validate, Answer, Goto, GotoAnswering
<1>3. ASSUME NEW w \in Workers, CheckStatus(w) PROVE TypeOK'
  BY <1>3 DEF CheckStatus, Answer, Goto, GotoAnswering
<1>4. ASSUME NEW w \in Workers, Acquire(w) PROVE TypeOK'
  BY <1>4 DEF Acquire, Answer, Goto, GotoAnswering
<1>5. ASSUME NEW w \in Workers, MarkSending(w) PROVE TypeOK'
  <2>1. row' \in [Sends -> RowStates]
    BY <1>5 DEF MarkSending, Execute, MayExecute, MarkedSending, RowStates
  <2> QED
    BY <1>5, <2>1 DEF MarkSending, Answer, Goto, GotoAnswering
<1>6. ASSUME NEW w \in Workers, SendAccepted(w) PROVE TypeOK'
  BY <1>6 DEF SendAccepted, AcceptedBySES, Goto
<1>7. ASSUME NEW w \in Workers, SendTransient(w) PROVE TypeOK'
  <2>1. accepted' \in [Sends -> Nat] /\ ambiguous' \subseteq Sends
    BY <1>7 DEF SendTransient, AcceptedBySES
  <2> QED
    BY <1>7, <2>1 DEF SendTransient, Transient, Answer, GotoAnswering
<1>8. ASSUME NEW w \in Workers, SendRefused(w) PROVE TypeOK'
  BY <1>8 DEF SendRefused, GotoAnswering
<1>9. ASSUME NEW w \in Workers, RecordSent(w) PROVE TypeOK'
  <2>1. row' \in [Sends -> RowStates]
    BY <1>9 DEF RecordSent, Execute, MarkedSent, RowStates
  <2> QED
    BY <1>9, <2>1 DEF RecordSent, GotoAnswering
<1>10. ASSUME NEW w \in Workers, PublishSent(w) \/ PublishFailed(w) PROVE TypeOK'
  BY <1>10 DEF PublishSent, PublishFailed, PublishEvent, Goto
<1>11. ASSUME NEW w \in Workers, PublishDLQ(w) PROVE TypeOK'
  BY <1>11 DEF PublishDLQ, Goto
<1>12. ASSUME NEW w \in Workers, RecordFailed(w) PROVE TypeOK'
  <2>1. row' \in [Sends -> RowStates]
    BY <1>12 DEF RecordFailed, Execute, MayExecute, MarkedFailed, RowStates
  <2> QED
    BY <1>12, <2>1 DEF RecordFailed, Goto
<1>13. ASSUME NEW w \in Workers, AnswerMessage(w) PROVE TypeOK'
  BY <1>13, AnsweredFacts DEF AnswerMessage, RequeueNoted, Release
<1>14. ASSUME NEW w \in Workers, Crash(w) PROVE TypeOK'
  BY <1>14 DEF Crash, LeaveNoted, Release
<1>15. ASSUME NEW w \in Workers, Panic(w) PROVE TypeOK'
  BY <1>15, RequeuedFacts DEF Panic, LeaveNoted, RequeueNoted, Release
<1>16. ASSUME NEW s \in Sends, Expire(s) PROVE TypeOK'
  BY <1>16, RequeuedFacts DEF Expire, RequeueNoted
<1>17. ASSUME NEW s \in Sends, Bounce(s) PROVE TypeOK'
  BY <1>17 DEF Bounce, RowStates
<1>18. CASE UNCHANGED vars
  BY <1>18 DEF vars
<1> QED
  BY <1>1, <1>2, <1>3, <1>4, <1>5, <1>6, <1>7, <1>8, <1>9, <1>10, <1>11,
     <1>12, <1>13, <1>14, <1>15, <1>16, <1>17, <1>18 DEF Next, Work

\* The initial state is well-typed.
LEMMA TypeOKInit == Init => TypeOK
BY DEF Init, TypeOK, NewMsg, Msgs, MsgStates, RowStates, PCs, Verdicts

\* The state is well-typed in every reachable state of the consumer.
THEOREM TypeCorrect == Spec => []TypeOK
BY TypeOKInit, TypeOKStep, PTL DEF Spec

\* Every step keeps the inductive invariant.
LEMMA InvStep == Inv /\ [Next]_vars => Inv'
<1> SUFFICES ASSUME Inv, [Next]_vars PROVE Inv'
  OBVIOUS
<1> TypeOK'
  BY TypeOKStep DEF Inv
<1>1. ASSUME NEW w \in Workers, NEW s \in Sends, Receive(w, s) PROVE Inv'
  <2>1. SentMeansAccepted' /\ AcceptedOnce'
    BY <1>1 DEF Inv, Receive, SentMeansAccepted, AcceptedOnce
  <2>2. OneHolder'
    BY <1>1, DeliveredFacts DEF Inv, TypeOK, Receive, Deliverable, OneHolder,
       HeldUnrecorded
  <2>3. AcceptanceKnown'
    BY <1>1 DEF Inv, Receive, AcceptanceKnown
  <2>4. NotAcceptedYet'
    BY <1>1 DEF Inv, Receive, NotAcceptedYet
  <2>5. VerdictJustified'
    BY <1>1 DEF Inv, Receive, VerdictJustified
  <2>6. AckedMeansDecided'
    BY <1>1, DeliveredFacts DEF Inv, TypeOK, Receive, AckedMeansDecided
  <2> QED
    BY <2>1, <2>2, <2>3, <2>4, <2>5, <2>6 DEF Inv
<1>2. ASSUME NEW w \in Workers, Validate(w) PROVE Inv'
  <2>1. SentMeansAccepted' /\ AcceptedOnce' /\ AckedMeansDecided'
    BY <1>2 DEF Inv, Validate, SentMeansAccepted, AcceptedOnce,
       AckedMeansDecided
  <2>2. OneHolder'
    BY <1>2 DEF Inv, TypeOK, Validate, Answer, Goto, GotoAnswering, OneHolder,
       HeldUnrecorded, Unrecorded
  <2>3. AcceptanceKnown'
    BY <1>2 DEF Inv, TypeOK, Validate, Answer, Goto, GotoAnswering,
       AcceptanceKnown
  <2>4. NotAcceptedYet'
    BY <1>2 DEF Inv, TypeOK, Validate, Answer, Goto, GotoAnswering,
       NotAcceptedYet
  <2>5. VerdictJustified'
    BY <1>2 DEF Inv, TypeOK, Validate, Answer, Goto, GotoAnswering,
       VerdictJustified
  <2> QED
    BY <2>1, <2>2, <2>3, <2>4, <2>5 DEF Inv
<1>3. ASSUME NEW w \in Workers, CheckStatus(w) PROVE Inv'
  <2>1. SentMeansAccepted' /\ AcceptedOnce' /\ AckedMeansDecided'
    BY <1>3 DEF Inv, CheckStatus, SentMeansAccepted, AcceptedOnce,
       AckedMeansDecided
  <2>2. OneHolder'
    BY <1>3 DEF Inv, TypeOK, CheckStatus, Answer, Goto, GotoAnswering,
       OneHolder, HeldUnrecorded, Unrecorded
  <2>3. AcceptanceKnown'
    BY <1>3 DEF Inv, TypeOK, CheckStatus, Answer, Goto, GotoAnswering,
       AcceptanceKnown
  <2>4. NotAcceptedYet'
    BY <1>3 DEF Inv, TypeOK, CheckStatus, Answer, Goto, GotoAnswering,
       NotAcceptedYet, AcceptanceKnown, OneHolder, Unrecorded
  <2>5. VerdictJustified'
    BY <1>3 DEF Inv, TypeOK, CheckStatus, Answer, Goto, GotoAnswering,
       VerdictJustified, SentMeansAccepted
  <2> QED
    BY <2>1, <2>2, <2>3, <2>4, <2>5 DEF Inv
<1>4. ASSUME NEW w \in Workers, Acquire(w) PROVE Inv'
  <2>1. SentMeansAccepted' /\ AcceptedOnce' /\ AckedMeansDecided'
    BY <1>4 DEF Inv, Acquire, SentMeansAccepted, AcceptedOnce,
       AckedMeansDecided
  <2>2. OneHolder'
    BY <1>4 DEF Inv, TypeOK, Acquire, Answer, Goto, GotoAnswering, OneHolder,
       HeldUnrecorded, Unrecorded
  <2>3. AcceptanceKnown'
    BY <1>4 DEF Inv, TypeOK, Acquire, Answer, Goto, GotoAnswering,
       AcceptanceKnown
  <2>4. NotAcceptedYet'
    BY <1>4 DEF Inv, TypeOK, Acquire, Answer, Goto, GotoAnswering,
       NotAcceptedYet
  <2>5. VerdictJustified'
    BY <1>4 DEF Inv, TypeOK, Acquire, Answer, Goto, GotoAnswering,
       VerdictJustified
  <2> QED
    BY <2>1, <2>2, <2>3, <2>4, <2>5 DEF Inv
<1>5. ASSUME NEW w \in Workers, MarkSending(w) PROVE Inv'
  <2>1. AckedMeansDecided'
    BY <1>5 DEF Inv, MarkSending, AckedMeansDecided
  <2>2. SentMeansAccepted'
    BY <1>5 DEF Inv, TypeOK, MarkSending, Execute, MayExecute, MarkedSending,
       SentMeansAccepted, Terminal
  <2>3. OneHolder'
    BY <1>5 DEF Inv, TypeOK, MarkSending, Answer, Goto, GotoAnswering,
       OneHolder, HeldUnrecorded, Unrecorded
  <2>4. AcceptanceKnown'
    BY <1>5 DEF Inv, TypeOK, MarkSending, Execute, MayExecute, MarkedSending,
       Answer, Goto, GotoAnswering, AcceptanceKnown, Terminal
  <2>5. NotAcceptedYet'
    BY <1>5 DEF Inv, TypeOK, MarkSending, Execute, MayExecute, MarkedSending,
       Answer, Goto, GotoAnswering, NotAcceptedYet
  <2>6. AcceptedOnce'
    BY <1>5 DEF Inv, TypeOK, MarkSending, Execute, MayExecute, MarkedSending,
       AcceptedOnce
  <2>7. VerdictJustified'
    BY <1>5 DEF Inv, TypeOK, MarkSending, Answer, Goto, GotoAnswering,
       VerdictJustified
  <2> QED
    BY <2>1, <2>2, <2>3, <2>4, <2>5, <2>6, <2>7 DEF Inv
<1>6. ASSUME NEW w \in Workers, SendAccepted(w) PROVE Inv'
  <2>1. SentMeansAccepted'
    BY <1>6 DEF Inv, TypeOK, SendAccepted, AcceptedBySES, SentMeansAccepted
  <2>2. OneHolder'
    BY <1>6 DEF Inv, SendAccepted, Goto, OneHolder, HeldUnrecorded, Unrecorded
  <2>3. AcceptanceKnown'
    BY <1>6 DEF Inv, TypeOK, SendAccepted, AcceptedBySES, Goto,
       AcceptanceKnown
  <2>4. NotAcceptedYet'
    BY <1>6 DEF Inv, TypeOK, SendAccepted, AcceptedBySES, Goto,
       NotAcceptedYet, OneHolder, Unrecorded
  <2>5. AcceptedOnce'
    BY <1>6 DEF Inv, SendAccepted, AcceptedBySES, AcceptedOnce, NotAcceptedYet
  <2>6. VerdictJustified'
    BY <1>6 DEF Inv, TypeOK, SendAccepted, AcceptedBySES, Goto,
       VerdictJustified
  <2>7. AckedMeansDecided'
    BY <1>6 DEF Inv, TypeOK, SendAccepted, AcceptedBySES, AckedMeansDecided
  <2> QED
    BY <2>1, <2>2, <2>3, <2>4, <2>5, <2>6, <2>7 DEF Inv
<1>7. ASSUME NEW w \in Workers, SendTransient(w) PROVE Inv'
  <2>1. SentMeansAccepted'
    BY <1>7 DEF Inv, TypeOK, SendTransient, AcceptedBySES, SentMeansAccepted
  <2>2. OneHolder'
    BY <1>7 DEF Inv, TypeOK, SendTransient, Transient, Answer, GotoAnswering,
       OneHolder, HeldUnrecorded, Unrecorded
  <2>3. AcceptanceKnown'
    BY <1>7 DEF Inv, TypeOK, SendTransient, AcceptedBySES, Transient, Answer,
       GotoAnswering, AcceptanceKnown
  <2>4. NotAcceptedYet'
    BY <1>7 DEF Inv, TypeOK, SendTransient, AcceptedBySES, Transient, Answer,
       GotoAnswering, NotAcceptedYet
  <2>5. AcceptedOnce'
    BY <1>7 DEF Inv, TypeOK, SendTransient, AcceptedBySES, AcceptedOnce
  <2>6. VerdictJustified'
    BY <1>7 DEF Inv, TypeOK, SendTransient, AcceptedBySES, Transient, Answer,
       GotoAnswering, VerdictJustified
  <2>7. AckedMeansDecided'
    BY <1>7 DEF Inv, TypeOK, SendTransient, AcceptedBySES, AckedMeansDecided
  <2> QED
    BY <2>1, <2>2, <2>3, <2>4, <2>5, <2>6, <2>7 DEF Inv
<1>8. ASSUME NEW w \in Workers, SendRefused(w) PROVE Inv'
  <2>1. SentMeansAccepted' /\ AcceptedOnce'
    BY <1>8 DEF Inv, SendRefused, SentMeansAccepted, AcceptedOnce
  <2>2. OneHolder'
    BY <1>8 DEF Inv, SendRefused, GotoAnswering, OneHolder, HeldUnrecorded,
       Unrecorded
  <2>3. AcceptanceKnown'
    BY <1>8 DEF Inv, SendRefused, GotoAnswering, AcceptanceKnown
  <2>4. NotAcceptedYet'
    BY <1>8 DEF Inv, SendRefused, GotoAnswering, NotAcceptedYet
  <2>5. VerdictJustified'
    BY <1>8 DEF Inv, SendRefused, GotoAnswering, VerdictJustified
  <2>6. AckedMeansDecided'
    BY <1>8 DEF Inv, SendRefused, AckedMeansDecided
  <2> QED
    BY <2>1, <2>2, <2>3, <2>4, <2>5, <2>6 DEF Inv
<1>9. ASSUME NEW w \in Workers, RecordSent(w) PROVE Inv'
  <2>1. AckedMeansDecided'
    BY <1>9 DEF Inv, RecordSent, AckedMeansDecided
  <2>2. SentMeansAccepted'
    BY <1>9 DEF Inv, TypeOK, RecordSent, Execute, SentMeansAccepted,
       VerdictJustified
  <2>3. OneHolder'
    BY <1>9 DEF Inv, RecordSent, GotoAnswering, OneHolder, HeldUnrecorded,
       Unrecorded
  <2>4. AcceptanceKnown'
    BY <1>9 DEF Inv, TypeOK, RecordSent, Execute, MarkedSent, GotoAnswering,
       AcceptanceKnown, Terminal
  <2>5. NotAcceptedYet'
    BY <1>9 DEF Inv, TypeOK, RecordSent, Execute, MarkedSent, GotoAnswering,
       NotAcceptedYet
  <2>6. AcceptedOnce'
    BY <1>9 DEF Inv, TypeOK, RecordSent, Execute, MarkedSent, AcceptedOnce
  <2>7. VerdictJustified'
    BY <1>9 DEF Inv, RecordSent, GotoAnswering, VerdictJustified
  <2> QED
    BY <2>1, <2>2, <2>3, <2>4, <2>5, <2>6, <2>7 DEF Inv
<1>10. ASSUME NEW w \in Workers, PublishSent(w) PROVE Inv'
  <2>1. SentMeansAccepted' /\ AcceptedOnce' /\ AckedMeansDecided'
    BY <1>10 DEF Inv, PublishSent, PublishEvent, SentMeansAccepted,
       AcceptedOnce, AckedMeansDecided
  <2>2. OneHolder'
    BY <1>10 DEF Inv, PublishSent, PublishEvent, Goto, OneHolder,
       HeldUnrecorded, Unrecorded
  <2>3. AcceptanceKnown'
    BY <1>10 DEF Inv, PublishSent, PublishEvent, Goto, AcceptanceKnown
  <2>4. NotAcceptedYet'
    BY <1>10 DEF Inv, PublishSent, PublishEvent, Goto, NotAcceptedYet
  <2>5. VerdictJustified'
    BY <1>10 DEF Inv, PublishSent, PublishEvent, Goto, VerdictJustified
  <2> QED
    BY <2>1, <2>2, <2>3, <2>4, <2>5 DEF Inv
<1>11. ASSUME NEW w \in Workers, PublishFailed(w) PROVE Inv'
  <2>1. SentMeansAccepted' /\ AcceptedOnce' /\ AckedMeansDecided'
    BY <1>11 DEF Inv, PublishFailed, PublishEvent, SentMeansAccepted,
       AcceptedOnce, AckedMeansDecided
  <2>2. OneHolder'
    BY <1>11 DEF Inv, PublishFailed, PublishEvent, Goto, OneHolder,
       HeldUnrecorded, Unrecorded
  <2>3. AcceptanceKnown'
    BY <1>11 DEF Inv, PublishFailed, PublishEvent, Goto, AcceptanceKnown
  <2>4. NotAcceptedYet'
    BY <1>11 DEF Inv, PublishFailed, PublishEvent, Goto, NotAcceptedYet
  <2>5. VerdictJustified'
    BY <1>11 DEF Inv, PublishFailed, PublishEvent, Goto, VerdictJustified
  <2> QED
    BY <2>1, <2>2, <2>3, <2>4, <2>5 DEF Inv
<1>12. ASSUME NEW w \in Workers, PublishDLQ(w) PROVE Inv'
  <2>1. SentMeansAccepted' /\ AcceptedOnce' /\ AckedMeansDecided'
    BY <1>12 DEF Inv, PublishDLQ, SentMeansAccepted, AcceptedOnce,
       AckedMeansDecided
  <2>2. OneHolder'
    BY <1>12 DEF Inv, PublishDLQ, Goto, OneHolder, HeldUnrecorded, Unrecorded
  <2>3. AcceptanceKnown'
    BY <1>12 DEF Inv, PublishDLQ, Goto, AcceptanceKnown
  <2>4. NotAcceptedYet'
    BY <1>12 DEF Inv, PublishDLQ, Goto, NotAcceptedYet
  <2>5. VerdictJustified'
    BY <1>12 DEF Inv, PublishDLQ, Goto, VerdictJustified
  <2> QED
    BY <2>1, <2>2, <2>3, <2>4, <2>5 DEF Inv
<1>13. ASSUME NEW w \in Workers, RecordFailed(w) PROVE Inv'
  <2>1. AckedMeansDecided'
    BY <1>13 DEF Inv, RecordFailed, AckedMeansDecided
  <2>2. SentMeansAccepted'
    BY <1>13 DEF Inv, TypeOK, RecordFailed, Execute, MayExecute, MarkedFailed,
       SentMeansAccepted, Terminal
  <2>3. OneHolder'
    BY <1>13 DEF Inv, RecordFailed, Goto, OneHolder, HeldUnrecorded,
       Unrecorded
  <2>4. AcceptanceKnown'
    BY <1>13 DEF Inv, TypeOK, RecordFailed, Execute, MayExecute, MarkedFailed,
       Goto, AcceptanceKnown, Terminal
  <2>5. NotAcceptedYet'
    BY <1>13 DEF Inv, TypeOK, RecordFailed, Execute, MayExecute, MarkedFailed,
       Goto, NotAcceptedYet
  <2>6. AcceptedOnce'
    BY <1>13 DEF Inv, TypeOK, RecordFailed, Execute, MayExecute, MarkedFailed,
       AcceptedOnce
  <2>7. VerdictJustified'
    BY <1>13 DEF Inv, RecordFailed, Goto, VerdictJustified
  <2> QED
    BY <2>1, <2>2, <2>3, <2>4, <2>5, <2>6, <2>7 DEF Inv
<1>14. ASSUME NEW w \in Workers, AnswerMessage(w) PROVE Inv'
  <2>1. SentMeansAccepted'
    BY <1>14 DEF Inv, AnswerMessage, SentMeansAccepted
  <2>2. OneHolder'
    BY <1>14, AnsweredFacts DEF Inv, TypeOK, AnswerMessage, RequeueNoted,
       Release, OneHolder, HeldUnrecorded, Unrecorded
  <2>3. AcceptanceKnown'
    BY <1>14 DEF Inv, AnswerMessage, RequeueNoted, Release, AcceptanceKnown
  <2>4. NotAcceptedYet'
    BY <1>14 DEF Inv, AnswerMessage, RequeueNoted, Release, NotAcceptedYet
  <2>5. AcceptedOnce'
    BY <1>14 DEF Inv, AnswerMessage, RequeueNoted, AcceptedOnce
  <2>6. VerdictJustified'
    BY <1>14 DEF Inv, TypeOK, AnswerMessage, Release, VerdictJustified
  <2>7. AckedMeansDecided'
    BY <1>14, AnsweredFacts DEF Inv, TypeOK, AnswerMessage, AckedMeansDecided,
       VerdictJustified
  <2> QED
    BY <2>1, <2>2, <2>3, <2>4, <2>5, <2>6, <2>7 DEF Inv
<1>15. ASSUME NEW w \in Workers, Crash(w) PROVE Inv'
  <2>1. SentMeansAccepted' /\ AckedMeansDecided'
    BY <1>15 DEF Inv, Crash, SentMeansAccepted, AckedMeansDecided
  <2>2. OneHolder'
    BY <1>15 DEF Inv, TypeOK, Crash, LeaveNoted, Release, OneHolder,
       HeldUnrecorded, Unrecorded
  <2>3. AcceptanceKnown'
    BY <1>15 DEF Inv, Crash, LeaveNoted, Release, AcceptanceKnown
  <2>4. NotAcceptedYet'
    BY <1>15 DEF Inv, TypeOK, Crash, LeaveNoted, Release, NotAcceptedYet
  <2>5. AcceptedOnce'
    BY <1>15 DEF Inv, Crash, LeaveNoted, AcceptedOnce
  <2>6. VerdictJustified'
    BY <1>15 DEF Inv, TypeOK, Crash, Release, VerdictJustified
  <2> QED
    BY <2>1, <2>2, <2>3, <2>4, <2>5, <2>6 DEF Inv
<1>16. ASSUME NEW w \in Workers, Panic(w) PROVE Inv'
  <2>1. SentMeansAccepted'
    BY <1>16 DEF Inv, Panic, SentMeansAccepted
  <2>2. OneHolder'
    BY <1>16, RequeuedFacts DEF Inv, TypeOK, Panic, LeaveNoted, RequeueNoted,
       Release, OneHolder, HeldUnrecorded, Unrecorded
  <2>3. AcceptanceKnown'
    BY <1>16 DEF Inv, Panic, LeaveNoted, RequeueNoted, Release,
       AcceptanceKnown
  <2>4. NotAcceptedYet'
    BY <1>16 DEF Inv, TypeOK, Panic, LeaveNoted, RequeueNoted, Release,
       NotAcceptedYet
  <2>5. AcceptedOnce'
    BY <1>16 DEF Inv, Panic, LeaveNoted, RequeueNoted, AcceptedOnce
  <2>6. VerdictJustified'
    BY <1>16 DEF Inv, TypeOK, Panic, Release, VerdictJustified
  <2>7. AckedMeansDecided'
    BY <1>16, RequeuedFacts DEF Inv, TypeOK, Panic, AckedMeansDecided
  <2> QED
    BY <2>1, <2>2, <2>3, <2>4, <2>5, <2>6, <2>7 DEF Inv
<1>17. ASSUME NEW s \in Sends, Expire(s) PROVE Inv'
  <2>1. SentMeansAccepted' /\ VerdictJustified'
    BY <1>17 DEF Inv, Expire, SentMeansAccepted, VerdictJustified
  <2>2. OneHolder'
    BY <1>17 DEF Inv, Expire, RequeueNoted, OneHolder, HeldUnrecorded
  <2>3. AcceptanceKnown'
    BY <1>17 DEF Inv, Expire, RequeueNoted, AcceptanceKnown
  <2>4. NotAcceptedYet'
    BY <1>17 DEF Inv, Expire, RequeueNoted, NotAcceptedYet
  <2>5. AcceptedOnce'
    BY <1>17 DEF Inv, Expire, RequeueNoted, AcceptedOnce
  <2>6. AckedMeansDecided'
    BY <1>17, RequeuedFacts DEF Inv, TypeOK, Expire, AckedMeansDecided
  <2> QED
    BY <2>1, <2>2, <2>3, <2>4, <2>5, <2>6 DEF Inv
<1>18. ASSUME NEW s \in Sends, Bounce(s) PROVE Inv'
  <2>1. OneHolder' /\ VerdictJustified' /\ AckedMeansDecided'
    BY <1>18 DEF Inv, Bounce, OneHolder, HeldUnrecorded, VerdictJustified,
       AckedMeansDecided
  <2>2. SentMeansAccepted'
    BY <1>18 DEF Inv, Bounce, SentMeansAccepted
  <2>3. AcceptanceKnown'
    BY <1>18 DEF Inv, Bounce, AcceptanceKnown, Terminal
  <2>4. NotAcceptedYet'
    BY <1>18 DEF Inv, Bounce, NotAcceptedYet
  <2>5. AcceptedOnce'
    BY <1>18 DEF Inv, Bounce, AcceptedOnce
  <2> QED
    BY <2>1, <2>2, <2>3, <2>4, <2>5 DEF Inv
<1>19. CASE UNCHANGED vars
  BY <1>19 DEF vars, Inv, SentMeansAccepted, OneHolder, AcceptanceKnown,
     NotAcceptedYet, AcceptedOnce, VerdictJustified, AckedMeansDecided,
     HeldUnrecorded
<1> QED
  BY <1>1, <1>2, <1>3, <1>4, <1>5, <1>6, <1>7, <1>8, <1>9, <1>10, <1>11,
     <1>12, <1>13, <1>14, <1>15, <1>16, <1>17, <1>18, <1>19 DEF Next, Work

\* The inductive invariant holds of a fresh send.
LEMMA InvInit == Init => Inv
<1> SUFFICES ASSUME Init PROVE Inv
  OBVIOUS
<1>1. TypeOK
  BY TypeOKInit
<1>2. SentMeansAccepted /\ AcceptanceKnown /\ AcceptedOnce
  BY DEF Init, SentMeansAccepted, Terminal, AcceptanceKnown, AcceptedOnce
<1>3. OneHolder /\ NotAcceptedYet /\ VerdictJustified
  BY DEF Init, OneHolder, HeldUnrecorded, Unrecorded, NotAcceptedYet, VerdictJustified
<1>4. AckedMeansDecided
  BY DEF Init, AckedMeansDecided, NewMsg
<1> QED
  BY <1>1, <1>2, <1>3, <1>4 DEF Inv

\* The inductive invariant: who may still hold each message, and what each
\* worker of Handler.Handle has seen when it acts.
THEOREM Invariance == Spec => []Inv
BY InvInit, InvStep, PTL DEF Spec

\* The idempotency check (handler.go:172-182) keeps SES from accepting an email
\* twice, outside the ambiguities no check could resolve, for any number of
\* sends, workers and attempts.
THEOREM NoDoubleSend == Spec => []AcceptedOnce
<1>1. Inv => AcceptedOnce
  BY DEF Inv
<1> QED
  BY <1>1, Invariance, PTL

\* A row says 'sent' only of an email SES accepted (handler.go:254-266).
THEOREM SentIsTrue == Spec => []SentMeansAccepted
<1>1. Inv => SentMeansAccepted
  BY DEF Inv
<1> QED
  BY <1>1, Invariance, PTL

\* No Ack of the handler loses an email (handler.go:181, 242, 274).
THEOREM NoLostEmail == Spec => []AckedMeansDecided
<1>1. Inv => AckedMeansDecided
  BY DEF Inv
<1> QED
  BY <1>1, Invariance, PTL

\* A row that rests at 'failed' is of an email nobody received
\* (client.go:194-202): the guards of the statements keep every acceptance that
\* is known in the row.
THEOREM FailureIsTrue == Spec => []FailedMeansNotAccepted
<1>1. Inv => FailedMeansNotAccepted
  <2> SUFFICES ASSUME Inv, NEW s \in Sends,
                      row[s] = "failed", s \notin ambiguous,
                      \A w \in Workers : ~(pc[w] = "recordSent" /\ job[w] = s)
               PROVE  accepted[s] = 0
    BY DEF FailedMeansNotAccepted
  <2>1. ~(accepted[s] > 0)
    BY DEF Inv, AcceptanceKnown, Terminal
  <2> QED
    BY <2>1 DEF Inv, TypeOK
<1> QED
  BY <1>1, Invariance, PTL

\* Whatever deliveries overlap, a row that says 'sent' or 'bounced' is never
\* taken back (client.go:175-202).
THEOREM SentStaysSent == Spec => SentIsFinal
<1>1. TypeOK /\ [Next]_vars =>
        [\A s \in Sends :
            /\ row[s] = "sent" => row'[s] \in {"sent", "bounced"}
            /\ row[s] = "bounced" => row'[s] = "bounced"]_vars
  <2> SUFFICES ASSUME TypeOK, Next, NEW s \in Sends
               PROVE  /\ row[s] = "sent" => row'[s] \in {"sent", "bounced"}
                      /\ row[s] = "bounced" => row'[s] = "bounced"
    OBVIOUS
  <2>1. \/ UNCHANGED row
        \/ \E t \in Sends, new \in RowStates : Execute(t, new) /\
              new \in {MarkedSending(row[t]), MarkedSent(row[t]), MarkedFailed(row[t])}
        \/ \E t \in Sends : Bounce(t)
    <3>1. ASSUME NEW w \in Workers, Work(w)
          PROVE  \/ UNCHANGED row
                 \/ \E t \in Sends, new \in RowStates : Execute(t, new) /\
                       new \in {MarkedSending(row[t]), MarkedSent(row[t]), MarkedFailed(row[t])}
      <4>1. MarkSending(w) \/ RecordSent(w) \/ RecordFailed(w) => job[w] \in Sends
        BY DEF TypeOK, MarkSending, RecordSent, RecordFailed
      <4>2. \A t \in Sends : /\ MarkedSending(row[t]) \in RowStates
                             /\ MarkedSent(row[t]) \in RowStates
                             /\ MarkedFailed(row[t]) \in RowStates
        BY DEF TypeOK, RowStates, MarkedSending, MarkedSent, MarkedFailed
      <4>3. CASE MarkSending(w)
        BY <4>1, <4>2, <4>3 DEF MarkSending, MayExecute
      <4>4. CASE RecordSent(w)
        BY <4>1, <4>2, <4>4 DEF RecordSent
      <4>5. CASE RecordFailed(w)
        BY <4>1, <4>2, <4>5 DEF RecordFailed, MayExecute
      <4>6. CASE ~(MarkSending(w) \/ RecordSent(w) \/ RecordFailed(w))
        BY <3>1, <4>6 DEF Work, Validate, CheckStatus, Acquire, SendAccepted,
           SendTransient, SendRefused, PublishSent, PublishFailed, PublishEvent,
           PublishDLQ, AnswerMessage
      <4> QED
        BY <4>3, <4>4, <4>5, <4>6
    <3> QED
      BY <3>1 DEF Next, Receive, Crash, Panic, Expire
  <2> QED
    BY <2>1 DEF TypeOK, Execute, Bounce, MarkedSending, MarkedSent, MarkedFailed
<1> QED
  BY <1>1, TypeCorrect, PTL DEF Spec, SentIsFinal

\* What Mailer sees as the status of the emails, for a given table of rows.
StatusOf(rows) == [s \in Sends |-> IF Terminal(rows[s]) THEN rows[s] ELSE "open"]

\* Doubt never goes away: whoever is noted as ambiguous stays so, and no
\* statement of the worker inserts or deletes a row.
LEMMA DoubtGrows ==
  TypeOK /\ [Next]_vars =>
     /\ ambiguous \subseteq ambiguous'
     /\ \A s \in Sends : row[s] = "none" <=> row'[s] = "none"
<1> SUFFICES ASSUME TypeOK, [Next]_vars
             PROVE  /\ ambiguous \subseteq ambiguous'
                    /\ \A s \in Sends : row[s] = "none" <=> row'[s] = "none"
  OBVIOUS
<1>1. ASSUME NEW w \in Workers, Work(w)
      PROVE  /\ ambiguous \subseteq ambiguous'
             /\ \A s \in Sends : row[s] = "none" <=> row'[s] = "none"
  <2>1. CASE MarkSending(w)
    BY <2>1 DEF TypeOK, MarkSending, MayExecute, Execute, MarkedSending
  <2>2. CASE RecordSent(w)
    BY <2>2 DEF TypeOK, RecordSent, Execute, MarkedSent
  <2>3. CASE RecordFailed(w)
    BY <2>3 DEF TypeOK, RecordFailed, MayExecute, Execute, MarkedFailed
  <2>4. CASE AnswerMessage(w)
    BY <2>4 DEF AnswerMessage, RequeueNoted
  <2>5. CASE ~(MarkSending(w) \/ RecordSent(w) \/ RecordFailed(w) \/ AnswerMessage(w))
    BY <1>1, <2>5 DEF Work, Validate, CheckStatus, Acquire, SendAccepted, SendTransient,
       SendRefused, PublishSent, PublishFailed, PublishEvent, PublishDLQ
  <2> QED
    BY <2>1, <2>2, <2>3, <2>4, <2>5
<1>2. ASSUME NEW s \in Sends, Bounce(s)
      PROVE  /\ ambiguous \subseteq ambiguous'
             /\ \A t \in Sends : row[t] = "none" <=> row'[t] = "none"
  BY <1>2 DEF TypeOK, Bounce
<1> QED
  BY <1>1, <1>2 DEF Next, Receive, Crash, Panic, Expire, LeaveNoted, RequeueNoted, vars

\* A step that touches neither the status Mailer sees nor the acceptances is a
\* step of Mailer, in which doubt may grow.
LEMMA QuietStep ==
  ASSUME TypeOK, [Next]_vars, UNCHANGED accepted, StatusOf(row') = StatusOf(row)
  PROVE  Mail!Next
BY DoubtGrows DEF Mail!Next, StatusOf

\* Every step of the consumer is one of Mailer, or none.
LEMMA MailerStep == Inv /\ Inv' /\ [Next]_vars => Mail!Next
<1> SUFFICES ASSUME Inv, Inv', [Next]_vars PROVE Mail!Next
  OBVIOUS
<1> TypeOK /\ TypeOK'
  BY DEF Inv
<1>1. ASSUME NEW w \in Workers, Work(w) PROVE Mail!Next
  <2>1. CASE MarkSending(w)
    <3>1. StatusOf(row') = StatusOf(row)
      BY <2>1 DEF TypeOK, MarkSending, MayExecute, Execute, MarkedSending, StatusOf, Terminal
    <3> QED
      BY <2>1, <3>1, QuietStep DEF MarkSending
  <2>2. CASE RecordSent(w)
    <3>1. CASE StatusOf(row') = StatusOf(row)
      BY <2>2, <3>1, QuietStep DEF RecordSent
    <3>2. CASE StatusOf(row') # StatusOf(row)
      <4>1. PICK s \in Sends : s = job[w] /\ accepted[s] > 0
        BY <2>2 DEF Inv, TypeOK, RecordSent, VerdictJustified
      <4>2. row' = [row EXCEPT ![s] = "sent"] /\ ~Terminal(row[s])
        BY <2>2, <3>2, <4>1 DEF TypeOK, RecordSent, Execute, MarkedSent, StatusOf, Terminal
      <4>3. StatusOf(row') = [StatusOf(row) EXCEPT ![s] = "sent"] /\ StatusOf(row)[s] = "open"
        BY <4>1, <4>2 DEF TypeOK, StatusOf, Terminal
      <4>4. Mail!Record(s)
        BY <2>2, <4>1, <4>3 DEF RecordSent, Mail!Record, StatusOf
      <4> QED
        BY <4>4, DoubtGrows DEF Mail!Next
    <3> QED
      BY <3>1, <3>2
  <2>3. CASE RecordFailed(w)
    <3>1. StatusOf(row') = StatusOf(row)
      BY <2>3 DEF TypeOK, RecordFailed, MayExecute, Execute, MarkedFailed, StatusOf, Terminal
    <3> QED
      BY <2>3, <3>1, QuietStep DEF RecordFailed
  <2>4. CASE SendAccepted(w)
    <3>1. job[w] \in Sends /\ Mail!Accept(job[w])
      BY <2>4 DEF Inv, TypeOK, SendAccepted, AcceptedBySES, NotAcceptedYet, Mail!Accept
    <3> QED
      BY <3>1, DoubtGrows DEF Mail!Next
  <2>5. CASE SendTransient(w)
    <3>1. CASE UNCHANGED accepted
      BY <2>5, <3>1, QuietStep DEF SendTransient
    <3>2. CASE AcceptedBySES(job[w])
      <4>1. job[w] \in Sends /\ Mail!Accept(job[w])
        BY <2>5, <3>2 DEF Inv, TypeOK, SendTransient, AcceptedBySES, NotAcceptedYet, Mail!Accept
      <4> QED
        BY <4>1, DoubtGrows DEF Mail!Next
    <3> QED
      BY <2>5, <3>1, <3>2 DEF SendTransient
  <2>6. CASE ~(\/ MarkSending(w) \/ RecordSent(w) \/ RecordFailed(w)
               \/ SendAccepted(w) \/ SendTransient(w))
    <3>1. UNCHANGED <<row, accepted>>
      BY <1>1, <2>6 DEF Work, Validate, CheckStatus, Acquire, SendRefused, PublishSent,
         PublishFailed, PublishEvent, PublishDLQ, AnswerMessage
    <3> QED
      BY <3>1, QuietStep
  <2> QED
    BY <2>1, <2>2, <2>3, <2>4, <2>5, <2>6
<1>2. ASSUME NEW s \in Sends, Bounce(s) PROVE Mail!Next
  <2>1. StatusOf(row') = [StatusOf(row) EXCEPT ![s] = "bounced"]
    BY <1>2 DEF TypeOK, Bounce, StatusOf, Terminal
  <2>2. Mail!Bounce(s)
    BY <1>2, <2>1 DEF Bounce, Mail!Bounce, StatusOf
  <2> QED
    BY <2>2, DoubtGrows DEF Mail!Next
<1>3. CASE UNCHANGED <<row, accepted>>
  BY <1>3, QuietStep
<1> QED
  BY <1>1, <1>2, <1>3 DEF Next, Receive, Crash, Panic, Expire, vars

\* The transactional worker is a mailer (handler.go:144-275): at most one
\* acceptance where there is no doubt, 'sent' of accepted emails only, and taken
\* back by bounces only.
THEOREM IsMailer == Spec => ImplementsMailer
<1>1. Init => Mail!Init
  BY DEF Init, Mail!Init, Terminal
<1>2. Inv /\ Inv' /\ [Next]_vars => [Mail!Next]_(Mail!vars)
  BY MailerStep
<1> QED
  BY <1>1, <1>2, Invariance, PTL DEF Spec, ImplementsMailer, Mail!Spec

-----------------------------------------------------------------------------
(***************************************************************************)
(* A send is given up at the last delivery only.  What a worker knows of   *)
(* the deliveries is the count it was handed, which JetStream only ever    *)
(* raises.                                                                 *)
(***************************************************************************)

\* The delivery a worker handles is one JetStream has counted.
AttemptIsCounted == \A w \in Workers : pc[w] # "idle" => attempt[w] <= msg[job[w]].n

\* Whoever is about to give a valid send up has the last attempt in hand, or
\* goes through the failure's records because SES refused the email.
GivingUpIsLast ==
    \A w \in Workers : job[w] \notin Malformed =>
       /\ pc[w] = "publishSent" => verdict[w] = "ack"
       /\ pc[w] = "publishDLQ" => attempt[w] >= MaxAttempts
       /\ pc[w] \in {"recordFailed", "publishFailed"} =>
             attempt[w] >= MaxAttempts \/ (verdict[w] = "ack" /\ job[w] \in refused)
       /\ pc[w] = "answer" /\ verdict[w] = "term" => attempt[w] >= MaxAttempts

LastInv == AttemptIsCounted /\ GivingUpIsLast /\ GivenUpOnlyAtTheEnd

\* No step takes a delivery back.
LEMMA CountGrows ==
  ASSUME TypeOK, [Next]_vars, NEW s \in Sends
  PROVE  msg'[s].n >= msg[s].n
<1>1. ASSUME NEW w \in Workers, NEW t \in Sends, Receive(w, t) PROVE msg'[s].n >= msg[s].n
  BY <1>1, DeliveredFacts DEF TypeOK, Receive, Msgs
<1>2. ASSUME NEW w \in Workers, AnswerMessage(w) PROVE msg'[s].n >= msg[s].n
  BY <1>2, AnsweredFacts DEF TypeOK, AnswerMessage, Msgs
<1>3. ASSUME NEW w \in Workers, Panic(w) PROVE msg'[s].n >= msg[s].n
  BY <1>3, RequeuedFacts DEF TypeOK, Panic, Msgs
<1>4. ASSUME NEW t \in Sends, Expire(t) PROVE msg'[s].n >= msg[s].n
  BY <1>4, RequeuedFacts DEF TypeOK, Expire, Msgs
<1>5. CASE UNCHANGED msg
  BY <1>5 DEF TypeOK, Msgs
<1> QED
  BY <1>1, <1>2, <1>3, <1>4, <1>5 DEF Next, Work, Validate, CheckStatus, Acquire, MarkSending,
     SendAccepted, SendTransient, SendRefused, RecordSent, PublishSent, PublishFailed,
     PublishEvent, PublishDLQ, RecordFailed, Crash, Bounce, vars

\* A worker that stays busy keeps its delivery.
LEMMA AttemptCountedStep == TypeOK /\ AttemptIsCounted /\ [Next]_vars => AttemptIsCounted'
<1> SUFFICES ASSUME TypeOK, AttemptIsCounted, [Next]_vars, NEW w \in Workers, pc'[w] # "idle"
             PROVE  attempt'[w] <= msg'[job'[w]].n
  BY DEF AttemptIsCounted
<1> TypeOK'
  BY TypeOKStep
<1>1. CASE \E s \in Sends : Receive(w, s)
  BY <1>1, DeliveredFacts DEF TypeOK, Receive
<1>2. CASE ~ \E s \in Sends : Receive(w, s)
  <2>1. pc[w] # "idle" /\ attempt'[w] = attempt[w] /\ job'[w] = job[w]
    <3>1. ASSUME NEW v \in Workers, NEW s \in Sends, Receive(v, s)
          PROVE  pc[w] # "idle" /\ attempt'[w] = attempt[w] /\ job'[w] = job[w]
      BY <1>2, <3>1 DEF TypeOK, Receive
    <3>2. ASSUME NEW v \in Workers, Work(v)
          PROVE  pc[w] # "idle" /\ attempt'[w] = attempt[w] /\ job'[w] = job[w]
      <4>1. CASE AnswerMessage(v)
        BY <4>1 DEF TypeOK, AnswerMessage, Release
      <4>2. CASE ~AnswerMessage(v)
        <5>1. pc[v] # "idle" /\ UNCHANGED <<job, attempt>>
          BY <3>2, <4>2 DEF Work, Validate, CheckStatus, Acquire, MarkSending, SendAccepted,
             SendTransient, Transient, SendRefused, RecordSent, PublishSent, PublishFailed,
             PublishEvent, PublishDLQ, RecordFailed, Goto, Answer, GotoAnswering
        <5>2. \A u \in Workers \ {v} : pc'[u] = pc[u]
          BY <3>2, <4>2 DEF TypeOK, Work, Validate, CheckStatus, Acquire, MarkSending, SendAccepted,
             SendTransient, Transient, SendRefused, RecordSent, PublishSent, PublishFailed,
             PublishEvent, PublishDLQ, RecordFailed, Goto, Answer, GotoAnswering
        <5> QED
          BY <5>1, <5>2
      <4> QED
        BY <4>1, <4>2
    <3>3. ASSUME NEW v \in Workers, Crash(v) \/ Panic(v)
          PROVE  pc[w] # "idle" /\ attempt'[w] = attempt[w] /\ job'[w] = job[w]
      BY <3>3 DEF TypeOK, Crash, Panic, Release
    <3>4. CASE UNCHANGED <<pc, job, attempt>>
      BY <3>4
    <3> QED
      BY <3>1, <3>2, <3>3, <3>4 DEF Next, Expire, Bounce, vars
  <2>2. job[w] \in Sends /\ attempt[w] <= msg[job[w]].n
    BY <2>1 DEF TypeOK, AttemptIsCounted
  <2>3. msg'[job[w]].n >= msg[job[w]].n
    BY <2>2, CountGrows
  <2>4. attempt[w] \in Nat /\ msg[job[w]].n \in Nat /\ msg'[job[w]].n \in Nat
    BY <2>2 DEF TypeOK, Msgs
  <2> QED
    BY <2>1, <2>2, <2>3, <2>4
<1> QED
  BY <1>1, <1>2

\* What leads to the dead-letter queue, to a failure's records and to the Term.
LEMMA GivingUpStep == TypeOK /\ GivingUpIsLast /\ [Next]_vars => GivingUpIsLast'
<1> SUFFICES ASSUME TypeOK, GivingUpIsLast, [Next]_vars PROVE GivingUpIsLast'
  OBVIOUS
<1> USE DEF TypeOK, GivingUpIsLast
<1>1. ASSUME NEW w \in Workers, NEW s \in Sends, Receive(w, s) PROVE GivingUpIsLast'
  BY <1>1 DEF Receive
<1>2. ASSUME NEW w \in Workers, Validate(w) PROVE GivingUpIsLast'
  BY <1>2 DEF Validate, Answer, Goto, GotoAnswering
<1>3. ASSUME NEW w \in Workers, CheckStatus(w) \/ Acquire(w) \/ MarkSending(w)
      PROVE  GivingUpIsLast'
  BY <1>3 DEF CheckStatus, Acquire, MarkSending, Answer, Goto, GotoAnswering
<1>4. ASSUME NEW w \in Workers, SendAccepted(w) \/ SendRefused(w) \/ RecordSent(w)
      PROVE  GivingUpIsLast'
  BY <1>4 DEF SendAccepted, SendRefused, RecordSent, Goto, GotoAnswering
<1>5. ASSUME NEW w \in Workers, SendTransient(w) PROVE GivingUpIsLast'
  BY <1>5 DEF SendTransient, Transient, Answer, GotoAnswering
<1>6. ASSUME NEW w \in Workers, PublishSent(w) \/ PublishFailed(w) PROVE GivingUpIsLast'
  BY <1>6 DEF PublishSent, PublishFailed, PublishEvent, Goto
<1>7. ASSUME NEW w \in Workers, PublishDLQ(w) \/ RecordFailed(w) PROVE GivingUpIsLast'
  BY <1>7 DEF PublishDLQ, RecordFailed, Goto
<1>8. ASSUME NEW w \in Workers, AnswerMessage(w) PROVE GivingUpIsLast'
  BY <1>8 DEF AnswerMessage, Release
<1>9. ASSUME NEW w \in Workers, Crash(w) \/ Panic(w) PROVE GivingUpIsLast'
  BY <1>9 DEF Crash, Panic, Release
<1>10. CASE UNCHANGED <<pc, job, attempt, verdict, refused>>
  BY <1>10
<1> QED
  BY <1>1, <1>2, <1>3, <1>4, <1>5, <1>6, <1>7, <1>8, <1>9, <1>10
     DEF Next, Work, Expire, Bounce, vars

\* A Term, a dead letter or an unexplained failure is the last delivery's.
LEMMA GivenUpStep ==
  TypeOK /\ AttemptIsCounted /\ GivingUpIsLast /\ GivenUpOnlyAtTheEnd /\ [Next]_vars
     => GivenUpOnlyAtTheEnd'
<1> SUFFICES ASSUME TypeOK, AttemptIsCounted, GivingUpIsLast, GivenUpOnlyAtTheEnd, [Next]_vars,
                    NEW s \in Sends \ Malformed,
                    \/ msg'[s].st = "termed"
                    \/ s \in dlq'
                    \/ <<s, "failed">> \in events' /\ s \notin refused'
             PROVE  msg'[s].n >= MaxAttempts
  BY DEF GivenUpOnlyAtTheEnd
<1> USE MaxAttemptsAssumption
<1> DEFINE Given == \/ msg[s].st = "termed"
                    \/ s \in dlq
                    \/ <<s, "failed">> \in events /\ s \notin refused
           Giving(w) == pc[w] # "idle" /\ job[w] = s /\ attempt[w] >= MaxAttempts
<1>1. msg'[s].n >= msg[s].n /\ msg'[s].n \in Nat /\ msg[s].n \in Nat
  <2>1. TypeOK'
    BY TypeOKStep
  <2> QED
    BY <2>1, CountGrows DEF TypeOK, Msgs
<1>2. Given \/ \E w \in Workers : Giving(w)
  <2> SUFFICES ASSUME ~Given PROVE \E w \in Workers : Giving(w)
    OBVIOUS
  <2>1. ASSUME NEW w \in Workers, NEW t \in Sends, Receive(w, t) PROVE FALSE
    BY <2>1, DeliveredFacts DEF TypeOK, Receive
  <2>2. ASSUME NEW w \in Workers, AnswerMessage(w) PROVE Giving(w)
    <3>1. job[w] \in Sends /\ verdict[w] \in Verdicts
      BY <2>2 DEF TypeOK, AnswerMessage
    <3>2. /\ UNCHANGED <<dlq, events, refused>>
          /\ msg'[s] = IF s = job[w] THEN Answered(msg[s], verdict[w], MaxAttempts) ELSE msg[s]
      BY <2>2, <3>1 DEF TypeOK, AnswerMessage
    <3>3. s = job[w] /\ verdict[w] = "term"
      BY <3>1, <3>2, AnsweredFacts DEF TypeOK
    <3> QED
      BY <2>2, <3>3 DEF AnswerMessage, GivingUpIsLast
  <2>3. ASSUME NEW w \in Workers, Crash(w) \/ Panic(w) PROVE FALSE
    BY <2>3, RequeuedFacts DEF TypeOK, Crash, Panic
  <2>4. ASSUME NEW t \in Sends, Expire(t) PROVE FALSE
    BY <2>4, RequeuedFacts DEF TypeOK, Expire
  <2>5. ASSUME NEW w \in Workers, PublishDLQ(w) PROVE Giving(w)
    BY <2>5 DEF PublishDLQ, GivingUpIsLast
  <2>6. ASSUME NEW w \in Workers, PublishFailed(w) PROVE Giving(w)
    <3>1. UNCHANGED <<msg, dlq, refused>> /\ events' \in {events, events \cup {<<job[w], "failed">>}}
      BY <2>6 DEF PublishFailed, PublishEvent
    <3>2. <<s, "failed">> \notin events /\ <<s, "failed">> \in events' /\ s \notin refused
      BY <3>1
    <3>3. job[w] = s
      BY <3>1, <3>2
    <3> QED
      BY <2>6, <3>2, <3>3 DEF PublishFailed, PublishEvent, GivingUpIsLast
  <2>7. ASSUME NEW w \in Workers, PublishSent(w) PROVE FALSE
    BY <2>7 DEF PublishSent, PublishEvent
  <2>8. ASSUME NEW w \in Workers, SendRefused(w) PROVE FALSE
    BY <2>8 DEF SendRefused
  <2>9. CASE UNCHANGED <<msg, dlq, events, refused>>
    BY <2>9
  <2> QED
    BY <2>1, <2>2, <2>3, <2>4, <2>5, <2>6, <2>7, <2>8, <2>9 DEF Next, Work, Validate,
       CheckStatus, Acquire, MarkSending, SendAccepted, SendTransient, RecordSent, RecordFailed,
       Bounce, vars
<1>3. CASE Given
  BY <1>1, <1>3 DEF GivenUpOnlyAtTheEnd
<1>4. ASSUME NEW w \in Workers, Giving(w) PROVE msg'[s].n >= MaxAttempts
  BY <1>1, <1>4 DEF AttemptIsCounted, TypeOK
<1> QED
  BY <1>2, <1>3, <1>4

\* A valid send is given up at the last delivery JetStream would make, and at no
\* earlier one, whatever deliveries of it overlap (handler.go:246-256).
THEOREM GivenUpAtTheEnd == Spec => []GivenUpOnlyAtTheEnd
<1>1. Init => TypeOK /\ LastInv
  BY TypeOKInit DEF Init, LastInv, AttemptIsCounted, GivingUpIsLast, GivenUpOnlyAtTheEnd, NewMsg
<1>2. (TypeOK /\ LastInv) /\ [Next]_vars => (TypeOK /\ LastInv)'
  BY TypeOKStep, AttemptCountedStep, GivingUpStep, GivenUpStep DEF LastInv
<1>3. LastInv => GivenUpOnlyAtTheEnd
  BY DEF LastInv
<1> QED
  BY <1>1, <1>2, <1>3, PTL DEF Spec
=============================================================================
