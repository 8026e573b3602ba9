----------------------- MODULE DomainVerificationProofs -----------------------
(***************************************************************************)
(* Proofs about DomainVerification, for any sets of poll messages, workers *)
(* and sweepers, any course of SES's answers and any faults.               *)
(***************************************************************************)
EXTENDS DomainVerification, TLAPS

-----------------------------------------------------------------------------
(***************************************************************************)
(* Messages of the stream                                                  *)
(***************************************************************************)
\* A delivery counts up and leaves the message waiting for its answer.
LEMMA DeliveredFacts ==
    ASSUME NEW m \in Msgs
    PROVE  /\ Delivered(m) \in Msgs
           /\ Delivered(m).st = "pending"
           /\ Delivered(m).n = m.n + 1
  BY DEF Delivered, Msgs, MsgStates

\* A message put back keeps its count, is settled only if it was, and becomes
\* 'queued' only from 'pending'.
LEMMA RequeuedFacts ==
    ASSUME NEW m \in Msgs, NEW maxDeliver
    PROVE  /\ Requeued(m, maxDeliver) \in Msgs
           /\ Requeued(m, maxDeliver).n = m.n
           /\ Requeued(m, maxDeliver).st = "acked" <=> m.st = "acked"
           /\ Requeued(m, maxDeliver).st = "termed" <=> m.st = "termed"
           /\ m.st # "pending" => Requeued(m, maxDeliver) = m
  BY DEF Requeued, Msgs, MsgStates

\* Settling a message keeps its count, and its state is either unchanged or
\* the new one.
LEMMA EndedFacts ==
    ASSUME NEW m \in Msgs, NEW st \in {"acked", "termed"}
    PROVE  /\ Ended(m, st) \in Msgs
           /\ Ended(m, st).n = m.n
           /\ Ended(m, st).st \in {m.st, st}
  BY DEF Ended, Msgs, MsgStates

\* An answer keeps the count; only an Ack makes a message 'acked', only a Term
\* 'termed', and only a Nak of a pending message 'queued'.
LEMMA AnsweredFacts ==
    ASSUME NEW m \in Msgs, NEW v \in Verdicts, NEW maxDeliver
    PROVE  /\ Answered(m, v, maxDeliver) \in Msgs
           /\ Answered(m, v, maxDeliver).n = m.n
           /\ Answered(m, v, maxDeliver).st = "acked" => m.st = "acked" \/ v = "ack"
           /\ Answered(m, v, maxDeliver).st = "termed" => m.st = "termed" \/ v = "term"
           /\ Answered(m, v, maxDeliver).st = "queued"
                => m.st = "queued" \/ (v = "nak" /\ m.st = "pending")
  <1>1. CASE v = "ack"
    BY <1>1, EndedFacts DEF Answered, Ended, Msgs, MsgStates
  <1>2. CASE v = "term"
    BY <1>2, EndedFacts DEF Answered, Ended, Msgs, MsgStates
  <1>3. CASE v = "nak"
    <2>1. Answered(m, v, maxDeliver) = Requeued(m, maxDeliver)
      BY <1>3 DEF Answered
    <2> QED
      BY <1>3, <2>1, RequeuedFacts DEF Msgs, MsgStates
  <1> QED
    BY <1>1, <1>2, <1>3 DEF Verdicts

-----------------------------------------------------------------------------
\* A busy worker holds a message, and no message counts beyond the cap.
Working == \A w \in Workers : pc[w] # "idle" => job[w] \in Jobs
Counted == \A j \in Jobs : msg[j].n <= CountedUpTo

\* SES has decided, or the domain is gone: what lets a poll end.
Settled == gone \/ said \cap ({"SUCCESS"} \cup Refusals) # {}

\* What a worker remembers of SES's answer, SES has said.
SeenIsSaid ==
    \A w \in Workers : /\ seen[w] = "Verified" => "SUCCESS" \in said
                       /\ seen[w] = "Failed"   => said \cap Refusals # {}

\* Ack and Term are only on their way for a message that may end.
VerdictJustified ==
    \A w \in Workers : verdict[w] # "nak" =>
        pc[w] # "idle" /\ (job[w] \in malformed \/ Settled)

GoneIsKnown == row \in Gone => gone

Typed == TypeOK /\ Working /\ Counted
Inv == Typed /\ SeenIsSaid /\ VerdictJustified /\ GoneIsKnown /\ VerifiedIsTrue /\ PollingGoesOn

-----------------------------------------------------------------------------
(***************************************************************************)
(* Operators                                                               *)
(***************************************************************************)
\* UPDATE leaves a deleted row where it is, and makes one 'verified' or 'failed'
\* only when told so (client.go:64-100).
LEMMA UpdatedFacts ==
    ASSUME NEW r \in RowStates, NEW a \in Answers
    PROVE  /\ Updated(r, NewStatus(a)) \in RowStates
           /\ r \in Gone <=> Updated(r, NewStatus(a)) \in Gone
           /\ Updated(r, NewStatus(a)) = "verified" => r = "verified" \/ a = "Verified"
           /\ Updated(r, NewStatus(a)) = "failed" => r = "failed" \/ a = "Failed"
  BY DEF Updated, NewStatus, RowStates, Gone, Undecided, Answers

\* The sweep's UPDATE touches only an undecided row (client.go:146-156).
LEMMA MarkedExpiredFacts ==
    ASSUME NEW r \in RowStates
    PROVE  /\ MarkedExpired(r) \in RowStates
           /\ r \in Gone <=> MarkedExpired(r) \in Gone
           /\ MarkedExpired(r) = "verified" <=> r = "verified"
  BY DEF MarkedExpired, RowStates, Gone, Undecided

\* SES's answer is read as one of three (ses/client.go: CheckDomainVerification).
LEMMA CheckedFacts ==
    ASSUME NEW d \in DkimStates
    PROVE  /\ Checked(d) \in Answers
           /\ Checked(d) = "Verified" => d = "SUCCESS"
           /\ Checked(d) = "Failed" => d \in Refusals
  BY DEF Checked, DkimStates, Refusals, Answers

\* A delivery leaves the message waiting and its count at the cap at most.
LEMMA RedeliveredFacts ==
    ASSUME NEW m \in Msgs, m.n <= CountedUpTo
    PROVE  /\ Redelivered(m) \in Msgs
           /\ Redelivered(m).st = "pending"
           /\ Redelivered(m).n \in 0 .. CountedUpTo
  <1>1. CASE m.n < CountedUpTo
    BY <1>1, DeliveredFacts, CountAssumption DEF Redelivered, Msgs
  <1>2. CASE ~(m.n < CountedUpTo)
    BY <1>2, CountAssumption DEF Redelivered, Msgs, MsgStates
  <1> QED
    BY <1>1, <1>2

\* A poll that is put back is never used up.
LEMMA NeverUsedUp ==
    ASSUME NEW m \in Msgs, m.n <= CountedUpTo
    PROVE  Requeued(m, Unlimited).st = "exhausted" <=> m.st = "exhausted"
  BY CountAssumption DEF Requeued, Unlimited, Msgs, MsgStates

\* An answer closes a message only when it is Ack or Term.
LEMMA ClosedByVerdict ==
    ASSUME NEW m \in Msgs, m.n <= CountedUpTo, NEW v \in Verdicts, Closed(Answered(m, v, Unlimited))
    PROVE  Closed(m) \/ v # "nak"
  BY NeverUsedUp, RequeuedFacts DEF Closed, Answered, Msgs, MsgStates

-----------------------------------------------------------------------------
(***************************************************************************)
(* Types                                                                   *)
(***************************************************************************)
\* The initial state is well-typed.
LEMMA TypedInit == Init => Typed
  <1> SUFFICES ASSUME Init PROVE Typed
    OBVIOUS
  <1>1. msg \in [Jobs -> Msgs] /\ Counted
    BY CountAssumption DEF Init, Counted, NoMsg, Msgs, MsgStates
  <1>2. malformed \subseteq Jobs /\ row \in RowStates /\ dkim \in DkimStates
    BY DEF Init, RowStates, Undecided
  <1>3. /\ stale \in BOOLEAN /\ calm \in BOOLEAN
        /\ gone \in BOOLEAN /\ expired \in BOOLEAN /\ falseAlarm \in BOOLEAN
    BY DEF Init
  <1>4. events = {} /\ said = {}
    BY DEF Init
  <1>5. /\ pc \in [Workers -> PCs] /\ job \in [Workers -> Jobs \cup {NoJob}] /\ Working
        /\ verdict \in [Workers -> Verdicts] /\ seen \in [Workers -> Answers]
        /\ sweep \in [Sweepers -> {"idle", "expire", "publish"}]
    BY DEF Init, Working, PCs, Verdicts, Answers
  <1>6. attempt \in [Workers -> 0 .. CountedUpTo]
    BY CountAssumption DEF Init
  <1> QED
    BY <1>1, <1>2, <1>3, <1>4, <1>5, <1>6 DEF Typed, TypeOK

\* Every step keeps the state well-typed, a busy worker a message, and the counts
\* within the cap.
LEMMA TypedStep == Typed /\ [Next]_vars => Typed'
  <1> SUFFICES ASSUME Typed, [Next]_vars PROVE Typed'
    OBVIOUS
  <1> USE DomainJobsAssumption, CountAssumption
  <1> USE DEF Typed, TypeOK, Working, Counted, external, history, PCs, Verdicts
  <1>1. ASSUME NEW w \in Workers, NEW j \in Jobs, Receive(w, j) PROVE Typed'
    BY <1>1, RedeliveredFacts DEF Receive
  <1>2. ASSUME NEW w \in Workers, Validate(w) PROVE Typed'
    BY <1>2 DEF Validate, Answer, Goto, GotoAnswering
  <1>3. ASSUME NEW w \in Workers, CheckStatus(w) PROVE Typed'
    BY <1>3 DEF CheckStatus, PollAgain, Answer, Goto, GotoAnswering
  <1>4. ASSUME NEW w \in Workers, AskSES(w) PROVE Typed'
    BY <1>4, CheckedFacts DEF AskSES, PollAgain, Answer, Goto, GotoAnswering
  <1>5. ASSUME NEW w \in Workers, Update(w) PROVE Typed'
    <2>1. row' \in RowStates
      BY <1>5, UpdatedFacts DEF Update
    <2>2. seen[w] \in {"Verified", "Failed", "Pending"}
      BY DEF Answers
    <2> QED
      BY <1>5, <2>1, <2>2 DEF Update, AfterUpdate, PollAgain, Answer, GotoAnswering
  <1>6. ASSUME NEW w \in Workers, PublishVerified(w) \/ PublishReminder(w) PROVE Typed'
    BY <1>6 DEF PublishVerified, PublishReminder, PublishEvent, Goto
  <1>7. ASSUME NEW w \in Workers, AnswerMessage(w) PROVE Typed'
    BY <1>7, AnsweredFacts DEF AnswerMessage, ToIdle, Answers
  <1>8. ASSUME NEW s \in Sweepers, FetchStale(s) \/ PublishExpired(s) \/ CrashSweeper(s) PROVE Typed'
    BY <1>8 DEF FetchStale, PublishExpired, CrashSweeper
  <1>9. ASSUME NEW s \in Sweepers, Expire(s) PROVE Typed'
    <2>1. row' \in RowStates
      <3>1. row' \in {row, MarkedExpired(row)}
        BY <1>9, Zenon DEF Expire
      <3> QED
        BY <3>1, MarkedExpiredFacts
    <2>2. expired' \in BOOLEAN
      BY <1>9 DEF Expire
    <2> QED
      BY <1>9, <2>1, <2>2 DEF Expire
  <1>10. ASSUME NEW j \in Jobs, Request(j) PROVE Typed'
    <2>1. stale' \in BOOLEAN /\ expired' \in BOOLEAN
      BY <1>10 DEF Request
    <2>2. row' \in RowStates
      BY <1>10 DEF Request, RowStates, Undecided
    <2>3. msg' \in [Jobs -> Msgs] /\ Counted'
      BY <1>10 DEF Request, NewMsg, Msgs, MsgStates
    <2> QED
      BY <1>10, <2>1, <2>2, <2>3 DEF Request
  <1>11. CASE Delete
    BY <1>11 DEF Delete, RowStates, Gone
  <1>12. CASE Age \/ CalmDown \/ \E d \in DkimStates : dkim' = d /\ ChangeDkim
    BY <1>12 DEF Age, CalmDown, ChangeDkim
  <1>13. ASSUME NEW w \in Workers, Crash(w) PROVE Typed'
    BY <1>13 DEF Crash, ToIdle, Answers
  <1>14. ASSUME NEW j \in Jobs, ExpireAckWait(j) PROVE Typed'
    BY <1>14, RequeuedFacts DEF ExpireAckWait
  <1>15. CASE UNCHANGED vars
    BY <1>15 DEF vars
  <1> QED
    BY <1>1, <1>2, <1>3, <1>4, <1>5, <1>6, <1>7, <1>8, <1>9, <1>10, <1>11, <1>12, <1>13,
       <1>14, <1>15 DEF Next, Work, Sweep

\* Every status, count, position and event stays what the model declares it to be.
THEOREM TypeCorrect == Spec => []TypeOK
  <1>1. Typed => TypeOK
    BY DEF Typed
  <1> QED
    BY <1>1, TypedInit, TypedStep, PTL DEF Spec

-----------------------------------------------------------------------------
(***************************************************************************)
(* What a decision rests on                                                *)
(***************************************************************************)
\* Nothing is decided or said at first.
LEMMA InvInit == Init => Inv
  <1> SUFFICES ASSUME Init PROVE Inv
    OBVIOUS
  <1>1. SeenIsSaid /\ VerdictJustified
    BY DEF Init, SeenIsSaid, VerdictJustified
  <1>2. GoneIsKnown /\ VerifiedIsTrue
    BY DEF Init, GoneIsKnown, VerifiedIsTrue, Undecided, Gone
  <1>3. PollingGoesOn
    BY DEF Init, PollingGoesOn, Closed, NoMsg
  <1> QED
    BY <1>1, <1>2, <1>3, TypedInit DEF Inv

\* What SES has said and that the domain is gone are never taken back, and
\* only Delete removes the row.
LEMMA HistoryGrows ==
    ASSUME Typed, [Next]_vars
    PROVE  /\ said \subseteq said'
           /\ gone => gone'
           /\ row' \in Gone => row \in Gone \/ gone'
           /\ row \in Gone => row' \in Gone
           /\ Settled => Settled'
  <1> USE DEF Typed, TypeOK, external, history
  <1>1. /\ said \subseteq said'
        /\ gone => gone'
        /\ row' \in Gone => row \in Gone \/ gone'
        /\ row \in Gone => row' \in Gone
    <2>1. ASSUME NEW w \in Workers, AskSES(w) PROVE <1>1!:
      BY <2>1 DEF AskSES
    <2>2. ASSUME NEW w \in Workers, Update(w) PROVE <1>1!:
      <3>1. row' \in {row, Updated(row, NewStatus(seen[w]))} /\ UNCHANGED <<said, gone>>
        BY <2>2, Zenon DEF Update
      <3>2. row' \in Gone <=> row \in Gone
        BY <3>1, UpdatedFacts
      <3> QED
        BY <3>1, <3>2
    <2>3. ASSUME NEW s \in Sweepers, Expire(s) PROVE <1>1!:
      <3>1. row' \in {row, MarkedExpired(row)} /\ UNCHANGED <<said, gone>>
        BY <2>3, Zenon DEF Expire
      <3>2. row' \in Gone <=> row \in Gone
        BY <3>1, MarkedExpiredFacts
      <3> QED
        BY <3>1, <3>2
    <2>4. ASSUME NEW j \in Jobs, Request(j) PROVE <1>1!:
      <3>1. row' \in {row, "pending"} /\ row \notin Gone /\ UNCHANGED <<said, gone>>
        BY <2>4, Zenon DEF Request
      <3> QED
        BY <3>1 DEF Gone
    <2>5. CASE Delete
      BY <2>5 DEF Delete, Gone
    <2>6. ASSUME \/ \E w \in Workers, j \in Jobs : Receive(w, j)
                 \/ \E w \in Workers : \/ Validate(w) \/ CheckStatus(w) \/ PublishVerified(w)
                                        \/ PublishReminder(w) \/ AnswerMessage(w) \/ Crash(w)
                 \/ \E s \in Sweepers : FetchStale(s) \/ PublishExpired(s) \/ CrashSweeper(s)
                 \/ \E j \in Jobs : ExpireAckWait(j)
                 \/ Age \/ CalmDown \/ \E d \in DkimStates : dkim' = d /\ ChangeDkim
                 \/ UNCHANGED vars
          PROVE  UNCHANGED <<said, gone, row>>
      BY <2>6 DEF Receive, Validate, CheckStatus, PublishVerified, PublishReminder, PublishEvent,
         AnswerMessage, Crash, FetchStale, PublishExpired, CrashSweeper, ExpireAckWait, Age,
         CalmDown, ChangeDkim, vars
    <2> QED
      BY <2>1, <2>2, <2>3, <2>4, <2>5, <2>6 DEF Next, Work, Sweep
  <1>2. Settled => Settled'
    BY <1>1 DEF Settled
  <1> QED
    BY <1>1, <1>2

\* A worker that moves on within a poll keeps its message; what it is about to
\* answer has to be justified.
LEMMA KeptJob ==
    ASSUME Inv, [Next]_vars, UNCHANGED <<malformed, job>>,
           \A w \in Workers : verdict'[w] # "nak" =>
              \/ verdict[w] # "nak" /\ pc'[w] # "idle"
              \/ pc'[w] # "idle" /\ (job[w] \in malformed \/ Settled')
    PROVE  VerdictJustified'
  BY HistoryGrows DEF Inv, VerdictJustified

\* Every step keeps the invariant: one part at a time, for the actions that can
\* disturb it.
LEMMA InvStep == Inv /\ [Next]_vars => Inv'
  <1> SUFFICES ASSUME Inv, [Next]_vars PROVE Inv'
    OBVIOUS
  <1> Typed /\ Typed'
    BY TypedStep DEF Inv
  <1> USE DEF external, history
  <1>1. GoneIsKnown'
    BY HistoryGrows DEF Inv, GoneIsKnown
  <1>2. SeenIsSaid'
    <2>1. ASSUME NEW w \in Workers, AskSES(w) PROVE SeenIsSaid'
      <3>1. CASE seen' = [seen EXCEPT ![w] = Checked(dkim)] /\ said' = said \cup {dkim}
        BY <3>1, CheckedFacts DEF Inv, Typed, TypeOK, SeenIsSaid
      <3>2. CASE UNCHANGED <<seen, said>>
        BY <3>2 DEF Inv, SeenIsSaid
      <3> QED
        BY <2>1, <3>1, <3>2, Zenon DEF AskSES
    <2>2. ASSUME NEW w \in Workers, ToIdle(w) PROVE SeenIsSaid'
      <3>1. seen' = [seen EXCEPT ![w] = "Pending"] /\ said \subseteq said'
        BY <2>2, HistoryGrows DEF ToIdle
      <3> QED
        BY <3>1 DEF Inv, Typed, TypeOK, SeenIsSaid
    <2>3. ASSUME UNCHANGED seen PROVE SeenIsSaid'
      BY <2>3, HistoryGrows DEF Inv, SeenIsSaid
    <2>4. \/ \E w \in Workers : AskSES(w) \/ ToIdle(w)
          \/ UNCHANGED seen
      BY DEF Next, Work, Sweep, Receive, Validate, CheckStatus, Update, PublishVerified,
         PublishReminder, PublishEvent, AnswerMessage, Crash, FetchStale, Expire, PublishExpired,
         CrashSweeper, Request, ExpireAckWait, Delete, Age, CalmDown, ChangeDkim, vars
    <2> QED
      BY <2>1, <2>2, <2>3, <2>4
  <1>3. VerifiedIsTrue'
    <2>1. ASSUME NEW w \in Workers, Update(w) PROVE VerifiedIsTrue'
      <3>1. row' \in {row, Updated(row, NewStatus(seen[w]))}
        BY <2>1, Zenon DEF Update
      <3> QED
        BY <3>1, UpdatedFacts, HistoryGrows DEF Inv, Typed, TypeOK, SeenIsSaid, VerifiedIsTrue
    <2>2. ASSUME NEW s \in Sweepers, Expire(s) PROVE VerifiedIsTrue'
      <3>1. row' \in {row, MarkedExpired(row)}
        BY <2>2, Zenon DEF Expire
      <3> QED
        BY <3>1, MarkedExpiredFacts, HistoryGrows DEF Inv, Typed, TypeOK, VerifiedIsTrue
    <2>3. ASSUME NEW j \in Jobs, Request(j) PROVE VerifiedIsTrue'
      <3>1. row' \in {row, "pending"}
        BY <2>3, Zenon DEF Request
      <3> QED
        BY <3>1, HistoryGrows DEF Inv, VerifiedIsTrue
    <2>4. CASE Delete
      BY <2>4 DEF Delete, VerifiedIsTrue, Typed, TypeOK, RowStates, Gone
    <2>5. ASSUME UNCHANGED row PROVE VerifiedIsTrue'
      BY <2>5, HistoryGrows DEF Inv, VerifiedIsTrue
    <2>6. \/ \E w \in Workers : Update(w)
          \/ \E s \in Sweepers : Expire(s)
          \/ \E j \in Jobs : Request(j)
          \/ Delete
          \/ UNCHANGED row
      BY DEF Next, Work, Sweep, Receive, Validate, CheckStatus, AskSES, PublishVerified,
         PublishReminder, PublishEvent, AnswerMessage, Crash, FetchStale, PublishExpired,
         CrashSweeper, ExpireAckWait, Age, CalmDown, ChangeDkim, vars
    <2> QED
      BY <2>1, <2>2, <2>3, <2>4, <2>5, <2>6
  <1>4. VerdictJustified'
    <2> USE DEF Inv, Typed, TypeOK, Working, VerdictJustified
    <2>1. ASSUME NEW w \in Workers, NEW j \in Jobs, Receive(w, j) PROVE VerdictJustified'
      BY <2>1, HistoryGrows DEF Receive
    <2>2. ASSUME NEW w \in Workers, Validate(w) PROVE VerdictJustified'
      BY <2>2, KeptJob DEF Validate, Answer, Goto, GotoAnswering
    <2>3. ASSUME NEW w \in Workers, CheckStatus(w) PROVE VerdictJustified'
      BY <2>3, KeptJob, HistoryGrows DEF CheckStatus, PollAgain, Answer, Goto, GotoAnswering, GoneIsKnown, Settled
    <2>4. ASSUME NEW w \in Workers, AskSES(w) PROVE VerdictJustified'
      BY <2>4, KeptJob DEF AskSES, PollAgain, Answer, Goto, GotoAnswering
    <2>5. ASSUME NEW w \in Workers, Update(w) PROVE VerdictJustified'
      <3>1. Settled \/ seen[w] = "Pending"
        BY DEF SeenIsSaid, Settled, Answers
      <3>2. UNCHANGED <<malformed, job>>
        BY <2>5 DEF Update, AfterUpdate, PollAgain, Answer, GotoAnswering, Answers
      <3>3. /\ \A v \in Workers \ {w} : verdict'[v] = verdict[v] /\ pc'[v] = pc[v]
            /\ pc'[w] # "idle"
            /\ verdict'[w] # "nak" => seen[w] # "Pending"
        <4>1. CASE PollAgain(w)
          BY <4>1 DEF PollAgain, Answer, GotoAnswering
        <4>2. CASE AfterUpdate(w)
          <5>1. seen[w] \in {"Verified", "Failed", "Pending"}
            BY DEF Answers
          <5>2. PICK next \in {"publishVerified", "publishReminder", "answer"}, v \in {"ack", "nak"} :
                   GotoAnswering(w, next, v) /\ (v = "ack" => seen[w] # "Pending")
            BY <4>2, <5>1, Zenon DEF AfterUpdate, Answer
          <5> QED
            BY <5>2 DEF GotoAnswering
        <4> QED
          BY <2>5, <4>1, <4>2 DEF Update
      <3> QED
        BY <3>1, <3>2, <3>3, KeptJob, HistoryGrows
    <2>6. ASSUME NEW w \in Workers, PublishVerified(w) \/ PublishReminder(w) PROVE VerdictJustified'
      BY <2>6, KeptJob DEF PublishVerified, PublishReminder, PublishEvent, Goto
    <2>7. ASSUME NEW w \in Workers, ToIdle(w), UNCHANGED malformed PROVE VerdictJustified'
      BY <2>7, HistoryGrows DEF ToIdle
    <2>8. ASSUME UNCHANGED <<malformed, pc, job, verdict>> PROVE VerdictJustified'
      BY <2>8, HistoryGrows
    <2>9. \/ \E w \in Workers, j \in Jobs : Receive(w, j)
          \/ \E w \in Workers : \/ Validate(w) \/ CheckStatus(w) \/ AskSES(w) \/ Update(w)
                                \/ PublishVerified(w) \/ PublishReminder(w)
                                \/ ToIdle(w) /\ UNCHANGED malformed
          \/ UNCHANGED <<malformed, pc, job, verdict>>
      BY DEF Next, Work, Sweep, AnswerMessage, Crash, FetchStale, Expire, PublishExpired,
         CrashSweeper, Request, ExpireAckWait, Delete, Age, CalmDown, ChangeDkim, vars
    <2> QED
      BY <2>1, <2>2, <2>3, <2>4, <2>5, <2>6, <2>7, <2>8, <2>9
  <1>5. PollingGoesOn'
    <2> USE DEF Inv, Typed, TypeOK, Counted, Working
    <2> DEFINE NoneCloses == malformed' = malformed /\ \A i \in Jobs : Closed(msg'[i]) => Closed(msg[i])
    <2>1. NoneCloses => PollingGoesOn'
      BY HistoryGrows DEF PollingGoesOn, Settled
    <2>2. ASSUME NEW w \in Workers, NEW j \in Jobs, Receive(w, j) PROVE NoneCloses
      BY <2>2, RedeliveredFacts DEF Receive, Closed
    <2>3. ASSUME NEW w \in Workers, AnswerMessage(w) PROVE PollingGoesOn'
      <3>1. pc[w] = "answer" /\ job[w] \in Jobs /\ malformed' = malformed
        BY <2>3 DEF AnswerMessage
      <3>2. msg' = [msg EXCEPT ![job[w]] = Answered(@, verdict[w], Unlimited)]
        BY <2>3 DEF AnswerMessage
      <3>3. ASSUME NEW i \in Jobs \ malformed, Closed(msg'[i]) PROVE Closed(msg[i]) \/ Settled
        <4>1. CASE i # job[w]
          BY <3>2, <3>3, <4>1
        <4>2. CASE i = job[w]
          <5>1. Closed(Answered(msg[i], verdict[w], Unlimited))
            BY <3>2, <3>3, <4>2
          <5>2. Closed(msg[i]) \/ verdict[w] # "nak"
            BY <5>1, ClosedByVerdict
          <5> QED
            BY <5>2, <4>2 DEF VerdictJustified
        <4> QED
          BY <4>1, <4>2
      <3> QED
        BY <3>1, <3>3, HistoryGrows DEF PollingGoesOn, Settled
    <2>4. ASSUME NEW j \in Jobs, Request(j) PROVE NoneCloses
      BY <2>4 DEF Request, NewMsg, Closed
    <2>5. ASSUME NEW j \in Jobs, ExpireAckWait(j) PROVE NoneCloses
      BY <2>5, NeverUsedUp, RequeuedFacts DEF ExpireAckWait, Closed
    <2>6. ASSUME UNCHANGED <<msg, malformed>> PROVE NoneCloses
      BY <2>6
    <2>7. \/ \E w \in Workers, j \in Jobs : Receive(w, j)
          \/ \E w \in Workers : AnswerMessage(w)
          \/ \E j \in Jobs : Request(j) \/ ExpireAckWait(j)
          \/ UNCHANGED <<msg, malformed>>
      BY DEF Next, Work, Sweep, Validate, CheckStatus, AskSES, Update, PublishVerified,
         PublishReminder, PublishEvent, Crash, FetchStale, Expire, PublishExpired,
         CrashSweeper, Delete, Age, CalmDown, ChangeDkim, vars
    <2> QED
      BY <2>1, <2>2, <2>3, <2>4, <2>5, <2>6, <2>7
  <1> QED
    BY <1>1, <1>2, <1>3, <1>4, <1>5 DEF Inv

-----------------------------------------------------------------------------
(***************************************************************************)
(* The theorems                                                            *)
(***************************************************************************)
\* The invariant holds in every reachable state.
LEMMA Invariance == Spec => []Inv
  BY InvInit, InvStep, PTL DEF Spec

\* A domain is 'verified' only after SES has said SUCCESS, whoever writes the
\* row in between (handler.go:144-168).
THEOREM VerifiedByItsDKIM == Spec => []VerifiedIsTrue
  <1>1. Inv => VerifiedIsTrue
    BY DEF Inv
  <1> QED
    BY <1>1, Invariance, PTL

\* The poll of a well-formed message ends only when SES has decided or the domain
\* is gone, after any number of deliveries, failed calls and crashes
\* (handler.go:131-199).
THEOREM PollingEndsDecided == Spec => []PollingGoesOn
  <1>1. Inv => PollingGoesOn
    BY DEF Inv
  <1> QED
    BY <1>1, Invariance, PTL

\* No statement brings a deleted domain back, and none but an update with SES's
\* refusal fails a verified one (client.go:64-100, 146-156).
LEMMA DecisionsStandStep ==
    ASSUME Inv, [Next]_vars
    PROVE  /\ row \in Gone => row' \in Gone
           /\ row = "verified" /\ row' = "failed" => said \cap Refusals # {}
  <1> USE DEF Inv, Typed, TypeOK
  <1>1. row \in Gone => row' \in Gone
    BY HistoryGrows
  <1>2. ASSUME row = "verified", row' = "failed" PROVE said \cap Refusals # {}
    <2>1. \/ \E w \in Workers : Update(w)
          \/ \E s \in Sweepers : Expire(s)
          \/ \E j \in Jobs : Request(j)
          \/ Delete
      BY <1>2 DEF Next, Work, Sweep, Receive, Validate, CheckStatus, AskSES, PublishVerified,
         PublishReminder, PublishEvent, AnswerMessage, Crash, FetchStale, PublishExpired,
         CrashSweeper, ExpireAckWait, Age, CalmDown, ChangeDkim, vars
    <2>2. ASSUME NEW w \in Workers, Update(w) PROVE said \cap Refusals # {}
      <3>1. row' \in {row, Updated(row, NewStatus(seen[w]))}
        BY <2>2, Zenon DEF Update
      <3> QED
        BY <1>2, <3>1, UpdatedFacts DEF SeenIsSaid
    <2>3. ASSUME NEW s \in Sweepers, Expire(s) PROVE FALSE
      <3>1. row' \in {row, MarkedExpired(row)}
        BY <2>3, Zenon DEF Expire
      <3> QED
        BY <1>2, <3>1, MarkedExpiredFacts
    <2>4. ASSUME NEW j \in Jobs, Request(j) PROVE FALSE
      <3>1. row' \in {row, "pending"}
        BY <2>4, Zenon DEF Request
      <3> QED
        BY <1>2, <3>1
    <2>5. ASSUME Delete PROVE FALSE
      BY <1>2, <2>5 DEF Delete, Gone
    <2> QED
      BY <2>1, <2>2, <2>3, <2>4, <2>5
  <1> QED
    BY <1>1, <1>2

\* Nobody acts on the row as he once read it, in any interleaving of workers,
\* sweepers and the API (client.go:64-100, 146-156).
THEOREM StatementsKeepDecisions == Spec => DecisionsStand
  <1>1. Inv /\ [Next]_vars =>
          [/\ row \in Gone => row' \in Gone
           /\ row = "verified" /\ row' = "failed" => said \cap Refusals # {}]_vars
    BY DecisionsStandStep
  <1> QED
    BY <1>1, Invariance, PTL DEF Spec, DecisionsStand

=============================================================================
