------------------------- MODULE SegmentRefreshProofs -------------------------
(***************************************************************************)
(* Proofs about SegmentRefresh, for any sets of requests, workers and      *)
(* contacts, any page size and number of attempts, while the lock outlives *)
(* its holder.                                                             *)
(***************************************************************************)
EXTENDS SegmentRefresh, FiniteSetTheorems, TLAPS

-----------------------------------------------------------------------------
(***************************************************************************)
(* Messages of the stream                                                  *)
(***************************************************************************)
\* A delivery counts up and leaves the message waiting for its answer.
LEMMA DeliveredFacts ==
    ASSUME NEW m \in Msgs
    PROVE  /\ Delivered(m) \in Msgs
           /\ Delivered(m).st = "pending"
           /\ Delivered(m).n = m.n + 1
  BY DEF Delivered, Msgs, MsgStates

\* A message put back keeps its count, is settled only if it was, and becomes
\* 'queued' only from 'pending'.
LEMMA RequeuedFacts ==
    ASSUME NEW m \in Msgs, NEW maxDeliver
    PROVE  /\ Requeued(m, maxDeliver) \in Msgs
           /\ Requeued(m, maxDeliver).n = m.n
           /\ Requeued(m, maxDeliver).st = "acked" <=> m.st = "acked"
           /\ Requeued(m, maxDeliver).st = "termed" <=> m.st = "termed"
           /\ m.st # "pending" => Requeued(m, maxDeliver) = m
  BY DEF Requeued, Msgs, MsgStates

\* Settling a message keeps its count, and its state is either unchanged or
\* the new one.
LEMMA EndedFacts ==
    ASSUME NEW m \in Msgs, NEW st \in {"acked", "termed"}
    PROVE  /\ Ended(m, st) \in Msgs
           /\ Ended(m, st).n = m.n
           /\ Ended(m, st).st \in {m.st, st}
  BY DEF Ended, Msgs, MsgStates

\* An answer keeps the count; only an Ack makes a message 'acked', only a Term
\* 'termed', and only a Nak of a pending message 'queued'.
LEMMA AnsweredFacts ==
    ASSUME NEW m \in Msgs, NEW v \in Verdicts, NEW maxDeliver
    PROVE  /\ Answered(m, v, maxDeliver) \in Msgs
           /\ Answered(m, v, maxDeliver).n = m.n
           /\ Answered(m, v, maxDeliver).st = "acked" => m.st = "acked" \/ v = "ack"
           /\ Answered(m, v, maxDeliver).st = "termed" => m.st = "termed" \/ v = "term"
           /\ Answered(m, v, maxDeliver).st = "queued"
                => m.st = "queued" \/ (v = "nak" /\ m.st = "pending")
  <1>1. CASE v = "ack"
    BY <1>1, EndedFacts DEF Answered, Ended, Msgs, MsgStates
  <1>2. CASE v = "term"
    BY <1>2, EndedFacts DEF Answered, Ended, Msgs, MsgStates
  <1>3. CASE v = "nak"
    <2>1. Answered(m, v, maxDeliver) = Requeued(m, maxDeliver)
      BY <1>3 DEF Answered
    <2> QED
      BY <1>3, <2>1, RequeuedFacts DEF Msgs, MsgStates
  <1> QED
    BY <1>1, <1>2, <1>3 DEF Verdicts

-----------------------------------------------------------------------------
\* A busy worker holds a message, and a message that may be delivered again has
\* not used up its deliveries.
Working == \A w \in Workers : pc[w] # "idle" => job[w] \in Jobs
Counted ==
    \A j \in Jobs : /\ msg[j].n <= MaxAttempts
                    /\ msg[j].st = "queued" => msg[j].n < MaxAttempts

Typed == TypeOK /\ Working /\ Counted

\* Only the holder of the lock computes.
OneHolder == \A w \in Workers : pc[w] \in Computing => lock = w

\* The message a worker holds was requested, and counts its delivery.
Claimed ==
    \A w \in Workers : pc[w] # "idle" =>
        msg[job[w]].st # "absent" /\ attempt[w] <= msg[job[w]].n

\* A recomputation shows as 'processing' from before its first page, and covers
\* the request it is made for.
Recomputing == {"evaluate", "current", "insert", "delete", "markReady"}
Covering ==
    \A w \in Workers : pc[w] \in Recomputing =>
        status = "processing" /\ job[w] \in covers[w]

\* How far the members have been brought to what matched.
MembersFollow ==
    \A w \in Workers : /\ pc[w] = "insert"    => members = current[w]
                       /\ pc[w] = "delete"    => members = current[w] \cup matched[w]
                       /\ pc[w] = "markReady" => members = matched[w]

\* Ack and Term are only on their way for a message that may end.
VerdictJustified ==
    \A w \in Workers :
        /\ verdict[w] # "nak" => pc[w] \in {"markFailed", "answer", "release"}
        /\ verdict[w] = "ack" => job[w] \in done \cup skipped
        /\ verdict[w] = "term" =>
              job[w] \in Malformed \/ attempt[w] >= MaxAttempts \/ filter # "valid"

Inv == /\ Typed /\ OneHolder /\ Claimed /\ Covering /\ MembersFollow /\ VerdictJustified
       /\ ReadyMeansCounted /\ SettledIsJustified

-----------------------------------------------------------------------------
(***************************************************************************)
(* Operators                                                               *)
(***************************************************************************)
\* Adding what is missing and removing what is too much counts the wanted set.
LEMMA DifferenceCounts ==
    ASSUME NEW S, NEW T, IsFiniteSet(S), IsFiniteSet(T)
    PROVE  Cardinality(S) + Cardinality(T \ S) - Cardinality(S \ T) = Cardinality(T)
  <1> DEFINE s == Cardinality(S)
             t == Cardinality(T)
             both == Cardinality(S \cap T)
             missing == Cardinality(T \ S)
             extra == Cardinality(S \ T)
  <1>1. s \in Nat /\ t \in Nat /\ both \in Nat
    BY FS_CardinalityType, FS_Intersection
  <1>2. extra = s - both
    BY FS_Difference
  <1>3. missing = t - both
    <2>1. T \cap S = S \cap T
      OBVIOUS
    <2>2. missing = t - Cardinality(T \cap S)
      BY FS_Difference
    <2> QED
      BY <2>1, <2>2
  <1>4. s + missing - extra = t
    <2> HIDE DEF s, t, both, missing, extra
    <2> QED
      BY <1>1, <1>2, <1>3
  <1> QED
    BY <1>4

\* The count the handler computes from the difference is that of the matching
\* contacts (handler.go:231-236).
LEMMA FinalCountIsMatched ==
    ASSUME TypeOK, NEW w \in Workers
    PROVE  /\ FinalCount(w) = Cardinality(matched[w])
           /\ FinalCount(w) \in 0 .. LastContact
  <1>1. IsFiniteSet(Contacts) /\ Cardinality(Contacts) = LastContact
    BY FS_Interval, PagingAssumption DEF Contacts
  <1>2. /\ IsFiniteSet(matched[w]) /\ IsFiniteSet(current[w])
        /\ Cardinality(matched[w]) \in Nat /\ Cardinality(matched[w]) <= LastContact
    BY <1>1, FS_Subset, FS_CardinalityType DEF TypeOK
  <1>3. FinalCount(w) = Cardinality(matched[w])
    BY <1>2, DifferenceCounts DEF FinalCount, ToAdd, ToRemove
  <1> QED
    BY <1>2, <1>3, PagingAssumption

\* The last id of a page is a contact (client.go: StreamContactsForEval).
LEMMA PageEnds ==
    ASSUME NEW n \in 0 .. LastContact, Page(n) # {}
    PROVE  Max(Page(n)) \in Contacts
  <1> DEFINE top == IF n + PageSize <= LastContact THEN n + PageSize ELSE LastContact
  <1>1. top \in Page(n) /\ \A c \in Page(n) : top >= c
    BY PagingAssumption DEF Page, Contacts
  <1>2. Max(Page(n)) \in Page(n)
    BY <1>1, Zenon DEF Max
  <1> QED
    BY <1>2 DEF Page

\* A message that is put back is one that may still be delivered.
LEMMA PutBackIsDeliverable ==
    ASSUME NEW m \in Msgs, m.n <= MaxAttempts, m.st = "queued" => m.n < MaxAttempts,
           NEW v \in Verdicts
    PROVE  /\ Requeued(m, MaxAttempts).st = "queued" => m.n < MaxAttempts
           /\ Answered(m, v, MaxAttempts).st = "queued" => m.n < MaxAttempts
  BY MaxAttemptsAssumption DEF Requeued, Answered, Ended, Msgs, MsgStates, Verdicts

\* No answer and no timer unpublishes a message.
LEMMA StaysPublished ==
    ASSUME NEW m \in Msgs, NEW v \in Verdicts, NEW maxDeliver
    PROVE  /\ Requeued(m, maxDeliver).st = "absent" => m.st = "absent"
           /\ Answered(m, v, maxDeliver).st = "absent" => m.st = "absent"
  <1>1. \A x : Requeued(m, x).st = "absent" => m.st = "absent"
    BY DEF Requeued, Msgs, MsgStates
  <1>2. \A st \in {"acked", "termed"} : Ended(m, st).st = "absent" => m.st = "absent"
    BY DEF Ended, Msgs, MsgStates
  <1> QED
    BY <1>1, <1>2 DEF Answered, Verdicts

-----------------------------------------------------------------------------
(***************************************************************************)
(* Types                                                                   *)
(***************************************************************************)
\* The initial state is well-typed.
LEMMA TypedInit == Init => Typed
  <1> SUFFICES ASSUME Init PROVE Typed
    OBVIOUS
  <1>1. msg \in [Jobs -> Msgs] /\ Counted
    BY MaxAttemptsAssumption DEF Init, Counted, NoMsg, Msgs, MsgStates
  <1>2. /\ matching \subseteq Contacts /\ filter \in FilterTrees /\ members \subseteq Contacts
        /\ lock \in Workers \cup {NoLock, Orphan} /\ status \in Statuses
        /\ done \subseteq Jobs /\ skipped \subseteq Jobs
    BY DEF Init, Statuses
  <1>3. count \in 0 .. LastContact /\ cursor \in [Workers -> 0 .. LastContact]
    BY PagingAssumption DEF Init
  <1>4. attempt \in [Workers -> 0 .. MaxAttempts]
    BY MaxAttemptsAssumption DEF Init
  <1>5. /\ pc \in [Workers -> PCs] /\ job \in [Workers -> Jobs \cup {NoJob}] /\ Working
        /\ verdict \in [Workers -> Verdicts]
        /\ matched \in [Workers -> SUBSET Contacts] /\ current \in [Workers -> SUBSET Contacts]
        /\ covers \in [Workers -> SUBSET Jobs]
    BY DEF Init, Working, PCs, Verdicts
  <1> QED
    BY <1>1, <1>2, <1>3, <1>4, <1>5 DEF Typed, TypeOK

\* Every step keeps the state well-typed, a busy worker a message, and the counts
\* within what is allowed.
LEMMA TypedStep == Typed /\ [Next]_vars => Typed'
  <1> SUFFICES ASSUME Typed, [Next]_vars PROVE Typed'
    OBVIOUS
  <1> USE JobsAssumption, MaxAttemptsAssumption, PagingAssumption
  <1> USE DEF Typed, TypeOK, Working, Counted, msgVars, rowVars, locals, history, external, PCs, Verdicts
  <1>1. ASSUME NEW w \in Workers, NEW j \in Jobs, Receive(w, j) PROVE Typed'
    <2>1. msg[j] \in Msgs /\ msg[j].n + 1 \in 0 .. MaxAttempts
      BY <1>1 DEF Receive, Deliverable, Msgs
    <2> QED
      BY <1>1, <2>1, DeliveredFacts DEF Receive
  <1>2. ASSUME NEW w \in Workers, Validate(w) PROVE Typed'
    BY <1>2 DEF Validate, Answer, Goto, GotoAnswering
  <1>3. ASSUME NEW w \in Workers, AcquireLock(w) PROVE Typed'
    <2>1. lock' \in Workers \cup {NoLock, Orphan} /\ skipped' \subseteq Jobs
      BY <1>3 DEF AcquireLock
    <2> QED
      BY <1>3, <2>1 DEF AcquireLock, Retry, RetryVerdict, Answer, Goto, GotoAnswering
  <1>4. ASSUME NEW w \in Workers, Load(w) PROVE Typed'
    BY <1>4 DEF Load, Retry, RetryVerdict, Answer, Goto, GotoAnswering
  <1>5. ASSUME NEW w \in Workers, MarkProcessing(w) PROVE Typed'
    <2>1. status' \in Statuses
      BY <1>5 DEF MarkProcessing, Statuses
    <2>2. covers' \in [Workers -> SUBSET Jobs]
      BY <1>5 DEF MarkProcessing, Requested
    <2> QED
      BY <1>5, <2>1, <2>2 DEF MarkProcessing, Retry, RetryVerdict, Answer, Goto, GotoAnswering
  <1>6. ASSUME NEW w \in Workers, EvaluatePage(w) PROVE Typed'
    <2>1. /\ matched' \in [Workers -> SUBSET Contacts]
          /\ cursor' \in [Workers -> 0 .. LastContact]
      <3>1. Page(cursor[w]) \cap matching \subseteq Contacts
        BY DEF Page
      <3>2. Page(cursor[w]) # {} => Max(Page(cursor[w])) \in 0 .. LastContact
        BY PageEnds DEF Contacts
      <3>3. \/ /\ matched' = [matched EXCEPT ![w] = @ \cup (Page(cursor[w]) \cap matching)]
               /\ cursor' = [cursor EXCEPT ![w] = IF Page(cursor[w]) = {} THEN @ ELSE Max(Page(cursor[w]))]
            \/ UNCHANGED <<matched, cursor>>
        BY <1>6, Zenon DEF EvaluatePage
      <3> QED
        BY <3>1, <3>2, <3>3
    <2>2. /\ pc' \in [Workers -> PCs] /\ verdict' \in [Workers -> Verdicts]
          /\ pc[w] # "idle" /\ \A v \in Workers \ {w} : pc'[v] = pc[v]
          /\ UNCHANGED <<msg, matching, filter, lock, status, count, members, job, attempt, current, covers, done, skipped>>
      BY <1>6 DEF EvaluatePage, RetryVerdict, Goto, GotoAnswering
    <2> QED
      BY <2>1, <2>2
  <1>7. ASSUME NEW w \in Workers, MarkFailed(w) PROVE Typed'
    BY <1>7 DEF MarkFailed, Goto, Statuses
  <1>8. ASSUME NEW w \in Workers, GetCurrent(w) PROVE Typed'
    BY <1>8 DEF GetCurrent, Retry, RetryVerdict, Answer, Goto, GotoAnswering
  <1>9. ASSUME NEW w \in Workers, Insert(w) \/ Delete(w) PROVE Typed'
    <2>1. members' \subseteq Contacts
      BY <1>9 DEF Insert, Delete, ToAdd, ToRemove
    <2> QED
      BY <1>9, <2>1 DEF Insert, Delete, Retry, RetryVerdict, Answer, Goto, GotoAnswering
  <1>10. ASSUME NEW w \in Workers, MarkReady(w) PROVE Typed'
    <2>1. status' \in Statuses /\ count' \in 0 .. LastContact /\ done' \subseteq Jobs
      BY <1>10, FinalCountIsMatched DEF MarkReady, Statuses
    <2> QED
      BY <1>10, <2>1 DEF MarkReady, Retry, RetryVerdict, Answer, GotoAnswering
  <1>11. ASSUME NEW w \in Workers, AnswerMessage(w) PROVE Typed'
    BY <1>11, AnsweredFacts, PutBackIsDeliverable DEF AnswerMessage, Goto
  <1>12. ASSUME NEW w \in Workers, Release(w) \/ Crash(w) PROVE Typed'
    BY <1>12 DEF Release, Crash, Released, Abandoned, ToIdle
  <1>13. ASSUME NEW w \in Workers, Panic(w) PROVE Typed'
    BY <1>13, RequeuedFacts, PutBackIsDeliverable DEF Panic, Released, ToIdle
  <1>14. ASSUME NEW j \in Jobs, Request(j) PROVE Typed'
    BY <1>14 DEF Request, NewMsg, Msgs, MsgStates
  <1>15. ASSUME NEW j \in Jobs, Expire(j) PROVE Typed'
    BY <1>15, RequeuedFacts, PutBackIsDeliverable DEF Expire
  <1>16. CASE ChangeContacts \/ ExpireLock
    BY <1>16 DEF ChangeContacts, ExpireLock
  <1>17. CASE UNCHANGED vars
    BY <1>17 DEF vars
  <1> QED
    BY <1>1, <1>2, <1>3, <1>4, <1>5, <1>6, <1>7, <1>8, <1>9, <1>10, <1>11, <1>12, <1>13,
       <1>14, <1>15, <1>16, <1>17 DEF Next, Work

\* Every status, count, cursor and snapshot stays what the model declares it to be;
\* above all the count the handler computes is one of contacts.
THEOREM TypeCorrect == Spec => []TypeOK
  <1>1. Typed => TypeOK
    BY DEF Typed
  <1> QED
    BY <1>1, TypedInit, TypedStep, PTL DEF Spec

-----------------------------------------------------------------------------
(***************************************************************************)
(* The invariant                                                           *)
(***************************************************************************)
\* A worker that is computing, and where it may go from there.
HandlerSteps(w) ==
    \/ Validate(w) \/ AcquireLock(w) \/ Load(w) \/ MarkProcessing(w) \/ EvaluatePage(w)
    \/ MarkFailed(w) \/ GetCurrent(w) \/ Insert(w) \/ Delete(w) \/ MarkReady(w) \/ AnswerMessage(w)

\* Nothing is under way at first.
LEMMA InvInit == Init => Inv
  <1> SUFFICES ASSUME Init PROVE Inv
    OBVIOUS
  <1>1. OneHolder /\ Claimed /\ Covering /\ MembersFollow /\ VerdictJustified
    BY DEF Init, OneHolder, Claimed, Covering, MembersFollow, VerdictJustified, Computing, Recomputing
  <1>2. ReadyMeansCounted /\ SettledIsJustified
    BY DEF Init, ReadyMeansCounted, SettledIsJustified, NoMsg
  <1> QED
    BY <1>1, <1>2, TypedInit DEF Inv

\* What is recorded of a request is never taken back, and the filter is one for
\* good.
LEMMA HistoryGrows ==
    ASSUME [Next]_vars
    PROVE  done \subseteq done' /\ skipped \subseteq skipped' /\ filter' = filter
  BY DEF Next, Work, Receive, Validate, AcquireLock, Load, MarkProcessing, EvaluatePage,
     MarkFailed, GetCurrent, Insert, Delete, MarkReady, AnswerMessage, Release, Crash, Panic,
     Request, Expire, ChangeContacts, ExpireLock, vars, history, external

\* A handler's step leaves the other workers alone, and keeps its own message.
LEMMA OthersStay ==
    ASSUME Typed, NEW w \in Workers, HandlerSteps(w)
    PROVE  /\ \A v \in Workers \ {w} :
                 /\ pc'[v] = pc[v] /\ verdict'[v] = verdict[v] /\ covers'[v] = covers[v]
                 /\ matched'[v] = matched[v] /\ current'[v] = current[v]
           /\ UNCHANGED <<job, attempt>>
           /\ pc[w] # "idle" /\ pc'[w] # "idle"
  BY DEF HandlerSteps, Typed, TypeOK, Validate, AcquireLock, Load, MarkProcessing, EvaluatePage,
     MarkFailed, GetCurrent, Insert, Delete, MarkReady, AnswerMessage, Retry, Answer, Goto,
     GotoAnswering, locals

\* A message that was published stays so, and its count never falls.
LEMMA MessagesGrow ==
    ASSUME Typed, [Next]_vars, NEW j \in Jobs
    PROVE  msg[j].st # "absent" => msg[j].n <= msg'[j].n /\ msg'[j].st # "absent"
  <1> USE DEF Typed, TypeOK, msgVars
  <1>1. ASSUME NEW w \in Workers, NEW i \in Jobs, Receive(w, i)
        PROVE  msg[j].st # "absent" => msg[j].n <= msg'[j].n /\ msg'[j].st # "absent"
    BY <1>1, DeliveredFacts DEF Receive, Msgs
  <1>2. ASSUME NEW w \in Workers, AnswerMessage(w)
        PROVE  msg[j].st # "absent" => msg[j].n <= msg'[j].n /\ msg'[j].st # "absent"
    BY <1>2, AnsweredFacts, StaysPublished DEF AnswerMessage, Msgs
  <1>3. ASSUME NEW w \in Workers, Panic(w)
        PROVE  msg[j].st # "absent" => msg[j].n <= msg'[j].n /\ msg'[j].st # "absent"
    <2>1. msg' = [msg EXCEPT ![job[w]] = Requeued(@, MaxAttempts)]
      BY <1>3 DEF Panic
    <2> QED
      BY <2>1, RequeuedFacts, StaysPublished DEF Msgs, Verdicts
  <1>4. ASSUME NEW i \in Jobs, Request(i) \/ Expire(i)
        PROVE  msg[j].st # "absent" => msg[j].n <= msg'[j].n /\ msg'[j].st # "absent"
    <2>1. CASE Request(i)
      BY <2>1 DEF Request, NewMsg, Msgs
    <2>2. CASE Expire(i)
      BY <2>2, RequeuedFacts, StaysPublished DEF Expire, Msgs, Verdicts
    <2> QED
      BY <1>4, <2>1, <2>2
  <1>5. ASSUME UNCHANGED msg
        PROVE  msg[j].st # "absent" => msg[j].n <= msg'[j].n /\ msg'[j].st # "absent"
    BY <1>5 DEF Msgs
  <1>6. \/ \E w \in Workers, i \in Jobs : Receive(w, i)
        \/ \E w \in Workers : AnswerMessage(w) \/ Panic(w)
        \/ \E i \in Jobs : Request(i) \/ Expire(i)
        \/ UNCHANGED msg
    BY DEF Next, Work, Validate, AcquireLock, Load, MarkProcessing, EvaluatePage, MarkFailed,
       GetCurrent, Insert, Delete, MarkReady, Release, Crash, ChangeContacts, ExpireLock, vars
  <1> QED
    BY <1>1, <1>2, <1>3, <1>4, <1>5, <1>6

\* Every step keeps the lock with the one that computes.
LEMMA OneHolderStep ==
    ASSUME Inv, [Next]_vars, "outliveLock" \notin Faults
    PROVE  OneHolder'
  <1> USE LockValuesAssumption DEF Inv, Typed, TypeOK, OneHolder, Computing
  <1>1. ASSUME NEW w \in Workers, NEW j \in Jobs, Receive(w, j) PROVE OneHolder'
    BY <1>1 DEF Receive
  <1>2. ASSUME NEW w \in Workers, AcquireLock(w) PROVE OneHolder'
    <2>1. CASE Free(lock)
      <3>1. \A v \in Workers : pc[v] \notin Computing
        BY <2>1 DEF Free, NoLock
      <3>2. \/ lock' = w
            \/ pc' = [pc EXCEPT ![w] = "answer"]
        BY <1>2, <2>1 DEF AcquireLock, Retry, Answer, GotoAnswering
      <3>3. \A v \in Workers \ {w} : pc'[v] = pc[v]
        BY <1>2, OthersStay DEF HandlerSteps
      <3> QED
        BY <3>1, <3>2, <3>3
    <2>2. CASE ~Free(lock)
      BY <1>2, <2>2 DEF AcquireLock, Retry, Answer, Goto, GotoAnswering
    <2> QED
      BY <2>1, <2>2
  <1>3. ASSUME NEW w \in Workers, HandlerSteps(w), ~AcquireLock(w) PROVE OneHolder'
    <2>1. lock' = lock /\ (pc'[w] \in Computing => pc[w] \in Computing)
      BY <1>3 DEF HandlerSteps, Validate, Load, MarkProcessing, EvaluatePage, MarkFailed, GetCurrent,
         Insert, Delete, MarkReady, AnswerMessage, Retry, Answer, Goto, GotoAnswering
    <2> QED
      BY <1>3, <2>1, OthersStay
  <1>4. ASSUME NEW w \in Workers, Release(w) \/ Crash(w) \/ Panic(w) PROVE OneHolder'
    <2>1. pc' = [pc EXCEPT ![w] = "idle"] /\ lock' \in {Released(lock, w), Abandoned(lock, w)}
      BY <1>4 DEF Release, Crash, Panic, ToIdle
    <2>2. \A v \in Workers \ {w} : lock = v => lock' = v
      BY <2>1 DEF Released, Abandoned
    <2> QED
      BY <2>1, <2>2
  <1>5. CASE ExpireLock
    BY <1>5 DEF ExpireLock, Orphan
  <1>6. ASSUME UNCHANGED <<pc, lock>> PROVE OneHolder'
    BY <1>6
  <1>7. \/ \E w \in Workers, j \in Jobs : Receive(w, j)
        \/ \E w \in Workers : HandlerSteps(w) \/ Release(w) \/ Crash(w) \/ Panic(w)
        \/ ExpireLock
        \/ UNCHANGED <<pc, lock>>
    BY DEF Next, Work, HandlerSteps, Request, Expire, ChangeContacts, vars
  <1> QED
    BY <1>1, <1>2, <1>3, <1>4, <1>5, <1>6, <1>7

\* Every step keeps the messages held the requested ones, with their counts.
LEMMA ClaimedStep ==
    ASSUME Inv, [Next]_vars
    PROVE  Claimed'
  <1> USE DEF Inv, Typed, TypeOK, Working, Claimed
  <1>1. ASSUME NEW w \in Workers, NEW j \in Jobs, Receive(w, j) PROVE Claimed'
    <2>1. msg' = [msg EXCEPT ![j] = Delivered(@)]
          /\ job' = [job EXCEPT ![w] = j] /\ attempt' = [attempt EXCEPT ![w] = msg[j].n + 1]
          /\ pc' = [pc EXCEPT ![w] = "validate"]
      BY <1>1 DEF Receive
    <2>2. ASSUME NEW v \in Workers \ {w}, pc[v] # "idle"
          PROVE  msg'[job[v]].st # "absent" /\ attempt[v] <= msg'[job[v]].n
      <3>1. msg[job[v]].n <= msg'[job[v]].n /\ msg'[job[v]].st # "absent"
        BY <2>2, MessagesGrow
      <3>2. msg[job[v]].n \in Nat /\ msg'[job[v]].n \in Nat /\ attempt[v] \in Nat
        BY <2>1, <2>2, DeliveredFacts, MaxAttemptsAssumption DEF Msgs
      <3> QED
        BY <2>2, <3>1, <3>2
    <2>3. msg'[j].st # "absent" /\ msg[j].n + 1 <= msg'[j].n
      BY <2>1, DeliveredFacts DEF Msgs
    <2> QED
      BY <2>1, <2>2, <2>3
  <1>2. ASSUME \A v \in Workers : pc'[v] # "idle" => /\ pc[v] # "idle"
                                                     /\ job'[v] = job[v] /\ attempt'[v] = attempt[v]
        PROVE  Claimed'
    <2>1. ASSUME NEW v \in Workers, pc'[v] # "idle"
          PROVE  msg'[job[v]].st # "absent" /\ attempt[v] <= msg'[job[v]].n
      <3>1. job[v] \in Jobs /\ msg[job[v]].st # "absent" /\ attempt[v] <= msg[job[v]].n
        BY <1>2, <2>1
      <3>2. msg[job[v]].n <= msg'[job[v]].n /\ msg'[job[v]].st # "absent"
        BY <3>1, MessagesGrow
      <3>3. msg[job[v]].n \in Nat /\ msg'[job[v]].n \in Nat /\ attempt[v] \in Nat
        BY <3>1, TypedStep, MaxAttemptsAssumption DEF Msgs
      <3> QED
        BY <3>1, <3>2, <3>3
    <2> QED
      BY <1>2, <2>1
  <1>3. ASSUME NEW w \in Workers, HandlerSteps(w) PROVE Claimed'
    BY <1>2, <1>3, OthersStay
  <1>4. ASSUME NEW w \in Workers, Release(w) \/ Crash(w) \/ Panic(w) PROVE Claimed'
    BY <1>2, <1>4 DEF Release, Crash, Panic, ToIdle
  <1>5. ASSUME UNCHANGED <<pc, job, attempt>> PROVE Claimed'
    BY <1>2, <1>5
  <1>6. \/ \E w \in Workers, j \in Jobs : Receive(w, j)
        \/ \E w \in Workers : HandlerSteps(w) \/ Release(w) \/ Crash(w) \/ Panic(w)
        \/ UNCHANGED <<pc, job, attempt>>
    BY DEF Next, Work, HandlerSteps, Request, Expire, ChangeContacts, ExpireLock, vars
  <1> QED
    BY <1>1, <1>3, <1>4, <1>5, <1>6

\* While one worker computes, no other does.
LEMMA Alone ==
    ASSUME OneHolder, NEW w \in Workers, pc[w] \in Computing, NEW v \in Workers \ {w}
    PROVE  pc[v] \notin Computing /\ pc[v] \notin Recomputing
  BY DEF OneHolder, Computing, Recomputing

\* Every step keeps a recomputation 'processing' and covering its request.
LEMMA CoveringStep ==
    ASSUME Inv, [Next]_vars
    PROVE  Covering'
  <1> USE DEF Inv, Typed, TypeOK, Covering, Recomputing
  <1>1. ASSUME NEW w \in Workers, NEW j \in Jobs, Receive(w, j) PROVE Covering'
    BY <1>1 DEF Receive, rowVars, locals
  <1>2. ASSUME NEW w \in Workers, MarkProcessing(w) PROVE Covering'
    <2>1. pc[w] \in Computing /\ job[w] \in Requested
      BY <1>2 DEF MarkProcessing, Computing, Claimed, Working, Requested
    <2>2. pc'[w] \in Recomputing => status' = "processing"
      BY <1>2 DEF MarkProcessing, Retry, Answer, GotoAnswering
    <2>3. covers'[w] = Requested /\ job' = job
      BY <1>2 DEF MarkProcessing, Retry, Answer, Goto, GotoAnswering
    <2>4. \A v \in Workers \ {w} : pc'[v] \notin Recomputing
      BY <1>2, <2>1, Alone, OthersStay DEF HandlerSteps
    <2> QED
      BY <2>1, <2>2, <2>3, <2>4
  <1>3. ASSUME NEW w \in Workers, MarkFailed(w) \/ MarkReady(w) PROVE Covering'
    <2>1. pc[w] \in Computing
      BY <1>3 DEF MarkFailed, MarkReady, Computing
    <2>2. pc'[w] = "answer"
      BY <1>3 DEF MarkFailed, MarkReady, Retry, Answer, Goto, GotoAnswering
    <2>3. \A v \in Workers \ {w} : pc'[v] \notin Recomputing
      BY <1>3, <2>1, Alone, OthersStay DEF HandlerSteps
    <2> QED
      BY <2>2, <2>3
  <1>4. ASSUME NEW w \in Workers, HandlerSteps(w), ~MarkProcessing(w), ~MarkFailed(w), ~MarkReady(w)
        PROVE  Covering'
    <2>1. /\ status' = status /\ covers'[w] = covers[w]
          /\ pc'[w] \in Recomputing => pc[w] \in Recomputing
      BY <1>4 DEF HandlerSteps, Validate, AcquireLock, Load, EvaluatePage, GetCurrent, Insert, Delete,
         AnswerMessage, Retry, Answer, Goto, GotoAnswering, rowVars, locals
    <2> QED
      BY <1>4, <2>1, OthersStay
  <1>5. ASSUME NEW w \in Workers, Release(w) \/ Crash(w) \/ Panic(w) PROVE Covering'
    BY <1>5 DEF Release, Crash, Panic, ToIdle, rowVars
  <1>6. ASSUME UNCHANGED <<pc, job, covers, status>> PROVE Covering'
    BY <1>6
  <1>7. \/ \E w \in Workers, j \in Jobs : Receive(w, j)
        \/ \E w \in Workers : HandlerSteps(w) \/ Release(w) \/ Crash(w) \/ Panic(w)
        \/ UNCHANGED <<pc, job, covers, status>>
    BY DEF Next, Work, HandlerSteps, Request, Expire, ChangeContacts, ExpireLock, vars, rowVars, locals
  <1> QED
    BY <1>1, <1>2, <1>3, <1>4, <1>5, <1>6, <1>7

\* Every step keeps the members as far as the recomputation has brought them.
LEMMA MembersFollowStep ==
    ASSUME Inv, [Next]_vars
    PROVE  MembersFollow'
  <1> USE DEF Inv, Typed, TypeOK, MembersFollow
  <1>1. ASSUME NEW w \in Workers, NEW j \in Jobs, Receive(w, j) PROVE MembersFollow'
    BY <1>1 DEF Receive, rowVars, locals
  <1>2. ASSUME NEW w \in Workers, Insert(w) \/ Delete(w) PROVE MembersFollow'
    <2>1. pc[w] \in Computing
      BY <1>2 DEF Insert, Delete, Computing
    <2>2. \A v \in Workers \ {w} : pc'[v] \notin {"insert", "delete", "markReady"}
      BY <1>2, <2>1, Alone, OthersStay DEF HandlerSteps, Recomputing
    <2>3. /\ pc'[w] # "insert"
          /\ pc'[w] = "delete" => members' = current'[w] \cup matched'[w]
          /\ pc'[w] = "markReady" => members' = matched'[w]
      BY <1>2 DEF Insert, Delete, ToAdd, ToRemove, Retry, Answer, Goto, GotoAnswering, locals
    <2> QED
      BY <2>2, <2>3
  <1>3. ASSUME NEW w \in Workers, GetCurrent(w) PROVE MembersFollow'
    BY <1>3 DEF GetCurrent, Retry, Answer, Goto, GotoAnswering, rowVars
  <1>4. ASSUME NEW w \in Workers, HandlerSteps(w), ~Insert(w), ~Delete(w), ~GetCurrent(w)
        PROVE  MembersFollow'
    <2>1. members' = members /\ pc'[w] \notin {"insert", "delete", "markReady"}
      BY <1>4 DEF HandlerSteps, Validate, AcquireLock, Load, MarkProcessing, EvaluatePage, MarkFailed,
         MarkReady, AnswerMessage, Retry, Answer, Goto, GotoAnswering, rowVars
    <2> QED
      BY <1>4, <2>1, OthersStay
  <1>5. ASSUME NEW w \in Workers, Release(w) \/ Crash(w) \/ Panic(w) PROVE MembersFollow'
    BY <1>5 DEF Release, Crash, Panic, ToIdle, rowVars
  <1>6. ASSUME UNCHANGED <<pc, members, matched, current>> PROVE MembersFollow'
    BY <1>6
  <1>7. \/ \E w \in Workers, j \in Jobs : Receive(w, j)
        \/ \E w \in Workers : HandlerSteps(w) \/ Release(w) \/ Crash(w) \/ Panic(w)
        \/ UNCHANGED <<pc, members, matched, current>>
    BY DEF Next, Work, HandlerSteps, Request, Expire, ChangeContacts, ExpireLock, vars, rowVars, locals
  <1> QED
    BY <1>1, <1>2, <1>3, <1>4, <1>5, <1>6, <1>7

\* Every step keeps the count of a segment that is ready.
LEMMA ReadyStep ==
    ASSUME Inv, [Next]_vars
    PROVE  ReadyMeansCounted'
  <1> USE DEF Inv, ReadyMeansCounted
  <1>1. ASSUME NEW w \in Workers, MarkReady(w) PROVE ReadyMeansCounted'
    <2>1. \/ UNCHANGED rowVars
          \/ count' = FinalCount(w) /\ members' = members
      BY <1>1 DEF MarkReady, rowVars
    <2>2. FinalCount(w) = Cardinality(members)
      BY <1>1, FinalCountIsMatched DEF MarkReady, MembersFollow, Typed
    <2> QED
      BY <2>1, <2>2 DEF rowVars
  <1>2. ASSUME NEW w \in Workers, Insert(w) \/ Delete(w) PROVE ReadyMeansCounted'
    <2>1. status' = status /\ status = "processing"
      BY <1>2 DEF Insert, Delete, Covering, Recomputing
    <2> QED
      BY <2>1
  <1>3. ASSUME NEW w \in Workers, MarkProcessing(w) \/ MarkFailed(w) PROVE ReadyMeansCounted'
    BY <1>3 DEF MarkProcessing, MarkFailed
  <1>4. ASSUME UNCHANGED rowVars PROVE ReadyMeansCounted'
    BY <1>4 DEF rowVars
  <1>5. \/ \E w \in Workers : \/ MarkReady(w) \/ Insert(w) \/ Delete(w)
                              \/ MarkProcessing(w) \/ MarkFailed(w)
        \/ UNCHANGED rowVars
    BY DEF Next, Work, Receive, Validate, AcquireLock, Load, EvaluatePage, GetCurrent, AnswerMessage,
       Release, Crash, Panic, Request, Expire, ChangeContacts, ExpireLock, vars, rowVars
  <1> QED
    BY <1>1, <1>2, <1>3, <1>4, <1>5

\* Every step keeps the answers on their way justified.
LEMMA VerdictStep ==
    ASSUME Inv, [Next]_vars
    PROVE  VerdictJustified'
  <1> USE DEF Inv, Typed, TypeOK, VerdictJustified
  <1>1. ASSUME NEW w \in Workers, NEW j \in Jobs, Receive(w, j) PROVE VerdictJustified'
    BY <1>1 DEF Receive, history, external
  <1>2. ASSUME NEW w \in Workers, HandlerSteps(w),
               /\ verdict'[w] # "nak" => pc'[w] \in {"markFailed", "answer", "release"}
               /\ verdict'[w] = "ack" => job[w] \in done' \cup skipped'
               /\ verdict'[w] = "term" =>
                     job[w] \in Malformed \/ attempt[w] >= MaxAttempts \/ filter # "valid"
        PROVE  VerdictJustified'
    BY <1>2, OthersStay, HistoryGrows
  <1>3. ASSUME NEW w \in Workers, Validate(w) PROVE VerdictJustified'
    BY <1>2, <1>3 DEF HandlerSteps, Validate, Answer, Goto, GotoAnswering
  <1>4. ASSUME NEW w \in Workers, AcquireLock(w) PROVE VerdictJustified'
    <2>1. \/ verdict'[w] = "nak"
          \/ verdict'[w] = "ack" /\ job[w] \in skipped' /\ pc'[w] = "answer"
          \/ verdict'[w] = RetryVerdict(w) /\ pc'[w] = "answer"
      BY <1>4 DEF AcquireLock, Retry, Answer, Goto, GotoAnswering
    <2> QED
      BY <1>2, <1>4, <2>1 DEF HandlerSteps, RetryVerdict
  <1>5. ASSUME NEW w \in Workers, Load(w) PROVE VerdictJustified'
    BY <1>2, <1>5 DEF HandlerSteps, Load, Retry, RetryVerdict, Answer, Goto, GotoAnswering
  <1>6. ASSUME NEW w \in Workers, MarkProcessing(w) \/ GetCurrent(w) \/ Insert(w) \/ Delete(w)
        PROVE  VerdictJustified'
    <2>1. \/ verdict'[w] = "nak"
          \/ verdict'[w] = RetryVerdict(w) /\ pc'[w] = "answer"
      BY <1>6 DEF MarkProcessing, GetCurrent, Insert, Delete, Retry, Answer, Goto, GotoAnswering
    <2> QED
      BY <1>2, <1>6, <2>1 DEF HandlerSteps, RetryVerdict
  <1>7. ASSUME NEW w \in Workers, EvaluatePage(w) PROVE VerdictJustified'
    <2>1. \/ verdict'[w] = "nak"
          \/ verdict'[w] = RetryVerdict(w) /\ pc'[w] = "markFailed"
      BY <1>7 DEF EvaluatePage, Goto, GotoAnswering
    <2> QED
      BY <1>2, <1>7, <2>1 DEF HandlerSteps, RetryVerdict
  <1>8. ASSUME NEW w \in Workers, MarkFailed(w) \/ AnswerMessage(w) PROVE VerdictJustified'
    <2>1. verdict'[w] = verdict[w] /\ pc'[w] \in {"answer", "release"}
      BY <1>8 DEF MarkFailed, AnswerMessage, Goto
    <2> QED
      BY <1>2, <1>8, <2>1, HistoryGrows DEF HandlerSteps
  <1>9. ASSUME NEW w \in Workers, MarkReady(w) PROVE VerdictJustified'
    <2>1. job[w] \in covers[w]
      BY <1>9 DEF MarkReady, Covering, Recomputing
    <2>2. \/ verdict'[w] = "ack" /\ done' = done \cup covers[w] /\ pc'[w] = "answer"
          \/ verdict'[w] = RetryVerdict(w) /\ pc'[w] = "answer"
      BY <1>9 DEF MarkReady, Retry, Answer, GotoAnswering
    <2> QED
      BY <1>2, <1>9, <2>1, <2>2 DEF HandlerSteps, RetryVerdict
  <1>10. ASSUME NEW w \in Workers, Release(w) \/ Crash(w) \/ Panic(w) PROVE VerdictJustified'
    <2>1. ToIdle(w)
      BY <1>10 DEF Release, Crash, Panic
    <2> QED
      BY <2>1, HistoryGrows DEF ToIdle
  <1>11. ASSUME UNCHANGED <<pc, job, attempt, verdict>> PROVE VerdictJustified'
    BY <1>11, HistoryGrows
  <1>12. \/ \E w \in Workers, j \in Jobs : Receive(w, j)
         \/ \E w \in Workers : HandlerSteps(w) \/ Release(w) \/ Crash(w) \/ Panic(w)
         \/ UNCHANGED <<pc, job, attempt, verdict>>
    BY DEF Next, Work, HandlerSteps, Request, Expire, ChangeContacts, ExpireLock, vars
  <1> QED
    BY <1>1, <1>3, <1>4, <1>5, <1>6, <1>7, <1>8, <1>9, <1>10, <1>11, <1>12 DEF HandlerSteps

\* Every step keeps what became of the settled requests.
LEMMA SettledStep ==
    ASSUME Inv, [Next]_vars
    PROVE  SettledIsJustified'
  <1> USE DEF Inv, Typed, TypeOK, Working, SettledIsJustified
  <1>1. ASSUME \A j \in Jobs : /\ msg'[j].st = "acked" => msg[j].st = "acked"
                               /\ msg'[j].st = "termed" => msg[j].st = "termed" /\ msg'[j].n = msg[j].n
        PROVE  SettledIsJustified'
    BY <1>1, HistoryGrows
  <1>2. ASSUME NEW w \in Workers, NEW j \in Jobs, Receive(w, j) PROVE SettledIsJustified'
    BY <1>1, <1>2, DeliveredFacts DEF Receive
  <1>3. ASSUME NEW w \in Workers, AnswerMessage(w) PROVE SettledIsJustified'
    <2>1. CASE msg' = [msg EXCEPT ![job[w]] = Answered(@, verdict[w], MaxAttempts)]
      <3>1. pc[w] = "answer" /\ job[w] \in Jobs
        BY <1>3 DEF AnswerMessage
      <3> DEFINE m == msg[job[w]]
                 a == Answered(m, verdict[w], MaxAttempts)
      <3>2. /\ a.n = m.n
            /\ a.st = "acked" => m.st = "acked" \/ verdict[w] = "ack"
            /\ a.st = "termed" => m.st = "termed" \/ verdict[w] = "term"
        BY <3>1, AnsweredFacts
      <3>3. \A i \in Jobs : msg'[i] = IF i = job[w] THEN a ELSE msg[i]
        BY <2>1
      <3>4. verdict[w] = "ack" => job[w] \in done \cup skipped
        BY DEF VerdictJustified
      <3>5. verdict[w] = "term" => job[w] \in Malformed \/ m.n >= MaxAttempts \/ filter # "valid"
        <4>1. attempt[w] <= m.n /\ m.n \in Nat /\ attempt[w] \in Nat
          BY <3>1, MaxAttemptsAssumption DEF Claimed, Msgs
        <4> QED
          BY <4>1, MaxAttemptsAssumption DEF VerdictJustified
      <3> HIDE DEF m, a
      <3>6. m = msg[job[w]]
        BY DEF m
      <3> QED
        BY <3>1, <3>2, <3>3, <3>4, <3>5, <3>6, HistoryGrows
    <2>2. CASE UNCHANGED msg
      BY <1>1, <2>2
    <2> QED
      BY <1>3, <2>1, <2>2 DEF AnswerMessage
  <1>4. ASSUME NEW w \in Workers, Panic(w) PROVE SettledIsJustified'
    <2>1. msg' = [msg EXCEPT ![job[w]] = Requeued(@, MaxAttempts)]
      BY <1>4 DEF Panic
    <2> QED
      BY <1>1, <2>1, RequeuedFacts
  <1>5. ASSUME NEW j \in Jobs, Request(j) PROVE SettledIsJustified'
    BY <1>1, <1>5 DEF Request, NewMsg
  <1>6. ASSUME NEW j \in Jobs, Expire(j) PROVE SettledIsJustified'
    BY <1>1, <1>6, RequeuedFacts DEF Expire
  <1>7. ASSUME UNCHANGED msg PROVE SettledIsJustified'
    BY <1>1, <1>7
  <1>8. \/ \E w \in Workers, j \in Jobs : Receive(w, j)
        \/ \E w \in Workers : AnswerMessage(w) \/ Panic(w)
        \/ \E j \in Jobs : Request(j) \/ Expire(j)
        \/ UNCHANGED msg
    BY DEF Next, Work, Validate, AcquireLock, Load, MarkProcessing, EvaluatePage, MarkFailed,
       GetCurrent, Insert, Delete, MarkReady, Release, Crash, ChangeContacts, ExpireLock, vars, msgVars
  <1> QED
    BY <1>2, <1>3, <1>4, <1>5, <1>6, <1>7, <1>8

-----------------------------------------------------------------------------
(***************************************************************************)
(* The theorems                                                            *)
(***************************************************************************)
\* The invariant holds in every reachable state.
LEMMA Invariance ==
    ASSUME "outliveLock" \notin Faults
    PROVE  Spec => []Inv
  <1>1. Inv /\ [Next]_vars => Inv'
    BY TypedStep, OneHolderStep, ClaimedStep, CoveringStep, MembersFollowStep, VerdictStep, ReadyStep,
       SettledStep DEF Inv
  <1> QED
    BY <1>1, InvInit, PTL DEF Spec

\* While the lock outlives its holder, a segment that says 'ready' has the count
\* of its members, with any number of workers, contacts and pages, whatever
\* statement fails or commits unseen (handler.go:182-242).
THEOREM CountIsTrue ==
    ASSUME "outliveLock" \notin Faults
    PROVE  Spec => []ReadyMeansCounted
  <1>1. Inv => ReadyMeansCounted
    BY DEF Inv
  <1> QED
    BY <1>1, Invariance, PTL

\* Under the same assumption an acked request was covered by a recomputation or
\* found the lock held, and one that was given up had its deliveries or could not
\* succeed (handler.go:136-145, 241-256).
THEOREM AnswersAreJustified ==
    ASSUME "outliveLock" \notin Faults
    PROVE  Spec => []SettledIsJustified
  <1>1. Inv => SettledIsJustified
    BY DEF Inv
  <1> QED
    BY <1>1, Invariance, PTL

\* A segment becomes ready only by a worker that holds the lock and has brought
\* the members to what it found to match.
LEMMA ReadyByHolder ==
    ASSUME Inv, [Next]_vars, status # "ready", status' = "ready"
    PROVE  \E w \in Workers : lock = w /\ members = matched[w]
  <1>1. PICK w \in Workers : MarkReady(w)
    <2>1. ASSUME NEW w \in Workers, MarkProcessing(w) \/ MarkFailed(w) PROVE FALSE
      BY <2>1 DEF MarkProcessing, MarkFailed
    <2> QED
      BY <2>1 DEF Next, Work, Receive, Validate, AcquireLock, Load, EvaluatePage, GetCurrent, Insert,
         Delete, AnswerMessage, Release, Crash, Panic, Request, Expire, ChangeContacts, ExpireLock,
         vars, rowVars
  <1>2. lock = w /\ members = matched[w]
    BY <1>1 DEF MarkReady, Inv, OneHolder, MembersFollow, Computing
  <1> QED
    BY <1>2

\* Under the same assumption a recomputation is recorded only with the members
\* its evaluation found (handler.go:206-242).
THEOREM ReadyIsEarned ==
    ASSUME "outliveLock" \notin Faults
    PROVE  Spec => ReadyMembersAreMatched
  <1>1. Inv /\ [Next]_vars =>
          [status # "ready" /\ status' = "ready" =>
             \E w \in Workers : lock = w /\ members = matched[w]]_vars
    BY ReadyByHolder
  <1> QED
    BY <1>1, Invariance, PTL DEF Spec, ReadyMembersAreMatched

=============================================================================
