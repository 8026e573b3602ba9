---------------------------- MODULE SegmentRefresh ----------------------------
(***************************************************************************)
(* The segment.refresh consumer (internal/worker/segments/handler.go) for  *)
(* one segment: several refresh messages, the Redis lock that should keep  *)
(* recomputations apart, the paged evaluation of the contacts while they   *)
(* change, and the membership rows with their count.                       *)
(***************************************************************************)
EXTENDS JetStream, RedisLock, FiniteSetsExt

CONSTANTS
    Jobs,          \* refresh messages of the segment
    Malformed,     \* those that cannot be parsed or lack an id
    Workers,       \* consumer callbacks
    MaxAttempts,   \* SegmentMaxRetries + 1, which is also MaxDeliver
    LastContact,   \* contacts of the workspace are 1 .. LastContact, in id order
    PageSize,      \* evalPageSize
    FilterTrees,   \* what the segment's filter may be: "valid", "invalid", "missing" row
    Faults,        \* what may go wrong: "call", "crash", "outliveLock"
    NoJob

ASSUME JobsAssumption == NoJob \notin Jobs /\ Malformed \subseteq Jobs
ASSUME MaxAttemptsAssumption == MaxAttempts \in Nat \ {0}
ASSUME PagingAssumption == LastContact \in Nat /\ PageSize \in Nat \ {0}
ASSUME LockValuesAssumption == Workers \cap {NoLock, Orphan} = {}

Contacts == 1 .. LastContact

VARIABLES
    msg,        \* msg[j]: the JetStream message
    matching,   \* contacts that match the filter now
    filter,     \* the segment row's filter tree
    lock,       \* segment:{id}:refresh
    status,     \* segments.status
    count,      \* segments.contact_count
    members,    \* segment_memberships
    pc, job, attempt, verdict,
    cursor,     \* afterID of StreamContactsForEval
    matched,    \* the handler's set of matching contacts
    current,    \* the handler's snapshot of the members
    covers,     \* jobs requested before the worker began to evaluate
    done,       \* history: jobs covered by a recorded recomputation
    skipped     \* history: jobs acked because the lock was held

msgVars  == <<msg>>
rowVars  == <<status, count, members>>
locals   == <<cursor, matched, current, covers>>
history  == <<done, skipped>>
external == <<matching, filter>>
vars == <<msg, matching, filter, lock, status, count, members, pc, job, attempt,
          verdict, cursor, matched, current, covers, done, skipped>>

PCs == {"idle", "validate", "lock", "load", "markProcessing", "evaluate",
        "current", "insert", "delete", "markReady", "markFailed", "answer", "release"}
Statuses == {"queued", "processing", "ready", "failed"}

Computing == {"load", "markProcessing", "evaluate", "current", "insert", "delete",
              "markReady", "markFailed"}

TypeOK ==
    /\ msg \in [Jobs -> Msgs]
    /\ matching \subseteq Contacts
    /\ filter \in FilterTrees
    /\ lock \in Workers \cup {NoLock, Orphan}
    /\ status \in Statuses
    /\ count \in 0 .. LastContact
    /\ members \subseteq Contacts
    /\ pc \in [Workers -> PCs]
    /\ job \in [Workers -> Jobs \cup {NoJob}]
    /\ attempt \in [Workers -> 0 .. MaxAttempts]
    /\ verdict \in [Workers -> Verdicts]
    /\ cursor \in [Workers -> 0 .. LastContact]
    /\ matched \in [Workers -> SUBSET Contacts]
    /\ current \in [Workers -> SUBSET Contacts]
    /\ covers \in [Workers -> SUBSET Jobs]
    /\ done \subseteq Jobs
    /\ skipped \subseteq Jobs

CallsMayFail == "call" \in Faults

Goto(w, next) == /\ pc' = [pc EXCEPT ![w] = next]
                 /\ UNCHANGED <<job, attempt, verdict>>

GotoAnswering(w, next, v) == /\ pc' = [pc EXCEPT ![w] = next]
                             /\ verdict' = [verdict EXCEPT ![w] = v]
                             /\ UNCHANGED <<job, attempt>>

Answer(w, v) == GotoAnswering(w, "answer", v)

\* Mutant: the last attempt is off by one.
RetryOneEarly(w) == IF attempt[w] >= MaxAttempts - 1 THEN "term" ELSE "nak"

\* Handler.nak: Term at the last attempt, Nak before it.
RetryVerdict(w) == IF attempt[w] >= MaxAttempts THEN "term" ELSE "nak"
Retry(w) == CallsMayFail /\ Answer(w, RetryVerdict(w))

ToIdle(w) == /\ pc' = [pc EXCEPT ![w] = "idle"]
             /\ job' = [job EXCEPT ![w] = NoJob]
             /\ attempt' = [attempt EXCEPT ![w] = 0]
             /\ verdict' = [verdict EXCEPT ![w] = "nak"]
             /\ cursor' = [cursor EXCEPT ![w] = 0]
             /\ matched' = [matched EXCEPT ![w] = {}]
             /\ current' = [current EXCEPT ![w] = {}]
             /\ covers' = [covers EXCEPT ![w] = {}]

Init ==
    /\ msg = [j \in Jobs |-> NoMsg]
    /\ matching \in SUBSET Contacts
    /\ filter \in FilterTrees
    /\ lock = NoLock
    /\ status = "queued"
    /\ count = 0
    /\ members = {}
    /\ pc = [w \in Workers |-> "idle"]
    /\ job = [w \in Workers |-> NoJob]
    /\ attempt = [w \in Workers |-> 0]
    /\ verdict = [w \in Workers |-> "nak"]
    /\ cursor = [w \in Workers |-> 0]
    /\ matched = [w \in Workers |-> {}]
    /\ current = [w \in Workers |-> {}]
    /\ covers = [w \in Workers |-> {}]
    /\ done = {}
    /\ skipped = {}

Requested == {j \in Jobs : msg[j].st # "absent"}

(***************************************************************************)
(* The handler, one action per call.                                       *)
(***************************************************************************)
Receive(w, j) ==
    /\ pc[w] = "idle"
    /\ Deliverable(msg[j])
    /\ msg' = [msg EXCEPT ![j] = Delivered(@)]
    /\ pc' = [pc EXCEPT ![w] = "validate"]
    /\ job' = [job EXCEPT ![w] = j]
    /\ attempt' = [attempt EXCEPT ![w] = msg[j].n + 1]
    /\ UNCHANGED <<external, lock, rowVars, verdict, locals, history>>

Validate(w) ==
    /\ pc[w] = "validate"
    /\ IF job[w] \in Malformed THEN Answer(w, "term") ELSE Goto(w, "lock")
    /\ UNCHANGED <<msgVars, external, lock, rowVars, locals, history>>

\* AcquireLock: held means Ack; an error may hide that the key was set, and
\* the value is then lost.
AcquireLock(w) ==
    /\ pc[w] = "lock"
    /\ \/ Free(lock) /\ lock' = w /\ Goto(w, "load") /\ UNCHANGED skipped
       \/ ~Free(lock) /\ Answer(w, "ack") /\ UNCHANGED lock
          /\ skipped' = skipped \cup {job[w]}
       \/ Retry(w) /\ lock' \in {lock, IF Free(lock) THEN Orphan ELSE lock}
          /\ UNCHANGED skipped
    /\ UNCHANGED <<msgVars, external, rowVars, locals, done>>

\* GetSegment and ParseFilterTree.
Load(w) ==
    /\ pc[w] = "load"
    /\ \/ filter = "missing" /\ Answer(w, "term")
       \/ filter = "invalid" /\ GotoAnswering(w, "markFailed", "term")
       \/ filter = "valid" /\ Goto(w, "markProcessing")
       \/ Retry(w)
    /\ UNCHANGED <<msgVars, external, lock, rowVars, locals, history>>

\* Mutant: the status is left alone.
MarkProcessingForgotten(w) ==
    /\ pc[w] = "markProcessing"
    /\ Goto(w, "evaluate") \/ Retry(w)
    /\ covers' = [covers EXCEPT ![w] = Requested]
    /\ UNCHANGED <<msgVars, external, lock, rowVars, cursor, matched, current, history>>

MarkProcessing(w) ==
    /\ pc[w] = "markProcessing"
    /\ \/ status' = "processing" /\ Goto(w, "evaluate")
       \/ status' \in {status, "processing"} /\ Retry(w)
    /\ covers' = [covers EXCEPT ![w] = Requested]
    /\ UNCHANGED <<msgVars, external, lock, count, members, cursor, matched, current, history>>

\* Mutant: every page is taken for a full one.
PageAlwaysFull(after) == after + 1 .. after + PageSize

\* The ids after the cursor, at most PageSize of them.
Page(after) == {c \in Contacts : c > after /\ c <= after + PageSize}

\* One page of StreamContactsForEval, evaluated as the contacts are then.
EvaluatePage(w) ==
    /\ pc[w] = "evaluate"
    /\ LET page == Page(cursor[w])
       IN  \/ /\ matched' = [matched EXCEPT ![w] = @ \cup (page \cap matching)]
              /\ cursor' = [cursor EXCEPT ![w] = IF page = {} THEN @ ELSE Max(page)]
              /\ Goto(w, IF Cardinality(page) < PageSize THEN "current" ELSE "evaluate")
           \/ /\ CallsMayFail
              /\ GotoAnswering(w, "markFailed", RetryVerdict(w))
              /\ UNCHANGED <<matched, cursor>>
    /\ UNCHANGED <<msgVars, external, lock, rowVars, current, covers, history>>

\* UpdateSegmentStatus("failed"): an error is ignored.
MarkFailed(w) ==
    /\ pc[w] = "markFailed"
    /\ \/ status' = "failed"
       \/ CallsMayFail /\ UNCHANGED status
    /\ Goto(w, "answer")
    /\ UNCHANGED <<msgVars, external, lock, count, members, locals, history>>

GetCurrent(w) ==
    /\ pc[w] = "current"
    /\ \/ current' = [current EXCEPT ![w] = members] /\ Goto(w, "insert")
       \/ Retry(w) /\ UNCHANGED current
    /\ UNCHANGED <<msgVars, external, lock, rowVars, cursor, matched, covers, history>>

\* Mutant: the arguments of diff the wrong way round.
ToRemoveSwapped(w) == matched[w] \ current[w]

ToAdd(w)    == matched[w] \ current[w]
ToRemove(w) == current[w] \ matched[w]

\* One transaction each; a failed one may have been committed.
Insert(w) ==
    /\ pc[w] = "insert"
    /\ \/ members' = members \cup ToAdd(w) /\ Goto(w, "delete")
       \/ members' \in {members, members \cup ToAdd(w)} /\ Retry(w)
    /\ UNCHANGED <<msgVars, external, lock, status, count, locals, history>>

Delete(w) ==
    /\ pc[w] = "delete"
    /\ \/ members' = members \ ToRemove(w) /\ Goto(w, "markReady")
       \/ members' \in {members, members \ ToRemove(w)} /\ Retry(w)
    /\ UNCHANGED <<msgVars, external, lock, status, count, locals, history>>

FinalCount(w) ==
    Cardinality(current[w]) + Cardinality(ToAdd(w)) - Cardinality(ToRemove(w))

MarkReady(w) ==
    /\ pc[w] = "markReady"
    /\ \/ /\ status' = "ready" /\ count' = FinalCount(w)
          /\ done' = done \cup covers[w]
          /\ Answer(w, "ack")
       \/ /\ Retry(w)
          /\ UNCHANGED <<status, count, done>>
       \/ /\ Retry(w)
          /\ status' = "ready" /\ count' = FinalCount(w)
          /\ done' = done \cup covers[w]
    /\ UNCHANGED <<msgVars, external, lock, members, locals, skipped>>

\* An answer that is lost is not noticed.
AnswerMessage(w) ==
    /\ pc[w] = "answer"
    /\ \/ msg' = [msg EXCEPT ![job[w]] = Answered(@, verdict[w], MaxAttempts)]
       \/ CallsMayFail /\ UNCHANGED msg
    /\ Goto(w, "release")
    /\ UNCHANGED <<external, lock, rowVars, locals, history>>

\* Mutant: the release is not deferred, and only the way to Ack reaches it.
ReleaseAfterAck(w) ==
    /\ pc[w] = "release"
    /\ lock' = IF verdict[w] = "ack" THEN Released(lock, w) ELSE lock
    /\ ToIdle(w)
    /\ UNCHANGED <<msgVars, external, rowVars, history>>

\* The deferred ReleaseLock, which compares the lock's value: a handler that
\* never got the lock releases nothing.
Release(w) ==
    /\ pc[w] = "release"
    /\ \/ lock' = Released(lock, w)
       \/ CallsMayFail /\ lock' = Abandoned(lock, w)
    /\ ToIdle(w)
    /\ UNCHANGED <<msgVars, external, rowVars, history>>

(***************************************************************************)
(* What happens around the handler.                                        *)
(***************************************************************************)
\* The API asks for a refresh.
Request(j) ==
    /\ msg[j].st = "absent"
    /\ msg' = [msg EXCEPT ![j] = NewMsg]
    /\ UNCHANGED <<external, lock, rowVars, pc, job, attempt, verdict, locals, history>>

\* Contacts, their traits and their events change.
ChangeContacts ==
    /\ matching' \in SUBSET Contacts \ {matching}
    /\ UNCHANGED <<msgVars, filter, lock, rowVars, pc, job, attempt, verdict, locals, history>>

\* The process dies with the lock held.
Crash(w) ==
    /\ "crash" \in Faults
    /\ pc[w] # "idle"
    /\ lock' = Abandoned(lock, w)
    /\ ToIdle(w)
    /\ UNCHANGED <<msgVars, external, rowVars, history>>

\* A panic runs the deferred release, and dispatch naks.
Panic(w) ==
    /\ "crash" \in Faults
    /\ pc[w] \notin {"idle", "answer", "release"}
    /\ msg' = [msg EXCEPT ![job[w]] = Requeued(@, MaxAttempts)]
    /\ lock' = Released(lock, w)
    /\ ToIdle(w)
    /\ UNCHANGED <<external, rowVars, history>>

\* The BackOff list replaces AckWait: the first redelivery comes after one
\* minute, whether or not the handler, which has twelve, is still at work.
Expire(j) ==
    /\ msg[j].st = "pending"
    /\ msg' = [msg EXCEPT ![j] = Requeued(@, MaxAttempts)]
    /\ UNCHANGED <<external, lock, rowVars, pc, job, attempt, verdict, locals, history>>

\* The lock lives ten minutes, and a handler may work for twelve.
ExpireLock ==
    /\ lock = Orphan \/ (lock # NoLock /\ "outliveLock" \in Faults)
    /\ lock' = NoLock
    /\ UNCHANGED <<msgVars, external, rowVars, pc, job, attempt, verdict, locals, history>>

Work(w) ==
    \/ Validate(w)
    \/ AcquireLock(w)
    \/ Load(w)
    \/ MarkProcessing(w)
    \/ EvaluatePage(w)
    \/ MarkFailed(w)
    \/ GetCurrent(w)
    \/ Insert(w)
    \/ Delete(w)
    \/ MarkReady(w)
    \/ AnswerMessage(w)
    \/ Release(w)

Next ==
    \/ \E w \in Workers, j \in Jobs : Receive(w, j)
    \/ \E w \in Workers : Work(w)
    \/ \E w \in Workers : Crash(w) \/ Panic(w)
    \/ \E j \in Jobs : Request(j) \/ Expire(j)
    \/ ChangeContacts
    \/ ExpireLock

Spec == Init /\ [][Next]_vars

\* Calls return within HandlerTimeout, idle callbacks are given the messages
\* that wait, and the timers of JetStream and Redis run out.
Fairness ==
    /\ \A w \in Workers : WF_vars(Work(w))
    /\ \A j \in Jobs : WF_vars(\E w \in Workers : Receive(w, j))
    /\ \A j \in Jobs : WF_vars(Expire(j))
    /\ WF_vars(ExpireLock)

FairSpec == Spec /\ Fairness

-----------------------------------------------------------------------------
(***************************************************************************)
(* Properties                                                              *)
(***************************************************************************)

\* While the lock outlives its holder, a segment that says 'ready' has the
\* count of its members, whatever statement failed or committed unseen and
\* however contacts moved during the evaluation (handler.go:182-242).
ReadyMeansCounted == status = "ready" => count = Cardinality(members)

\* A recomputation is recorded only with the members its evaluation found,
\* also when earlier attempts left half of their changes (handler.go:206-242).
ReadyMembersAreMatched ==
    [][status # "ready" /\ status' = "ready" =>
          \E w \in Workers : lock = w /\ members = matched[w]]_vars

\* The answer to a request follows from what became of it: an Ack loses none but
\* the one for a lock that is held, any other acked request being covered by a
\* recomputation begun after it; and Term comes only when it can never succeed,
\* or at the last delivery JetStream would make (handler.go:136-145, 241-256).
SettledIsJustified ==
    /\ \A j \in Jobs : msg[j].st = "acked" => j \in done \cup skipped
    /\ \A j \in Jobs \ Malformed :
          msg[j].st = "termed" => msg[j].n >= MaxAttempts \/ filter # "valid"

\* The work ends: every request is settled or used up, the workers are back,
\* and the lock is free again, whatever fails.
ComesToRest ==
    <>[](/\ \A j \in Requested : Closed(msg[j])
         /\ \A w \in Workers : pc[w] = "idle"
         /\ lock = NoLock)
=============================================================================
