---------------------------- MODULE WorkflowEngine ----------------------------
(***************************************************************************)
(* internal/worker/workflows: the workflow.trigger consumer that creates an *)
(* execution and runs it to its first delay, the schedulers that resume    *)
(* executions whose delay has passed, the executor both use, the rows of   *)
(* workflow_executions, the Redis locks, and the emails put into stream    *)
(* EMAIL_SEND.                                                             *)
(***************************************************************************)
EXTENDS JetStream, RedisLock, FiniteSets

CONSTANTS
    Triggers,      \* workflow.trigger messages
    Malformed,     \* those that cannot be parsed or lack an id
    Executions,    \* unique keys (workflow_id, contact_id, trigger_event_id)
    KeyOf,         \* KeyOf[t]: the key of a trigger's payload
    Workers,       \* trigger callbacks
    Schedulers,    \* replicas of the delay scheduler
    Nodes,         \* node ids
    Graphs,        \* what the workflow may be: nodes[0], the nodes' types, nextNode
    MaxAttempts,   \* WORKFLOW_MAX_RETRIES + 1, which is also MaxDeliver
    FaultKinds,    \* what may go wrong: "refused", "lost", "crash", "outliveLock"
    MaxFaults,     \* how many times it may, in one behaviour
    NoNode, Nobody

ASSUME KeysAssumption == KeyOf \in [Triggers -> Executions] /\ Nobody \notin Triggers \cup Executions
ASSUME GraphAssumption ==
    /\ NoNode \notin Nodes
    /\ \A g \in Graphs : /\ g.first \in Nodes
                        /\ g.kind \in [Nodes -> {"trigger", "email", "delay", "end", "invalid"}]
                        /\ DOMAIN g.next = Nodes
ASSUME LimitsAssumption == MaxAttempts \in Nat \ {0} /\ MaxFaults \in Nat
ASSUME ActorsAssumption == Workers \cap Schedulers = {}

Actors == Workers \cup Schedulers
Places == Nodes \cup {NoNode} \cup {g.next[n] : g \in Graphs, n \in Nodes}

VARIABLES
    msg,         \* msg[t]: the JetStream message
    workflow,    \* the status of the workflows row, written by the API
    graph,       \* its nodes
    contact,     \* whether the contact lookup yields an address
    row,         \* row[e]: status, current_node_id, and whether next_run_at has passed
    mail,        \* mail[e][n]: messages stored in EMAIL_SEND for a node
    execLock,    \* workflow:execution:{id}, by its value
    pollLock,    \* workflow:scheduler:lock, by its value
    pc, job, attempt, verdict,
    exe,         \* the execution an actor works on
    node,        \* the executor's currentID
    todo,        \* what is left of a scheduler's FetchDueExecutions
    faults,      \* faults left
    unaddressed  \* history: nodes whose email had no address to go to

locals == <<job, attempt, verdict>>
stream == <<mail, unaddressed>>
outside == <<workflow, graph, contact>>
vars == <<msg, workflow, graph, contact, row, mail, execLock, pollLock, pc, job,
          attempt, verdict, exe, node, todo, faults, unaddressed>>

RowStates == {"none", "running", "waiting", "completed", "failed"}
PCs == {"idle", "load", "create", "lock", "run", "move", "fail", "answer",
        "release", "fetch", "next", "reload", "refetch", "unlock"}

\* An actor believes that it holds its execution's lock.
Holding == {"run", "move", "fail", "answer", "release", "reload", "refetch"}

TypeOK ==
    /\ msg \in [Triggers -> Msgs]
    /\ workflow \in {"missing", "draft", "published", "unparsable"}
    /\ graph \in Graphs
    /\ contact \in BOOLEAN
    /\ row \in [Executions -> [st : RowStates, node : Places, due : BOOLEAN]]
    /\ mail \in [Executions -> [Nodes -> Nat]]
    /\ execLock \in [Executions -> {NoLock, "trigger", "scheduler-resume"}]
    /\ pollLock \in {NoLock, "scheduler"}
    /\ pc \in [Actors -> PCs]
    /\ job \in [Workers -> Triggers \cup {Nobody}]
    /\ attempt \in [Workers -> 0 .. MaxAttempts]
    /\ verdict \in [Workers -> Verdicts]
    /\ exe \in [Actors -> Executions \cup {Nobody}]
    /\ node \in [Actors -> Places]
    /\ todo \in [Schedulers -> SUBSET Executions]
    /\ faults \in 0 .. MaxFaults
    /\ unaddressed \subseteq Executions \X Nodes

Init ==
    /\ msg = [t \in Triggers |-> NewMsg]
    /\ workflow = "published"
    /\ graph \in Graphs
    /\ contact \in BOOLEAN
    /\ row = [e \in Executions |-> [st |-> "none", node |-> NoNode, due |-> FALSE]]
    /\ mail = [e \in Executions |-> [n \in Nodes |-> 0]]
    /\ execLock = [e \in Executions |-> NoLock]
    /\ pollLock = NoLock
    /\ pc = [a \in Actors |-> "idle"]
    /\ job = [w \in Workers |-> Nobody]
    /\ attempt = [w \in Workers |-> 0]
    /\ verdict = [w \in Workers |-> "nak"]
    /\ exe = [a \in Actors |-> Nobody]
    /\ node = [a \in Actors |-> NoNode]
    /\ todo = [s \in Schedulers |-> {}]
    /\ faults = MaxFaults
    /\ unaddressed = {}

-----------------------------------------------------------------------------
(***************************************************************************)
(* Calls: they succeed, are refused (nothing happened), or take effect and *)
(* lose their answer.                                                      *)
(***************************************************************************)
Calm == faults' = faults

Fault(kind) == kind \in FaultKinds /\ faults > 0 /\ faults' = faults - 1

\* Whether a call took effect, and whether the caller was told so.
CallEnds(effect, told) ==
    \/ effect /\ told /\ Calm
    \/ ~effect /\ ~told /\ Fault("refused")
    \/ effect /\ ~told /\ Fault("lost")

Goto(a, next) == pc' = [pc EXCEPT ![a] = next] /\ UNCHANGED locals

Answer(w, v) == /\ pc' = [pc EXCEPT ![w] = "answer"]
                /\ verdict' = [verdict EXCEPT ![w] = v]
                /\ UNCHANGED <<job, attempt>>

\* TriggerHandler.nak: Term at the last attempt, Nak before it.
RetryVerdict(w) == IF attempt[w] >= MaxAttempts THEN "term" ELSE "nak"

ToIdle(w) == /\ pc' = [pc EXCEPT ![w] = "idle"]
             /\ job' = [job EXCEPT ![w] = Nobody]
             /\ attempt' = [attempt EXCEPT ![w] = 0]
             /\ verdict' = [verdict EXCEPT ![w] = "nak"]

\* Mutants: another status; a conflict that returns the row; next_run_at
\* forgotten; the wrong status after the re-fetch.
FailedMisspelt(r)   == [r EXCEPT !.st = "errored"]
IsNewOrConflict(r)  == TRUE
DueAnyTime(r)       == r.st = "waiting"
ResumableRunning(r) == r.st = "running"

\* The statements on workflow_executions; none has a condition on the status.
Created(r)      == [r EXCEPT !.st = "running"]
Advanced(r, n)  == [r EXCEPT !.st = "running", !.node = n]
Delayed(r, n)   == [st |-> "waiting", node |-> n, due |-> FALSE]
Completed(r)    == [r EXCEPT !.st = "completed"]
Failed(r)       == [r EXCEPT !.st = "failed"]


\* The conditions: the conflict of the INSERT, the due list, the check after
\* the re-fetch.
IsNew(r)      == r.st = "none"
Due(r)        == r.st = "waiting" /\ r.due
Resumable(r)  == r.st = "waiting"

(***************************************************************************)
(* TriggerHandler.Handle.                                                  *)
(***************************************************************************)
\* A payload that cannot be parsed, or lacks an id, is terminated at once.
Receive(w, t) ==
    /\ pc[w] = "idle"
    /\ Deliverable(msg[t])
    /\ msg' = [msg EXCEPT ![t] = Delivered(@)]
    /\ pc' = [pc EXCEPT ![w] = IF t \in Malformed THEN "answer" ELSE "load"]
    /\ verdict' = [verdict EXCEPT ![w] = IF t \in Malformed THEN "term" ELSE @]
    /\ job' = [job EXCEPT ![w] = t]
    /\ attempt' = [attempt EXCEPT ![w] = msg[t].n + 1]
    /\ UNCHANGED <<outside, row, stream, execLock, pollLock, exe, node, todo, faults>>

\* GetWorkflow.  Nodes that do not parse are found out once the lock is held;
\* an empty node stands for them.
LoadWorkflow(w) ==
    /\ pc[w] = "load"
    /\ \/ /\ Calm
          /\ node' = [node EXCEPT ![w] = IF workflow = "unparsable" THEN NoNode ELSE graph.first]
          /\ CASE workflow = "missing" -> Answer(w, "term")
               [] workflow = "draft"   -> Answer(w, "ack")
               [] OTHER                -> Goto(w, "create")
       \/ Fault("refused") /\ Answer(w, RetryVerdict(w)) /\ UNCHANGED node
    /\ UNCHANGED <<msg, outside, row, stream, execLock, pollLock, exe, todo>>

\* CreateExecution: ON CONFLICT DO NOTHING, so that only one trigger of a key
\* goes on, once.
CreateExecution(w) ==
    LET e == KeyOf[job[w]]
        new == IsNew(row[e])
    IN
    /\ pc[w] = "create"
    /\ \E effect, told \in BOOLEAN :
          /\ CallEnds(effect, told)
          /\ row' = IF effect /\ new THEN [row EXCEPT ![e] = Created(@)] ELSE row
          /\ exe' = IF told /\ new THEN [exe EXCEPT ![w] = e] ELSE exe
          /\ CASE ~told -> Answer(w, RetryVerdict(w))
               [] told /\ new -> Goto(w, "lock")
               [] told /\ ~new -> Answer(w, "ack")
    /\ UNCHANGED <<msg, outside, stream, execLock, pollLock, node, todo>>

\* A lock that is not to be had is acked, one that cannot be asked for naked;
\* neither leaves anything to release.
AcquireLock(w) ==
    LET e == exe[w]
        free == Free(execLock[e])
    IN
    /\ pc[w] = "lock"
    /\ \E effect, told \in BOOLEAN :
          /\ CallEnds(effect, told)
          /\ execLock' = IF effect /\ free THEN [execLock EXCEPT ![e] = "trigger"] ELSE execLock
          /\ exe' = IF told /\ free THEN exe ELSE [exe EXCEPT ![w] = Nobody]
          /\ CASE ~told -> Answer(w, RetryVerdict(w))
               [] told /\ ~free -> Answer(w, "ack")
               [] told /\ free -> Goto(w, IF node[w] = NoNode THEN "fail" ELSE "run")
    /\ UNCHANGED <<msg, outside, row, stream, pollLock, node, todo>>

\* The answer comes first, the deferred release of the lock after it.
AnswerMessage(w) ==
    /\ pc[w] = "answer"
    /\ \/ msg' = [msg EXCEPT ![job[w]] = Answered(@, verdict[w], MaxAttempts)] /\ Calm
       \/ Fault("refused") /\ UNCHANGED msg
    /\ IF exe[w] = Nobody THEN ToIdle(w) ELSE Goto(w, "release")
    /\ node' = [node EXCEPT ![w] = NoNode]
    /\ UNCHANGED <<outside, row, stream, execLock, pollLock, exe, todo>>

\* The script deletes the lock when its value is the caller's, and the value
\* does not say which replica set it.
Freed(e, value) ==
    \E effect, told \in BOOLEAN :
       /\ CallEnds(effect, told)
       /\ execLock' = IF effect THEN [execLock EXCEPT ![e] = Released(@, value)] ELSE execLock

ReleaseLock(w) ==
    /\ pc[w] = "release"
    /\ Freed(exe[w], "trigger")
    /\ ToIdle(w)
    /\ exe' = [exe EXCEPT ![w] = Nobody]
    /\ UNCHANGED <<msg, outside, row, stream, pollLock, node, todo>>

(***************************************************************************)
(* Executor.Run and ResumeFromDelay, for whoever runs them.                *)
(***************************************************************************)
\* What the caller of the executor does next, when it ends well and when not.
Finish(a)    == IF a \in Workers THEN Answer(a, "ack") ELSE Goto(a, "unlock")
GiveUp(a)    == Goto(a, "fail")

\* A statement on the row that ends the run, or takes it to another node.
WriteRow(a, new, last) ==
    \E effect, told \in BOOLEAN :
       /\ CallEnds(effect, told)
       /\ row' = IF effect THEN [row EXCEPT ![exe[a]] = new] ELSE row
       /\ CASE ~told -> GiveUp(a) /\ UNCHANGED node
            [] told /\ last -> Finish(a) /\ UNCHANGED node
            [] told /\ ~last -> Goto(a, "run") /\ node' = [node EXCEPT ![a] = new.node]

\* On to the next node, or to the end: from a trigger node, from an email node
\* whose email is out, from the delay node a scheduler resumes.
MoveOn(a) ==
    LET next == graph.next[node[a]] IN
    /\ \/ pc[a] = "run" /\ node[a] \in Nodes /\ graph.kind[node[a]] = "trigger"
       \/ pc[a] = "move" /\ node[a] \in Nodes
    /\ IF next = NoNode THEN WriteRow(a, Completed(row[exe[a]]), TRUE)
       ELSE WriteRow(a, Advanced(row[exe[a]], next), FALSE)
    /\ UNCHANGED <<msg, outside, stream, execLock, pollLock, exe, todo>>

Runs(a, kind) == pc[a] = "run" /\ node[a] \in Nodes /\ graph.kind[node[a]] = kind

ScheduleDelay(a) ==
    /\ Runs(a, "delay")
    /\ WriteRow(a, Delayed(row[exe[a]], node[a]), TRUE)
    /\ UNCHANGED <<msg, outside, stream, execLock, pollLock, exe, todo>>

CompleteExecution(a) ==
    /\ Runs(a, "end")
    /\ WriteRow(a, Completed(row[exe[a]]), TRUE)
    /\ UNCHANGED <<msg, outside, stream, execLock, pollLock, exe, todo>>

\* A contact without an address is passed over in silence; its lookup may fail.
SkipEmail(a) ==
    /\ Runs(a, "email")
    /\ ~contact
    /\ \/ Calm /\ Goto(a, "move") /\ unaddressed' = unaddressed \cup {<<exe[a], node[a]>>}
       \/ Fault("refused") /\ GiveUp(a) /\ UNCHANGED unaddressed
    /\ UNCHANGED <<msg, outside, row, mail, execLock, pollLock, exe, node, todo>>

\* Mutant: the error of the publish is logged and forgotten.
AfterPublishUnchecked(a, told) == Goto(a, "move")

AfterPublish(a, told) == IF told THEN Goto(a, "move") ELSE GiveUp(a)

\* GetContactForWorkflow, or the publish, fails; or the publish loses its answer.
\* The stream drops a message whose id, wf-email-{execution}-{node}, it stored in
\* the last two minutes, and stores it again when they have passed.
PublishEmail(a) ==
    /\ Runs(a, "email")
    /\ contact
    /\ \E effect, told, stored \in BOOLEAN :
          /\ CallEnds(effect, told)
          /\ stored => effect
          /\ effect /\ mail[exe[a]][node[a]] = 0 => stored
          /\ mail' = IF stored THEN [mail EXCEPT ![exe[a]][node[a]] = @ + 1] ELSE mail
          /\ AfterPublish(a, told)
    /\ UNCHANGED <<msg, outside, unaddressed, row, execLock, pollLock, exe, node, todo>>

\* A node of another kind, an email without a body, a delay without a duration,
\* or an id the workflow does not have.
RejectNode(a) ==
    /\ \/ Runs(a, "invalid")
       \/ pc[a] \in {"run", "move"} /\ node[a] \notin Nodes
    /\ Calm /\ GiveUp(a)
    /\ UNCHANGED <<msg, outside, row, stream, execLock, pollLock, exe, node, todo>>

\* FailExecution, whose own error is ignored.
FailExecution(a) ==
    /\ pc[a] = "fail"
    /\ \E effect, told \in BOOLEAN :
          /\ CallEnds(effect, told)
          /\ row' = IF effect THEN [row EXCEPT ![exe[a]] = Failed(@)] ELSE row
    /\ IF a \in Schedulers THEN Goto(a, "unlock")
       ELSE Answer(a, IF node[a] = NoNode THEN "term" ELSE RetryVerdict(a))
    /\ UNCHANGED <<msg, outside, stream, execLock, pollLock, exe, node, todo>>

(***************************************************************************)
(* Scheduler.poll and resume.                                              *)
(***************************************************************************)
\* A tick that finds the lock held, or cannot ask, does nothing.
Poll(s) ==
    /\ pc[s] = "idle"
    /\ Free(pollLock)
    /\ \E effect, told \in BOOLEAN :
          /\ CallEnds(effect, told)
          /\ pollLock' = IF effect THEN "scheduler" ELSE pollLock
          /\ Goto(s, IF told THEN "fetch" ELSE "idle")
    /\ UNCHANGED <<msg, outside, row, stream, execLock, exe, node, todo>>

FetchDue(s) ==
    /\ pc[s] = "fetch"
    /\ \/ Calm /\ todo' = [todo EXCEPT ![s] = {e \in Executions : Due(row[e])}]
       \/ Fault("refused") /\ UNCHANGED todo
    /\ Goto(s, "next")
    /\ UNCHANGED <<msg, outside, row, stream, execLock, pollLock, exe, node>>

\* The next execution of the list, unless its lock is held or cannot be asked for.
TakeNext(s) ==
    /\ pc[s] = "next"
    /\ \E e \in todo[s], effect, told \in BOOLEAN :
          LET free == Free(execLock[e]) IN
          /\ CallEnds(effect, told)
          /\ todo' = [todo EXCEPT ![s] = @ \ {e}]
          /\ execLock' = IF effect /\ free THEN [execLock EXCEPT ![e] = "scheduler-resume"] ELSE execLock
          /\ IF told /\ free THEN Goto(s, "reload") /\ exe' = [exe EXCEPT ![s] = e]
             ELSE Goto(s, "next") /\ UNCHANGED exe
    /\ UNCHANGED <<msg, outside, row, stream, pollLock, node>>

\* GetWorkflow again: no answer, no row and no nodes all fail the execution.
Reload(s) ==
    /\ pc[s] = "reload"
    /\ \/ Calm /\ Goto(s, IF workflow \in {"missing", "unparsable"} THEN "fail" ELSE "refetch")
       \/ Fault("refused") /\ Goto(s, "fail")
    /\ UNCHANGED <<msg, outside, row, stream, execLock, pollLock, exe, node, todo>>

\* GetExecution: only an execution that still waits is resumed, whatever its
\* next_run_at says by now.
Refetch(s) ==
    LET r == row[exe[s]] IN
    /\ pc[s] = "refetch"
    /\ \/ /\ Resumable(r) /\ Calm
          /\ Goto(s, "move")
          /\ node' = [node EXCEPT ![s] = r.node]
       \/ ~Resumable(r) /\ Calm /\ Goto(s, "unlock") /\ UNCHANGED node
       \/ Fault("refused") /\ Goto(s, "unlock") /\ UNCHANGED node
    /\ UNCHANGED <<msg, outside, row, stream, execLock, pollLock, exe, todo>>

Unlock(s) ==
    /\ pc[s] = "unlock"
    /\ Freed(exe[s], "scheduler-resume")
    /\ Goto(s, "next")
    /\ exe' = [exe EXCEPT ![s] = Nobody]
    /\ node' = [node EXCEPT ![s] = NoNode]
    /\ UNCHANGED <<msg, outside, row, stream, pollLock, todo>>

EndPoll(s) ==
    /\ pc[s] = "next"
    /\ todo[s] = {}
    /\ \E effect, told \in BOOLEAN :
          /\ CallEnds(effect, told)
          /\ pollLock' = IF effect THEN Released(pollLock, "scheduler") ELSE pollLock
    /\ Goto(s, "idle")
    /\ UNCHANGED <<msg, outside, row, stream, execLock, exe, node, todo>>

(***************************************************************************)
(* What happens around them.                                               *)
(***************************************************************************)
\* A process dies.
Crash(a) ==
    /\ pc[a] # "idle"
    /\ Fault("crash")
    /\ exe' = [exe EXCEPT ![a] = Nobody]
    /\ node' = [node EXCEPT ![a] = NoNode]
    /\ IF a \in Workers THEN ToIdle(a) /\ UNCHANGED todo
       ELSE Goto(a, "idle") /\ todo' = [todo EXCEPT ![a] = {}]
    /\ UNCHANGED <<msg, outside, row, stream, execLock, pollLock>>

\* BackOff redelivers after a minute, though a handler may take ninety seconds.
ExpireAckWait(t) ==
    /\ msg[t].st = "pending"
    /\ msg' = [msg EXCEPT ![t] = Requeued(@, MaxAttempts)]
    /\ UNCHANGED <<outside, row, stream, execLock, pollLock, pc, locals, exe, node, todo, faults>>

\* A lock nobody holds any more runs out; with "outliveLock", also one whose
\* holder takes longer than its time to live.
ExpireExecLock(e) ==
    /\ ~Free(execLock[e])
    /\ \/ (\A a \in Actors : exe[a] # e \/ pc[a] \notin Holding) /\ Calm
       \/ Fault("outliveLock")
    /\ execLock' = [execLock EXCEPT ![e] = NoLock]
    /\ UNCHANGED <<msg, outside, row, stream, pollLock, pc, locals, exe, node, todo>>

ExpirePollLock ==
    /\ ~Free(pollLock)
    /\ \/ (\A s \in Schedulers : pc[s] = "idle") /\ Calm
       \/ Fault("outliveLock")
    /\ pollLock' = NoLock
    /\ UNCHANGED <<msg, outside, row, stream, execLock, pc, locals, exe, node, todo>>

\* next_run_at passes.
BecomeDue(e) ==
    /\ row[e].st = "waiting" /\ ~row[e].due
    /\ row' = [row EXCEPT ![e].due = TRUE]
    /\ UNCHANGED <<msg, outside, stream, execLock, pollLock, pc, locals, exe, node, todo, faults>>

\* The API archives, breaks or deletes the workflow.
EditWorkflow ==
    /\ workflow = "published"
    /\ workflow' \in {"draft", "unparsable", "missing"}
    /\ UNCHANGED <<msg, graph, contact, row, stream, execLock, pollLock, pc, locals, exe, node, todo, faults>>

WorkTrigger(w) ==
    \/ LoadWorkflow(w)
    \/ CreateExecution(w)
    \/ AcquireLock(w)
    \/ AnswerMessage(w)
    \/ ReleaseLock(w)

Execute(a) ==
    \/ MoveOn(a)
    \/ SkipEmail(a)
    \/ PublishEmail(a)
    \/ ScheduleDelay(a)
    \/ CompleteExecution(a)
    \/ RejectNode(a)
    \/ FailExecution(a)

Resume(s) ==
    \/ FetchDue(s)
    \/ TakeNext(s)
    \/ Reload(s)
    \/ Refetch(s)
    \/ Unlock(s)
    \/ EndPoll(s)

Next ==
    \/ \E w \in Workers, t \in Triggers : Receive(w, t)
    \/ \E w \in Workers : WorkTrigger(w)
    \/ \E a \in Actors : Execute(a) \/ Crash(a)
    \/ \E s \in Schedulers : Poll(s) \/ Resume(s)
    \/ \E t \in Triggers : ExpireAckWait(t)
    \/ \E e \in Executions : ExpireExecLock(e) \/ BecomeDue(e)
    \/ ExpirePollLock
    \/ EditWorkflow

Spec == Init /\ [][Next]_vars

\* Calls return, messages that wait are delivered, the tickers tick and the
\* timers of JetStream, Redis and the delays run out.
Fairness ==
    /\ \A w \in Workers : WF_vars(WorkTrigger(w) \/ Execute(w))
    /\ \A t \in Triggers : WF_vars(\E w \in Workers : Receive(w, t)) /\ WF_vars(ExpireAckWait(t))
    /\ \A s \in Schedulers : WF_vars(Resume(s) \/ Execute(s))
    /\ WF_vars(\E s \in Schedulers : Poll(s))
    /\ \A e \in Executions : WF_vars(ExpireExecLock(e)) /\ WF_vars(BecomeDue(e))
    /\ WF_vars(ExpirePollLock)

FairSpec == Spec /\ Fairness

-----------------------------------------------------------------------------
(***************************************************************************)
(* Properties                                                              *)
(***************************************************************************)

\* Where the nodes of a workflow follow each other without a loop, each email
\* node of an execution puts one email into the stream at most: no redelivered
\* or repeated trigger, and no second scheduler, runs a node again, however
\* long ago the stream forgot its id (executor.go:204, handler.go:154-179,
\* scheduler.go:85-121).
EmailOncePerNode == \A e \in Executions, n \in Nodes : mail[e][n] <= 1

\* An execution that says 'completed' passed every email node: the email is in
\* the stream, or there was no address to send it to (executor.go:87-123).
CompletedMeansEmailed ==
    \A e \in Executions : row[e].st = "completed" =>
       \A n \in Nodes : graph.kind[n] = "email" => mail[e][n] > 0 \/ <<e, n>> \in unaddressed

\* A delay is waited for: an execution leaves a delay node for the next one only
\* when next_run_at has passed (client.go:1087-1097, scheduler.go:117-123).
DelayIsServed ==
    [][\A e \in Executions :
          row[e].st = "waiting" /\ row'[e].st \in {"running", "completed"} => row[e].due]_vars

\* An execution that waits for its delay is taken up again, by whichever
\* scheduler is left, once the faults have ceased: no lock that a dead or
\* unlucky one left behind keeps the others out (scheduler.go:55-128).
WaitingIsResumed ==
    \A e \in Executions : row[e].st = "waiting" ~> row[e].st # "waiting"
=============================================================================
