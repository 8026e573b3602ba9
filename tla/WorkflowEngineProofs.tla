------------------------- MODULE WorkflowEngineProofs -------------------------
(***************************************************************************)
(* Proofs about WorkflowEngine, for any triggers, executions, workers,     *)
(* schedulers and workflows, any number of attempts and of faults, as long *)
(* as no lock runs out under its holder.                                   *)
(***************************************************************************)
EXTENDS WorkflowEngine, TLAPS

-----------------------------------------------------------------------------
(***************************************************************************)
(* Messages of the stream                                                  *)
(***************************************************************************)
\* A delivery counts up and leaves the message waiting for its answer.
LEMMA DeliveredFacts ==
    ASSUME NEW m \in Msgs
    PROVE  /\ Delivered(m) \in Msgs
           /\ Delivered(m).st = "pending"
           /\ Delivered(m).n = m.n + 1
  BY DEF Delivered, Msgs, MsgStates

-----------------------------------------------------------------------------
(***************************************************************************)
(* Paths                                                                   *)
(***************************************************************************)
\* The node an execution is taken to from n: none from an end node.
Onward(g, n) == IF g.kind[n] = "end" THEN NoNode ELSE g.next[n]

Followed(g, S) == \A m \in S : Onward(g, m) \in Nodes => Onward(g, m) \in S

\* The nodes from n on: the least set of nodes that contains n and what follows.
Way(g, n) ==
    {m \in Nodes : \A S \in SUBSET Nodes : Followed(g, S) /\ (n \in Nodes => n \in S) => m \in S}

\* The nodes follow each other without a loop.
LoopFree == \A g \in Graphs : \A n \in Nodes : n \notin Way(g, Onward(g, n))

\* Where the way from the first node ends, no email node lies beside it.
Ends(g) == \E n \in Way(g, g.first) : Onward(g, n) = NoNode

EmailsOnTheWay ==
    \A g \in Graphs : Ends(g) =>
       \A n \in Nodes : g.kind[n] = "email" => n \in Way(g, g.first)

\* No lock runs out while its holder works.
LocksLast == "outliveLock" \notin FaultKinds

-----------------------------------------------------------------------------
(***************************************************************************)
(* The inductive invariant                                                 *)
(***************************************************************************)
WorkerPCs    == {"idle", "load", "create", "lock", "run", "move", "fail", "answer", "release"}
SchedulerPCs == {"idle", "fetch", "next", "reload", "refetch", "move", "run", "fail", "unlock"}
Engaged      == {"lock", "run", "move", "fail", "release", "reload", "refetch", "unlock"}

\* Who is where with what: an actor at work has a message and an execution, and
\* a message that waits may be delivered once more.
Placed ==
    /\ \A t \in Triggers : msg[t].st = "queued" => msg[t].n < MaxAttempts
    /\ \A a \in Actors : pc[a] \in Engaged => exe[a] \in Executions
    /\ \A w \in Workers : /\ pc[w] \in WorkerPCs
                          /\ pc[w] # "idle" => job[w] \in Triggers
                          /\ pc[w] \in {"idle", "load", "create"} => exe[w] = Nobody
    /\ \A s \in Schedulers : /\ pc[s] \in SchedulerPCs
                             /\ pc[s] \in {"idle", "fetch", "next"} => exe[s] = Nobody
                             /\ pc[s] \in {"idle", "fetch"} => todo[s] = {}

Typed == TypeOK /\ Placed

\* One scheduler at work, which holds the poll lock.
OneScheduler ==
    \A s \in Schedulers : pc[s] # "idle" =>
       pollLock = "scheduler" /\ \A r \in Schedulers \ {s} : pc[r] = "idle"

\* An execution somebody works on has its row, and one trigger at most.
OneTrigger ==
    /\ \A w \in Workers : exe[w] \in Executions => row[exe[w]].st # "none"
    /\ \A s \in Schedulers, e \in Executions : e \in todo[s] \/ exe[s] = e => row[e].st # "none"
    /\ \A s \in Schedulers : exe[s] \notin todo[s]
    /\ \A v, w \in Workers : v # w /\ exe[v] \in Executions => exe[v] # exe[w]

\* Who believes that they hold a lock holds it.
Value(a) == IF a \in Workers THEN "trigger" ELSE "scheduler-resume"

LocksHeld ==
    \A a \in Actors : pc[a] \in Holding /\ exe[a] \in Executions => execLock[exe[a]] = Value(a)

Locked == OneScheduler /\ OneTrigger /\ LocksHeld

AtWork == {"lock", "run", "move"}

\* An execution whose trigger runs it is 'running' and no scheduler's business;
\* one a scheduler runs is 'running'; one it is about to resume is due if it waits.
TriggerRuns ==
    \A w \in Workers : pc[w] \in AtWork =>
       /\ row[exe[w]].st = "running"
       /\ \A s \in Schedulers : exe[s] # exe[w] /\ exe[w] \notin todo[s]

ResumedRuns == \A s \in Schedulers : pc[s] = "run" => row[exe[s]].st = "running"

DueIfWaiting ==
    \A s \in Schedulers : \A e \in Executions :
       e \in todo[s] \/ (exe[s] = e /\ pc[s] \in {"reload", "refetch", "move"})
          => (row[e].st = "waiting" => row[e].due = TRUE)

Owned == TriggerRuns /\ ResumedRuns /\ DueIfWaiting

\* In workflows without a loop, nothing was sent for the nodes in S.
Fresh(e, S) == LoopFree => \A m \in S : mail[e][m] = 0

\* The email nodes in S are done with.
Passed(e, S) ==
    \A m \in S : graph.kind[m] = "email" => mail[e][m] > 0 \/ <<e, m>> \in unaddressed

\* The nodes an execution has behind it when it is about to run n.
Before(n) == Way(graph, graph.first) \ Way(graph, n)

\* About to run n: what comes is unsent, what was is done with.
At(e, n) == Fresh(e, Way(graph, n)) /\ Passed(e, Before(n))

OnTheWay(n, kinds) == n \in Way(graph, graph.first) /\ graph.kind[n] \in kinds

\* Whoever runs an execution is at one node of the way; whoever moves on leaves an
\* email or a delay node behind ...
ActorOnCourse(a) ==
    /\ pc[a] \in {"create", "lock"} => node[a] \in {graph.first, NoNode}
    /\ pc[a] = "lock" => Fresh(exe[a], Nodes)
    /\ pc[a] = "run" => /\ At(exe[a], node[a])
                        /\ node[a] \in Nodes => node[a] \in Way(graph, graph.first)
    /\ pc[a] = "move" => /\ At(exe[a], Onward(graph, node[a]))
                         /\ OnTheWay(node[a], {"email", "delay"})

\* ... a row waits at a delay node of the way, and is completed at its end.
RowOnCourse(e) ==
    /\ LoopFree => \A n \in Nodes : mail[e][n] <= 1
    /\ row[e].st = "none" => Fresh(e, Nodes)
    /\ row[e].st = "waiting" => /\ At(e, Onward(graph, row[e].node))
                                /\ OnTheWay(row[e].node, {"delay"})
    /\ row[e].st = "completed" => Passed(e, Way(graph, graph.first)) /\ Ends(graph)

OnCourse ==
    /\ \A a \in Actors : ActorOnCourse(a)
    /\ \A e \in Executions : RowOnCourse(e)

-----------------------------------------------------------------------------
(***************************************************************************)
(* Operators                                                               *)
(***************************************************************************)
\* A caller that is told of success did succeed, and a call costs one fault at
\* most.
LEMMA CallFacts ==
    ASSUME NEW effect \in BOOLEAN, NEW told \in BOOLEAN, faults \in 0 .. MaxFaults,
           CallEnds(effect, told)
    PROVE  faults' \in 0 .. MaxFaults /\ (told => effect)
  <1>1. CASE Calm
    BY <1>1, Zenon DEF CallEnds, Calm
  <1>2. CASE faults > 0 /\ faults' = faults - 1
    <2>1. faults' \in 0 .. MaxFaults
      BY <1>2, LimitsAssumption
    <2>2. told => effect
      BY Zenon DEF CallEnds
    <2> QED
      BY <2>1, <2>2
  <1> QED
    BY <1>1, <1>2, Zenon DEF CallEnds, Fault

\* A fault that happens leaves one less.
LEMMA FaultFacts ==
    ASSUME faults \in 0 .. MaxFaults, NEW kind, Calm \/ Fault(kind)
    PROVE  faults' \in 0 .. MaxFaults
  BY LimitsAssumption DEF Calm, Fault

Rows == [st : RowStates, node : Places, due : BOOLEAN]

\* The statements on workflow_executions make rows of rows (client.go:998-1075).
LEMMA RowFacts ==
    ASSUME NEW r \in Rows, NEW n \in Places
    PROVE  /\ Created(r) \in Rows /\ Created(r).st = "running" /\ Created(r).node = r.node
           /\ Advanced(r, n) \in Rows /\ Advanced(r, n).st = "running" /\ Advanced(r, n).node = n
           /\ Delayed(r, n) \in Rows /\ Delayed(r, n).st = "waiting" /\ Delayed(r, n).node = n
           /\ Completed(r) \in Rows /\ Completed(r).st = "completed"
           /\ Failed(r) \in Rows /\ Failed(r).st = "failed"
  <1> USE DEF Rows, RowStates
  <1>1. Created(r) \in Rows /\ Created(r).st = "running" /\ Created(r).node = r.node
    BY DEF Created
  <1>2. Advanced(r, n) \in Rows /\ Advanced(r, n).st = "running" /\ Advanced(r, n).node = n
    BY DEF Advanced
  <1>3. Delayed(r, n) \in Rows /\ Delayed(r, n).st = "waiting" /\ Delayed(r, n).node = n
    BY DEF Delayed
  <1>4. Completed(r) \in Rows /\ Completed(r).st = "completed"
    BY DEF Completed
  <1>5. Failed(r) \in Rows /\ Failed(r).st = "failed"
    BY DEF Failed
  <1> QED
    BY <1>1, <1>2, <1>3, <1>4, <1>5

\* An answer and a redelivery keep the count, and put back only a message that
\* may be delivered once more.
LEMMA MessageFacts ==
    ASSUME NEW m \in Msgs, m.st = "queued" => m.n < MaxAttempts, NEW v \in Verdicts
    PROVE  /\ Answered(m, v, MaxAttempts) \in Msgs
           /\ Answered(m, v, MaxAttempts).st = "queued" =>
                Answered(m, v, MaxAttempts).n < MaxAttempts
           /\ Requeued(m, MaxAttempts) \in Msgs
           /\ Requeued(m, MaxAttempts).st = "queued" => Requeued(m, MaxAttempts).n < MaxAttempts
  <1>1. /\ Requeued(m, MaxAttempts) \in Msgs
        /\ Requeued(m, MaxAttempts).st = "queued" => Requeued(m, MaxAttempts).n < MaxAttempts
    BY DEF Requeued, Msgs, MsgStates
  <1>2. \A st \in {"acked", "termed"} :
           Ended(m, st) \in Msgs /\ (Ended(m, st).st = "queued" => Ended(m, st).n < MaxAttempts)
    BY DEF Ended, Msgs, MsgStates
  <1>3. CASE v = "ack"
    BY <1>1, <1>2, <1>3 DEF Answered
  <1>4. CASE v = "term"
    BY <1>1, <1>2, <1>4 DEF Answered
  <1>5. CASE v = "nak"
    BY <1>1, <1>5 DEF Answered
  <1> QED
    BY <1>3, <1>4, <1>5 DEF Verdicts

\* The way from a node is that node and the way from the next one.
LEMMA WayFacts ==
    ASSUME NEW g, NEW n \in Nodes
    PROVE  /\ Way(g, n) = {n} \cup Way(g, Onward(g, n))
           /\ Way(g, n) \subseteq Nodes
  <1> DEFINE next == Onward(g, n)
  <1>1. n \in Way(g, n)
    BY DEF Way
  <1>2. Way(g, next) \subseteq Way(g, n)
    BY DEF Way, Followed
  <1>3. Followed(g, {n} \cup Way(g, next))
    BY DEF Way, Followed
  <1>4. {n} \cup Way(g, next) \in SUBSET Nodes
    BY DEF Way
  <1>5. Way(g, n) \subseteq {n} \cup Way(g, next)
    BY <1>3, <1>4 DEF Way
  <1> QED
    BY <1>1, <1>2, <1>4, <1>5

\* There is no way from where no node is.
LEMMA NoWay == ASSUME NEW g, NEW n, n \notin Nodes PROVE Way(g, n) = {}
  <1>1. Followed(g, {})
    BY DEF Followed
  <1> QED
    BY <1>1 DEF Way

-----------------------------------------------------------------------------
(***************************************************************************)
(* Types                                                                   *)
(***************************************************************************)
\* An actor goes on at p; whether it answers, and what, is a verdict.
Goes(a, p) ==
    /\ pc' = [pc EXCEPT ![a] = p]
    /\ job' = job /\ attempt' = attempt
    /\ verdict' \in [Workers -> Verdicts]

\* How an actor goes on, and which verdicts a worker answers with.
LEMMA GotoFacts ==
    ASSUME Typed
    PROVE  /\ \A a \in Actors : \A p : Goto(a, p) => Goes(a, p)
           /\ \A w \in Workers : \A v \in Verdicts : Answer(w, v) => Goes(w, "answer")
           /\ \A w \in Workers : RetryVerdict(w) \in Verdicts
  <1> USE DEF Typed, TypeOK, Goes, Verdicts
  <1>1. \A a \in Actors : \A p : Goto(a, p) => Goes(a, p)
    BY DEF Goto, locals
  <1>2. \A w \in Workers : \A v \in Verdicts : Answer(w, v) => Goes(w, "answer")
    BY DEF Answer
  <1>3. \A w \in Workers : RetryVerdict(w) \in Verdicts
    BY DEF RetryVerdict
  <1> QED
    BY <1>1, <1>2, <1>3

\* A worker that is done has nothing at hand.
LEMMA ToIdleFacts ==
    ASSUME Typed, NEW w \in Workers, ToIdle(w)
    PROVE  /\ pc' = [pc EXCEPT ![w] = "idle"]
           /\ job' = [job EXCEPT ![w] = Nobody]
           /\ attempt' \in [Workers -> 0 .. MaxAttempts]
           /\ verdict' \in [Workers -> Verdicts]
  BY LimitsAssumption DEF ToIdle, Typed, TypeOK, Verdicts

\* A statement on the row happens or not; the actor goes on only when it did.
Wrote(a, new, last, p) ==
    /\ Goes(a, p)
    /\ row' \in {row, [row EXCEPT ![exe[a]] = new]}
    /\ p # "fail" => row' = [row EXCEPT ![exe[a]] = new]
    /\ IF p = "run" THEN node' = [node EXCEPT ![a] = new.node] ELSE node' = node
    /\ p \in IF last THEN {"fail", IF a \in Workers THEN "answer" ELSE "unlock"}
             ELSE {"fail", "run"}
    /\ faults' \in 0 .. MaxFaults

\* A statement of the executor either gives the run up, or goes on as it should
\* (executor.go:87-123).
LEMMA WriteRowFacts ==
    ASSUME Typed, NEW a \in Actors, NEW new, NEW last \in BOOLEAN, WriteRow(a, new, last)
    PROVE  \E p \in PCs : Wrote(a, new, last, p)
  <1>1. PICK effect \in BOOLEAN, told \in BOOLEAN :
           /\ CallEnds(effect, told)
           /\ row' = IF effect THEN [row EXCEPT ![exe[a]] = new] ELSE row
           /\ CASE ~told -> GiveUp(a) /\ UNCHANGED node
                [] told /\ last -> Finish(a) /\ UNCHANGED node
                [] told /\ ~last -> Goto(a, "run") /\ node' = [node EXCEPT ![a] = new.node]
    BY Zenon DEF WriteRow
  <1>2. faults' \in 0 .. MaxFaults /\ (told => effect)
    BY <1>1, CallFacts DEF Typed, TypeOK
  <1>3. row' \in {row, [row EXCEPT ![exe[a]] = new]} /\ (told => row' = [row EXCEPT ![exe[a]] = new])
    BY <1>1, <1>2, Zenon
  <1>4. CASE ~told
    <2>1. Goes(a, "fail") /\ node' = node
      BY <1>1, <1>4, GotoFacts, Zenon DEF GiveUp
    <2>2. Wrote(a, new, last, "fail")
      BY <1>2, <1>3, <2>1, Zenon DEF Wrote
    <2> QED
      BY <2>2 DEF PCs
  <1>5. CASE told /\ last
    <2> DEFINE p == IF a \in Workers THEN "answer" ELSE "unlock"
    <2>1. Finish(a) /\ node' = node
      BY <1>1, <1>5, Zenon
    <2>2. Goes(a, p)
      <3>1. CASE a \in Workers
        BY <2>1, <3>1, GotoFacts, Zenon DEF Finish, Verdicts
      <3>2. CASE a \notin Workers
        BY <2>1, <3>2, GotoFacts, Zenon DEF Finish
      <3> QED
        BY <3>1, <3>2
    <2>3. p # "run" /\ p # "fail" /\ p \in PCs
      BY DEF PCs
    <2>4. Wrote(a, new, last, p)
      BY <1>2, <1>3, <1>5, <2>1, <2>2, <2>3, Zenon DEF Wrote
    <2> QED
      BY <2>3, <2>4
  <1>6. CASE told /\ ~last
    <2>1. Goes(a, "run") /\ node' = [node EXCEPT ![a] = new.node]
      BY <1>1, <1>6, GotoFacts, Zenon
    <2>2. "run" # "fail" /\ "run" \in PCs
      BY DEF PCs
    <2>3. Wrote(a, new, last, "run")
      BY <1>2, <1>3, <1>6, <2>1, <2>2, Zenon DEF Wrote
    <2> QED
      BY <2>2, <2>3
  <1> QED
    BY <1>4, <1>5, <1>6

\* What an executor's writes write: the next node, the end, or the delay.
Moved(a) == IF graph.next[node[a]] = NoNode THEN Completed(row[exe[a]])
            ELSE Advanced(row[exe[a]], graph.next[node[a]])

\* The three steps of a run that write its row.
LEMMA WritesFacts ==
    ASSUME Typed, NEW a \in Actors, MoveOn(a) \/ ScheduleDelay(a) \/ CompleteExecution(a)
    PROVE  /\ exe[a] \in Executions /\ node[a] \in Nodes
           /\ \E p \in PCs :
                \/ MoveOn(a) /\ Wrote(a, Moved(a), graph.next[node[a]] = NoNode, p)
                \/ ScheduleDelay(a) /\ Wrote(a, Delayed(row[exe[a]], node[a]), TRUE, p)
                \/ CompleteExecution(a) /\ Wrote(a, Completed(row[exe[a]]), TRUE, p)
           /\ UNCHANGED <<msg, outside, stream, execLock, pollLock, exe, todo>>
           /\ Moved(a) \in Rows /\ Delayed(row[exe[a]], node[a]) \in Rows
           /\ Completed(row[exe[a]]) \in Rows
  <1>1. exe[a] \in Executions /\ node[a] \in Nodes
    BY DEF MoveOn, ScheduleDelay, CompleteExecution, Runs, Typed, Placed, Engaged
  <1>2. row[exe[a]] \in Rows
    BY <1>1 DEF Typed, TypeOK, Rows
  <1>3. graph.next[node[a]] \in Places /\ node[a] \in Places
    BY <1>1 DEF Typed, TypeOK, Places
  <1>4. /\ Moved(a) \in Rows /\ Delayed(row[exe[a]], node[a]) \in Rows
        /\ Completed(row[exe[a]]) \in Rows
    BY <1>2, <1>3, RowFacts, Zenon DEF Moved
  <1>5. UNCHANGED <<msg, outside, stream, execLock, pollLock, exe, todo>>
    BY Zenon DEF MoveOn, ScheduleDelay, CompleteExecution
  <1>6. CASE MoveOn(a)
    <2> DEFINE last == graph.next[node[a]] = NoNode
    <2>1. WriteRow(a, Moved(a), last)
      BY <1>6, Zenon DEF MoveOn, Moved
    <2>2. last \in BOOLEAN
      OBVIOUS
    <2> HIDE DEF last
    <2>3. \E p \in PCs : Wrote(a, Moved(a), last, p)
      BY <2>1, <2>2, WriteRowFacts
    <2> QED
      BY <1>1, <1>4, <1>5, <1>6, <2>3, Zenon DEF last
  <1>7. CASE ScheduleDelay(a)
    <2>1. WriteRow(a, Delayed(row[exe[a]], node[a]), TRUE)
      BY <1>7, Zenon DEF ScheduleDelay
    <2>2. \E p \in PCs : Wrote(a, Delayed(row[exe[a]], node[a]), TRUE, p)
      BY <2>1, WriteRowFacts
    <2> QED
      BY <1>1, <1>4, <1>5, <1>7, <2>2, Zenon
  <1>8. CASE CompleteExecution(a)
    <2>1. WriteRow(a, Completed(row[exe[a]]), TRUE)
      BY <1>8, Zenon DEF CompleteExecution
    <2>2. \E p \in PCs : Wrote(a, Completed(row[exe[a]]), TRUE, p)
      BY <2>1, WriteRowFacts
    <2> QED
      BY <1>1, <1>4, <1>5, <1>8, <2>2, Zenon
  <1> QED
    BY <1>6, <1>7, <1>8

\* The initial state is well-typed.
LEMMA TypedInit == Init => Typed
  <1> SUFFICES ASSUME Init PROVE Typed
    OBVIOUS
  <1>1. msg \in [Triggers -> Msgs] /\ \A t \in Triggers : msg[t].st = "queued" => msg[t].n < MaxAttempts
    BY LimitsAssumption DEF Init, NewMsg, Msgs, MsgStates
  <1>2. row \in [Executions -> [st : RowStates, node : Places, due : BOOLEAN]]
    BY DEF Init, RowStates, Places
  <1>3. /\ pc \in [Actors -> PCs] /\ \A a \in Actors : pc[a] = "idle"
        /\ exe \in [Actors -> Executions \cup {Nobody}] /\ \A a \in Actors : exe[a] = Nobody
        /\ todo \in [Schedulers -> SUBSET Executions] /\ \A s \in Schedulers : todo[s] = {}
        /\ node \in [Actors -> Places]
    BY DEF Init, PCs, Places
  <1>4. /\ job \in [Workers -> Triggers \cup {Nobody}] /\ attempt \in [Workers -> 0 .. MaxAttempts]
        /\ verdict \in [Workers -> Verdicts] /\ faults \in 0 .. MaxFaults
    BY LimitsAssumption DEF Init, Verdicts
  <1>5. /\ mail \in [Executions -> [Nodes -> Nat]]
        /\ execLock \in [Executions -> {NoLock, "trigger", "scheduler-resume"}]
        /\ pollLock \in {NoLock, "scheduler"} /\ unaddressed \subseteq Executions \X Nodes
        /\ workflow \in {"missing", "draft", "published", "unparsable"}
        /\ graph \in Graphs /\ contact \in BOOLEAN
    BY DEF Init
  <1>6. TypeOK
    BY <1>1, <1>2, <1>3, <1>4, <1>5 DEF TypeOK
  <1>7. Placed
    BY <1>1, <1>3 DEF Placed, WorkerPCs, SchedulerPCs, Engaged, Actors
  <1> QED
    BY <1>6, <1>7 DEF Typed

\* A release, or the loss of it, leaves a lock a lock.
LEMMA FreedFacts ==
    ASSUME Typed, NEW e \in Executions, NEW value, Freed(e, value)
    PROVE  /\ execLock' \in [Executions -> {NoLock, "trigger", "scheduler-resume"}]
           /\ \A d \in Executions \ {e} : execLock'[d] = execLock[d]
           /\ execLock'[e] \in {execLock[e], NoLock}
           /\ execLock[e] # value => execLock'[e] = execLock[e]
           /\ faults' \in 0 .. MaxFaults
  <1>1. PICK effect \in BOOLEAN, told \in BOOLEAN :
           /\ CallEnds(effect, told)
           /\ execLock' = IF effect THEN [execLock EXCEPT ![e] = Released(@, value)] ELSE execLock
    BY Zenon DEF Freed
  <1>2. faults' \in 0 .. MaxFaults
    BY <1>1, CallFacts DEF Typed, TypeOK
  <1>3. execLock' \in {execLock, [execLock EXCEPT ![e] = Released(@, value)]}
    BY <1>1, Zenon
  <1> QED
    BY <1>2, <1>3 DEF Released, Typed, TypeOK

\* The steps of the trigger consumer keep the types.
LEMMA TypedTrigger ==
    ASSUME Typed, NEW w \in Workers, WorkTrigger(w) \/ \E t \in Triggers : Receive(w, t)
    PROVE  Typed'
  <1> USE DEF Typed, TypeOK, Placed, Actors, WorkerPCs, Engaged, Verdicts, PCs
  <1>w. w \in Actors /\ w \notin Schedulers
    BY ActorsAssumption
  <1>1. ASSUME NEW t \in Triggers, Receive(w, t) PROVE Typed'
    <2>1. msg[t].n + 1 \in 0 .. MaxAttempts
      BY <1>1, LimitsAssumption DEF Receive, Deliverable, Msgs
    <2>2. Delivered(msg[t]) \in Msgs /\ Delivered(msg[t]).st = "pending"
      BY DeliveredFacts
    <2>3. /\ pc' \in [Actors -> PCs] /\ pc'[w] \in {"load", "answer"} /\ job'[w] = t
          /\ \A a \in Actors \ {w} : pc'[a] = pc[a]
          /\ \A v \in Workers \ {w} : job'[v] = job[v]
          /\ job' \in [Workers -> Triggers \cup {Nobody}]
      BY <1>1, <1>w DEF Receive
    <2>4. attempt' \in [Workers -> 0 .. MaxAttempts] /\ verdict' \in [Workers -> Verdicts]
      BY <1>1, <2>1 DEF Receive
    <2>5. /\ msg' \in [Triggers -> Msgs]
          /\ \A u \in Triggers : msg'[u].st = "queued" => msg'[u].n < MaxAttempts
      BY <1>1, <2>2 DEF Receive
    <2>6. UNCHANGED <<outside, row, stream, execLock, pollLock, exe, node, todo, faults>>
      BY <1>1, Zenon DEF Receive
    <2>7. exe[w] = Nobody
      BY <1>1 DEF Receive
    <2>8. TypeOK'
      BY <2>3, <2>4, <2>5, <2>6, Zenon DEF outside, stream
    <2>9. Placed'
      BY <2>3, <2>5, <2>6, <2>7, <1>w
    <2> QED
      BY <2>8, <2>9
  <1>2. CASE LoadWorkflow(w)
    <2>1. /\ job[w] \in Triggers /\ exe[w] = Nobody
          /\ UNCHANGED <<msg, outside, row, stream, execLock, pollLock, exe, todo>>
      BY <1>2 DEF LoadWorkflow
    <2>2. faults' \in 0 .. MaxFaults
      BY <1>2, FaultFacts DEF LoadWorkflow
    <2>3. node' \in [Actors -> Places]
      <3>1. graph.first \in Places /\ NoNode \in Places
        BY GraphAssumption DEF Places
      <3> QED
        BY <1>2, <3>1, <1>w DEF LoadWorkflow
    <2>4. Goes(w, "answer") \/ Goes(w, "create")
      <3>1. Goto(w, "create") \/ \E v \in Verdicts : Answer(w, v)
        BY <1>2, GotoFacts DEF LoadWorkflow
      <3> QED
        BY <3>1, <1>w, GotoFacts
    <2>5. TypeOK'
      BY <2>1, <2>2, <2>3, <2>4 DEF Goes, outside, stream
    <2>6. Placed'
      BY <2>1, <2>4, <1>w DEF Goes
    <2> QED
      BY <2>5, <2>6
  <1>3. CASE CreateExecution(w)
    <2> DEFINE e == KeyOf[job[w]]
    <2>1. job[w] \in Triggers /\ exe[w] = Nobody /\ e \in Executions
      BY <1>3, KeysAssumption DEF CreateExecution
    <2>2. PICK effect \in BOOLEAN, told \in BOOLEAN :
          /\ CallEnds(effect, told)
          /\ row' = IF effect /\ IsNew(row[e]) THEN [row EXCEPT ![e] = Created(@)] ELSE row
          /\ exe' = IF told /\ IsNew(row[e]) THEN [exe EXCEPT ![w] = e] ELSE exe
          /\ CASE ~told -> Answer(w, RetryVerdict(w))
               [] told /\ IsNew(row[e]) -> Goto(w, "lock")
               [] told /\ ~IsNew(row[e]) -> Answer(w, "ack")
      BY <1>3, Zenon DEF CreateExecution
    <2>3. faults' \in 0 .. MaxFaults
      BY <2>2, CallFacts
    <2>4. Created(row[e]) \in Rows
      <3>1. row[e] \in Rows /\ NoNode \in Places
        BY <2>1 DEF Rows, Places
      <3> QED
        BY <3>1, RowFacts, Zenon
    <2>5. row' \in [Executions -> [st : RowStates, node : Places, due : BOOLEAN]]
      BY <2>1, <2>2, <2>4 DEF Rows
    <2>6. \/ Goes(w, "answer") /\ exe' = exe
          \/ Goes(w, "lock") /\ exe' = [exe EXCEPT ![w] = e]
      BY <2>2, <1>w, GotoFacts
    <2>7. UNCHANGED <<msg, outside, stream, execLock, pollLock, node, todo>>
      BY <1>3, Zenon DEF CreateExecution
    <2> HIDE DEF e
    <2>a. /\ exe' \in [Actors -> Executions \cup {Nobody}]
          /\ pc' \in [Actors -> PCs] /\ verdict' \in [Workers -> Verdicts]
          /\ job' = job /\ attempt' = attempt
      <3>1. exe' \in [Actors -> Executions \cup {Nobody}]
        BY <2>1, <2>6
      <3>2. Goes(w, "answer") \/ Goes(w, "lock")
        BY <2>6, Zenon
      <3>3. pc' \in [Actors -> PCs] /\ verdict' \in [Workers -> Verdicts] /\ job' = job /\ attempt' = attempt
        <4>1. PICK p \in PCs : Goes(w, p)
          BY <3>2, Zenon
        <4> QED
          BY <4>1 DEF Goes
      <3> QED
        BY <3>1, <3>3, Zenon
    <2>8. TypeOK'
      BY <2>3, <2>5, <2>7, <2>a, Zenon DEF outside, stream
    <2>9. Placed'
      BY <2>1, <2>6, <2>7, <1>w DEF Goes
    <2> QED
      BY <2>8, <2>9
  <1>4. CASE AcquireLock(w)
    <2> DEFINE e == exe[w] free == Free(execLock[e])
    <2>1. e \in Executions /\ job[w] \in Triggers
      BY <1>4, <1>w DEF AcquireLock
    <2>2. PICK effect \in BOOLEAN, told \in BOOLEAN :
          /\ CallEnds(effect, told)
          /\ execLock' = IF effect /\ free THEN [execLock EXCEPT ![e] = "trigger"] ELSE execLock
          /\ exe' = IF told /\ free THEN exe ELSE [exe EXCEPT ![w] = Nobody]
          /\ CASE ~told -> Answer(w, RetryVerdict(w))
               [] told /\ ~free -> Answer(w, "ack")
               [] told /\ free -> Goto(w, IF node[w] = NoNode THEN "fail" ELSE "run")
      BY <1>4, Zenon DEF AcquireLock
    <2>3. faults' \in 0 .. MaxFaults
      BY <2>2, CallFacts
    <2>4. execLock' \in [Executions -> {NoLock, "trigger", "scheduler-resume"}]
      BY <2>1, <2>2
    <2>5. \/ Goes(w, "answer") /\ exe' = [exe EXCEPT ![w] = Nobody]
          \/ (Goes(w, "fail") \/ Goes(w, "run")) /\ exe' = exe
      BY <2>2, <1>w, GotoFacts
    <2>6. UNCHANGED <<msg, outside, row, stream, pollLock, node, todo>>
      BY <1>4, Zenon DEF AcquireLock
    <2>7. TypeOK'
      <3>1. exe' \in [Actors -> Executions \cup {Nobody}]
        BY <2>5
      <3>2. Goes(w, "answer") \/ Goes(w, "fail") \/ Goes(w, "run")
        BY <2>5, Zenon
      <3>3. pc' \in [Actors -> PCs] /\ verdict' \in [Workers -> Verdicts] /\ UNCHANGED <<job, attempt>>
        BY <3>2 DEF Goes
      <3> QED
        BY <2>3, <2>4, <2>6, <3>1, <3>3, Zenon DEF outside, stream
    <2>8. CASE Goes(w, "answer") /\ exe' = [exe EXCEPT ![w] = Nobody]
      <3>1. Placed'
        BY <2>1, <2>6, <2>8, <1>w DEF Goes
      <3> QED
        BY <2>7, <3>1
    <2>9. CASE (Goes(w, "fail") \/ Goes(w, "run")) /\ exe' = exe
      <3>1. Placed'
        BY <2>1, <2>6, <2>9, <1>w DEF Goes
      <3> QED
        BY <2>7, <3>1
    <2> QED
      BY <2>5, <2>8, <2>9
  <1>5. CASE AnswerMessage(w)
    <2>1. job[w] \in Triggers
      BY <1>5 DEF AnswerMessage
    <2>2. faults' \in 0 .. MaxFaults
      BY <1>5, FaultFacts DEF AnswerMessage
    <2>3. msg' \in {msg, [msg EXCEPT ![job[w]] = Answered(@, verdict[w], MaxAttempts)]}
      BY <1>5 DEF AnswerMessage
    <2>4. /\ msg' \in [Triggers -> Msgs]
          /\ \A t \in Triggers : msg'[t].st = "queued" => msg'[t].n < MaxAttempts
      <3> DEFINE m == Answered(msg[job[w]], verdict[w], MaxAttempts)
      <3>1. m \in Msgs /\ (m.st = "queued" => m.n < MaxAttempts)
        BY <2>1, MessageFacts
      <3>2. CASE msg' = [msg EXCEPT ![job[w]] = m]
        <4> HIDE DEF m
        <4> QED
          BY <2>1, <3>1, <3>2
      <3>3. CASE msg' = msg
        BY <3>3
      <3> QED
        BY <2>3, <3>2, <3>3
    <2>5. node' = [node EXCEPT ![w] = NoNode] /\ NoNode \in Places
      BY <1>5 DEF AnswerMessage, Places
    <2>6. UNCHANGED <<outside, row, stream, execLock, pollLock, exe, todo>>
      BY <1>5, Zenon DEF AnswerMessage
    <2>7. CASE exe[w] = Nobody /\ ToIdle(w)
      <3>1. TypeOK'
        <4>1. /\ pc' \in [Actors -> PCs] /\ job' \in [Workers -> Triggers \cup {Nobody}]
              /\ attempt' \in [Workers -> 0 .. MaxAttempts] /\ verdict' \in [Workers -> Verdicts]
          <5>1. /\ pc' = [pc EXCEPT ![w] = "idle"] /\ job' = [job EXCEPT ![w] = Nobody]
                /\ attempt' \in [Workers -> 0 .. MaxAttempts] /\ verdict' \in [Workers -> Verdicts]
            BY <2>7, ToIdleFacts, Zenon
          <5>2. pc' \in [Actors -> PCs] /\ job' \in [Workers -> Triggers \cup {Nobody}]
            BY <5>1
          <5> QED
            BY <5>1, <5>2, Zenon
        <4>2. node' \in [Actors -> Places]
          BY <2>5
        <4> QED
          BY <2>2, <2>4, <2>6, <4>1, <4>2, Zenon DEF outside, stream
      <3>2. Placed'
        BY <2>4, <2>6, <2>7, <1>w, ToIdleFacts
      <3> QED
        BY <3>1, <3>2
    <2>8. CASE exe[w] \in Executions /\ Goes(w, "release")
      <3>1. TypeOK'
        BY <2>2, <2>4, <2>5, <2>6, <2>8 DEF Goes, outside, stream
      <3>2. Placed'
        BY <2>1, <2>4, <2>6, <2>8, <1>w DEF Goes
      <3> QED
        BY <3>1, <3>2
    <2> QED
      BY <1>5, <2>7, <2>8, <1>w, GotoFacts DEF AnswerMessage
  <1>6. CASE ReleaseLock(w)
    <2>1. exe[w] \in Executions /\ Freed(exe[w], "trigger") /\ ToIdle(w)
      BY <1>6, <1>w DEF ReleaseLock
    <2>2. /\ exe' = [exe EXCEPT ![w] = Nobody]
          /\ UNCHANGED <<msg, outside, row, stream, pollLock, node, todo>>
      BY <1>6, Zenon DEF ReleaseLock
    <2>3. /\ faults' \in 0 .. MaxFaults
          /\ execLock' \in [Executions -> {NoLock, "trigger", "scheduler-resume"}]
      BY <2>1, FreedFacts
    <2>4. TypeOK'
      <3>1. /\ pc' \in [Actors -> PCs] /\ job' \in [Workers -> Triggers \cup {Nobody}]
            /\ attempt' \in [Workers -> 0 .. MaxAttempts] /\ verdict' \in [Workers -> Verdicts]
        <4>1. /\ pc' = [pc EXCEPT ![w] = "idle"] /\ job' = [job EXCEPT ![w] = Nobody]
              /\ attempt' \in [Workers -> 0 .. MaxAttempts] /\ verdict' \in [Workers -> Verdicts]
          BY <2>1, ToIdleFacts, Zenon
        <4>2. pc' \in [Actors -> PCs] /\ job' \in [Workers -> Triggers \cup {Nobody}]
          BY <4>1
        <4> QED
          BY <4>1, <4>2, Zenon
      <3>2. exe' \in [Actors -> Executions \cup {Nobody}]
        BY <2>2
      <3> QED
        BY <2>2, <2>3, <3>1, <3>2, Zenon DEF outside, stream
    <2>5. Placed'
      BY <2>1, <2>2, <1>w, ToIdleFacts
    <2> QED
      BY <2>4, <2>5
  <1> QED
    BY <1>1, <1>2, <1>3, <1>4, <1>5, <1>6 DEF WorkTrigger

\* The steps of the executor keep the types, and a crash does.
LEMMA TypedExecute ==
    ASSUME Typed, NEW a \in Actors, Execute(a) \/ Crash(a)
    PROVE  Typed'
  <1> USE DEF Typed, TypeOK, Placed
  <1>w. a \in Workers \/ a \in Schedulers
    BY DEF Actors
  <1>x. \A w \in Workers : w \in Actors /\ w \notin Schedulers
    BY ActorsAssumption DEF Actors
  <1>y. \A s \in Schedulers : s \in Actors /\ s \notin Workers
    BY ActorsAssumption DEF Actors
  <1>1. CASE MoveOn(a) \/ ScheduleDelay(a) \/ CompleteExecution(a)
    <2>1. /\ exe[a] \in Executions
          /\ UNCHANGED <<msg, outside, stream, execLock, pollLock, exe, todo>>
      BY <1>1, WritesFacts
    <2>2. PICK new \in Rows, last \in BOOLEAN, p \in PCs : Wrote(a, new, last, p)
      <3> DEFINE ends == graph.next[node[a]] = NoNode
      <3>1. ends \in BOOLEAN /\ TRUE \in BOOLEAN
        OBVIOUS
      <3> HIDE DEF ends
      <3>2. PICK p \in PCs : \/ Wrote(a, Moved(a), ends, p)
                             \/ Wrote(a, Delayed(row[exe[a]], node[a]), TRUE, p)
                             \/ Wrote(a, Completed(row[exe[a]]), TRUE, p)
        BY <1>1, WritesFacts, Zenon DEF ends
      <3> QED
        BY <1>1, <3>1, <3>2, WritesFacts, Zenon
    <2>3. row' \in [Executions -> [st : RowStates, node : Places, due : BOOLEAN]]
      BY <2>1, <2>2 DEF Wrote, Rows
    <2>4. node' \in [Actors -> Places]
      <3>1. new.node \in Places
        BY DEF Rows
      <3> QED
        BY <2>2, <3>1 DEF Wrote
    <2>5. Goes(a, p) /\ faults' \in 0 .. MaxFaults
      BY <2>2, Zenon DEF Wrote
    <2>6. TypeOK'
      BY <2>1, <2>3, <2>4, <2>5 DEF Goes, outside, stream
    <2>7. p \in {"fail", "run", IF a \in Workers THEN "answer" ELSE "unlock"}
      BY <2>2 DEF Wrote
    <2>8. pc[a] \in {"run", "move"}
      BY <1>1 DEF MoveOn, ScheduleDelay, CompleteExecution, Runs
    <2>9. Placed'
      BY <2>1, <2>5, <2>7, <2>8, <1>w, <1>x, <1>y
         DEF Goes, Actors, WorkerPCs, SchedulerPCs, Engaged
    <2> QED
      BY <2>6, <2>9
  <1>2. ASSUME NEW p \in {"fail", "move"}, Goes(a, p), pc[a] \in {"run", "move"},
               UNCHANGED <<msg, outside, row, execLock, pollLock, exe, node, todo>>,
               mail' \in [Executions -> [Nodes -> Nat]],
               unaddressed' \subseteq Executions \X Nodes,
               faults' \in 0 .. MaxFaults
        PROVE  Typed'
    <2>1. TypeOK'
      BY <1>2 DEF Goes, outside, PCs
    <2>2. exe[a] \in Executions
      BY <1>2 DEF Engaged
    <2>3. Placed'
      BY <1>2, <2>2, <1>w, <1>x, <1>y DEF Goes, Actors, WorkerPCs, SchedulerPCs, Engaged
    <2> QED
      BY <2>1, <2>3
  <1>3. CASE SkipEmail(a)
    <2>1. Goes(a, "move") \/ Goes(a, "fail")
      BY <1>3, GotoFacts DEF SkipEmail, GiveUp
    <2>2. exe[a] \in Executions /\ node[a] \in Nodes /\ pc[a] \in {"run", "move"}
      BY <1>3 DEF SkipEmail, Runs, Engaged
    <2>3. /\ unaddressed' \subseteq Executions \X Nodes
          /\ mail' \in [Executions -> [Nodes -> Nat]] /\ faults' \in 0 .. MaxFaults
          /\ UNCHANGED <<msg, outside, row, execLock, pollLock, exe, node, todo>>
      <3>1. Calm \/ Fault("refused")
        BY <1>3, Zenon DEF SkipEmail
      <3>2. faults' \in 0 .. MaxFaults
        BY <3>1, FaultFacts DEF Typed, TypeOK
      <3>3. unaddressed' = unaddressed \/ unaddressed' = unaddressed \cup {<<exe[a], node[a]>>}
        BY <1>3, Zenon DEF SkipEmail
      <3>4. unaddressed' \subseteq Executions \X Nodes
        BY <2>2, <3>3 DEF Typed, TypeOK
      <3>5. /\ mail' = mail
            /\ UNCHANGED <<msg, outside, row, execLock, pollLock, exe, node, todo>>
        BY <1>3, Zenon DEF SkipEmail
      <3> QED
        BY <3>2, <3>4, <3>5 DEF Typed, TypeOK
    <2> QED
      BY <1>2, <2>1, <2>2, <2>3
  <1>4. CASE PublishEmail(a)
    <2>1. PICK effect \in BOOLEAN, told \in BOOLEAN, stored \in BOOLEAN :
             /\ CallEnds(effect, told)
             /\ mail' = IF stored THEN [mail EXCEPT ![exe[a]][node[a]] = @ + 1] ELSE mail
             /\ AfterPublish(a, told)
      BY <1>4, Zenon DEF PublishEmail
    <2>2. exe[a] \in Executions /\ node[a] \in Nodes /\ pc[a] \in {"run", "move"}
      BY <1>4 DEF PublishEmail, Runs, Engaged
    <2>3. Goes(a, "move") \/ Goes(a, "fail")
      BY <2>1, GotoFacts, Zenon DEF AfterPublish, GiveUp
    <2>4. faults' \in 0 .. MaxFaults
      BY <2>1, CallFacts
    <2>5. mail' \in [Executions -> [Nodes -> Nat]]
      <3>1. [mail EXCEPT ![exe[a]][node[a]] = @ + 1] \in [Executions -> [Nodes -> Nat]]
        BY <2>2
      <3> QED
        BY <2>1, <3>1, Zenon
    <2>6. UNCHANGED <<msg, outside, row, execLock, pollLock, exe, node, todo, unaddressed>>
      BY <1>4, Zenon DEF PublishEmail
    <2> QED
      BY <1>2, <2>2, <2>3, <2>4, <2>5, <2>6
  <1>5. CASE RejectNode(a)
    <2>1. Goes(a, "fail") /\ pc[a] \in {"run", "move"}
      BY <1>5, GotoFacts DEF RejectNode, GiveUp, Runs
    <2>2. faults' \in 0 .. MaxFaults
          /\ UNCHANGED <<msg, outside, row, stream, execLock, pollLock, exe, node, todo>>
      BY <1>5 DEF RejectNode, Calm
    <2> QED
      BY <1>2, <2>1, <2>2 DEF stream
  <1>6. CASE FailExecution(a)
    <2>1. exe[a] \in Executions
      BY <1>6 DEF FailExecution, Engaged
    <2>2. PICK effect \in BOOLEAN, told \in BOOLEAN :
             /\ CallEnds(effect, told)
             /\ row' = IF effect THEN [row EXCEPT ![exe[a]] = Failed(@)] ELSE row
      BY <1>6, Zenon DEF FailExecution
    <2>3. faults' \in 0 .. MaxFaults
      BY <2>2, CallFacts
    <2>4. Failed(row[exe[a]]) \in [st : RowStates, node : Places, due : BOOLEAN]
      <3>1. row[exe[a]] \in Rows /\ NoNode \in Places
        BY <2>1 DEF Rows, Places
      <3> QED
        BY <3>1, RowFacts, Zenon DEF Rows
    <2>5. row' \in [Executions -> [st : RowStates, node : Places, due : BOOLEAN]]
      BY <2>1, <2>2, <2>4
    <2>6. UNCHANGED <<msg, outside, stream, execLock, pollLock, exe, node, todo>>
      BY <1>6, Zenon DEF FailExecution
    <2>7. CASE a \in Schedulers
      <3>1. Goes(a, "unlock")
        BY <1>6, <2>7, GotoFacts DEF FailExecution
      <3>2. TypeOK'
        BY <2>3, <2>5, <2>6, <3>1 DEF Goes, PCs, outside, stream
      <3>3. Placed'
        BY <2>1, <2>6, <2>7, <3>1, <1>x, <1>y DEF Goes, Actors, WorkerPCs, SchedulerPCs, Engaged
      <3> QED
        BY <3>2, <3>3
    <2>8. CASE a \in Workers
      <3>1. \E v \in Verdicts : Answer(a, v)
        BY <1>6, <2>8, <1>x, GotoFacts DEF FailExecution, Verdicts
      <3>2. Goes(a, "answer")
        BY <2>8, <3>1, GotoFacts
      <3>3. TypeOK'
        BY <2>3, <2>5, <2>6, <3>2 DEF Goes, PCs, outside, stream
      <3>4. job[a] \in Triggers
        BY <1>6, <2>8 DEF FailExecution
      <3>5. Placed'
        BY <2>1, <2>6, <2>8, <3>2, <3>4, <1>x, <1>y
           DEF Goes, Actors, WorkerPCs, SchedulerPCs, Engaged
      <3> QED
        BY <3>3, <3>5
    <2> QED
      BY <2>7, <2>8, <1>w
  <1>7. CASE Crash(a)
    <2>1. /\ exe' = [exe EXCEPT ![a] = Nobody] /\ node' = [node EXCEPT ![a] = NoNode]
          /\ UNCHANGED <<msg, outside, row, stream, execLock, pollLock>>
      BY <1>7, Zenon DEF Crash
    <2>2. NoNode \in Places /\ faults' \in 0 .. MaxFaults
      BY <1>7, FaultFacts DEF Crash, Places
    <2>3. CASE a \in Workers
      <3>1. ToIdle(a) /\ todo' = todo
        BY <1>7, <2>3 DEF Crash
      <3>2. TypeOK'
        BY <2>1, <2>2, <2>3, <3>1, ToIdleFacts DEF PCs, outside, stream
      <3>3. Placed'
        BY <2>1, <2>3, <3>1, <1>x, <1>y, ToIdleFacts
           DEF Actors, WorkerPCs, SchedulerPCs, Engaged
      <3> QED
        BY <3>2, <3>3
    <2>4. CASE a \in Schedulers
      <3>1. Goes(a, "idle") /\ todo' = [todo EXCEPT ![a] = {}]
        BY <1>7, <2>4, <1>y, GotoFacts DEF Crash
      <3>2. TypeOK'
        BY <2>1, <2>2, <2>4, <3>1 DEF Goes, PCs, outside, stream
      <3>3. Placed'
        BY <2>1, <2>4, <3>1, <1>x, <1>y DEF Goes, Actors, WorkerPCs, SchedulerPCs, Engaged
      <3> QED
        BY <3>2, <3>3
    <2> QED
      BY <2>3, <2>4, <1>w
  <1> QED
    BY <1>1, <1>3, <1>4, <1>5, <1>6, <1>7 DEF Execute

\* The steps of the scheduler keep the types.
LEMMA TypedScheduler ==
    ASSUME Typed, NEW s \in Schedulers, Poll(s) \/ Resume(s)
    PROVE  Typed'
  <1> USE DEF Typed, TypeOK, Placed
  <1>s. s \in Actors /\ s \notin Workers
    BY ActorsAssumption DEF Actors
  <1>x. \A w \in Workers : w \in Actors /\ w # s
    BY <1>s DEF Actors
  \* A step that leaves messages and rows alone.
  <1>1. ASSUME NEW p \in SchedulerPCs, Goes(s, p), pc[s] \in SchedulerPCs,
               UNCHANGED <<msg, outside, row, stream>>,
               execLock' \in [Executions -> {NoLock, "trigger", "scheduler-resume"}],
               pollLock' \in {NoLock, "scheduler"}, faults' \in 0 .. MaxFaults,
               exe' \in [Actors -> Executions \cup {Nobody}], node' \in [Actors -> Places],
               \A a \in Actors \ {s} : exe'[a] = exe[a],
               \A r \in Schedulers \ {s} : todo'[r] = todo[r],
               todo' \in [Schedulers -> SUBSET Executions],
               p \in Engaged => exe'[s] \in Executions,
               p \in {"idle", "fetch", "next"} => exe'[s] = Nobody,
               p \in {"idle", "fetch"} => todo'[s] = {}
        PROVE  Typed'
    <2>1. TypeOK'
      BY <1>1, <1>s DEF Goes, SchedulerPCs, PCs, outside, stream
    <2>2. /\ pc'[s] = p /\ \A a \in Actors \ {s} : pc'[a] = pc[a]
          /\ job' = job /\ msg' = msg
      BY <1>1, <1>s DEF Goes
    <2>3. Placed'
      BY <1>1, <1>s, <1>x, <2>2 DEF Actors, Engaged
    <2> QED
      BY <2>1, <2>3
  <1>2. CASE Poll(s)
    <2>1. PICK effect \in BOOLEAN, told \in BOOLEAN :
             /\ CallEnds(effect, told)
             /\ pollLock' = IF effect THEN "scheduler" ELSE pollLock
             /\ Goto(s, IF told THEN "fetch" ELSE "idle")
      BY <1>2, Zenon DEF Poll
    <2>2. Goes(s, "fetch") \/ Goes(s, "idle")
      BY <2>1, <1>s, GotoFacts, Zenon
    <2>3. faults' \in 0 .. MaxFaults /\ pollLock' \in {NoLock, "scheduler"}
      BY <2>1, CallFacts
    <2>4. /\ UNCHANGED <<msg, outside, row, stream, execLock, exe, node, todo>>
          /\ exe[s] = Nobody /\ todo[s] = {}
      BY <1>2 DEF Poll
    <2> QED
      BY <1>1, <2>2, <2>3, <2>4 DEF SchedulerPCs, Engaged
  <1>3. CASE FetchDue(s)
    <2>1. Goes(s, "next")
      BY <1>3, <1>s, GotoFacts DEF FetchDue
    <2>2. faults' \in 0 .. MaxFaults
      BY <1>3, FaultFacts DEF FetchDue
    <2>3. /\ todo' \in [Schedulers -> SUBSET Executions]
          /\ \A r \in Schedulers \ {s} : todo'[r] = todo[r]
      BY <1>3 DEF FetchDue
    <2>4. /\ UNCHANGED <<msg, outside, row, stream, execLock, pollLock, exe, node>>
          /\ exe[s] = Nobody
      BY <1>3 DEF FetchDue
    <2> QED
      BY <1>1, <2>1, <2>2, <2>3, <2>4 DEF SchedulerPCs, Engaged
  <1>4. CASE TakeNext(s)
    <2>1. PICK e \in todo[s], effect \in BOOLEAN, told \in BOOLEAN :
             /\ CallEnds(effect, told)
             /\ todo' = [todo EXCEPT ![s] = @ \ {e}]
             /\ execLock' = IF effect /\ Free(execLock[e])
                            THEN [execLock EXCEPT ![e] = "scheduler-resume"] ELSE execLock
             /\ IF told /\ Free(execLock[e]) THEN Goto(s, "reload") /\ exe' = [exe EXCEPT ![s] = e]
                ELSE Goto(s, "next") /\ UNCHANGED exe
      BY <1>4, Zenon DEF TakeNext
    <2>2. e \in Executions
      OBVIOUS
    <2>3. \/ Goes(s, "reload") /\ exe' = [exe EXCEPT ![s] = e]
          \/ Goes(s, "next") /\ exe' = exe
      BY <2>1, <1>s, GotoFacts, Zenon
    <2>4. faults' \in 0 .. MaxFaults
      BY <2>1, CallFacts
    <2>5. execLock' \in [Executions -> {NoLock, "trigger", "scheduler-resume"}]
      BY <2>1, <2>2
    <2>6. /\ todo' \in [Schedulers -> SUBSET Executions]
          /\ \A r \in Schedulers \ {s} : todo'[r] = todo[r]
      BY <2>1
    <2>7. /\ UNCHANGED <<msg, outside, row, stream, pollLock, node>>
          /\ exe[s] = Nobody
      BY <1>4 DEF TakeNext
    <2>8. CASE Goes(s, "reload") /\ exe' = [exe EXCEPT ![s] = e]
      BY <1>1, <1>s, <2>2, <2>4, <2>5, <2>6, <2>7, <2>8 DEF SchedulerPCs, Engaged
    <2>9. CASE Goes(s, "next") /\ exe' = exe
      BY <1>1, <1>s, <2>2, <2>4, <2>5, <2>6, <2>7, <2>9 DEF SchedulerPCs, Engaged
    <2> QED
      BY <2>3, <2>8, <2>9
  <1>5. CASE Reload(s)
    <2>1. \/ Goes(s, "refetch")
          \/ Goes(s, "fail")
      BY <1>5, <1>s, GotoFacts DEF Reload
    <2>2. faults' \in 0 .. MaxFaults
      BY <1>5, FaultFacts DEF Reload
    <2>3. /\ UNCHANGED <<msg, outside, row, stream, execLock, pollLock, exe, node, todo>>
          /\ exe[s] \in Executions
      BY <1>5, <1>s DEF Reload, Engaged
    <2> QED
      BY <1>1, <2>1, <2>2, <2>3 DEF SchedulerPCs, Engaged
  <1>6. CASE Refetch(s)
    <2>1. /\ UNCHANGED <<msg, outside, row, stream, execLock, pollLock, exe, todo>>
          /\ exe[s] \in Executions
      BY <1>6, <1>s DEF Refetch, Engaged
    <2>2. Goes(s, "move") \/ Goes(s, "unlock")
      BY <1>6, <1>s, GotoFacts DEF Refetch
    <2>3. node' \in [Actors -> Places]
      BY <1>6, <2>1 DEF Refetch
    <2>4. faults' \in 0 .. MaxFaults
      BY <1>6, FaultFacts DEF Refetch
    <2> QED
      BY <1>1, <2>1, <2>2, <2>3, <2>4 DEF SchedulerPCs, Engaged
  <1>7. CASE Unlock(s)
    <2>1. /\ Freed(exe[s], "scheduler-resume") /\ Goto(s, "next")
          /\ exe' = [exe EXCEPT ![s] = Nobody] /\ node' = [node EXCEPT ![s] = NoNode]
          /\ UNCHANGED <<msg, outside, row, stream, pollLock, todo>>
      BY <1>7, Zenon DEF Unlock
    <2>2. exe[s] \in Executions /\ NoNode \in Places
      BY <1>7, <1>s DEF Unlock, Engaged, Places
    <2>3. /\ faults' \in 0 .. MaxFaults
          /\ execLock' \in [Executions -> {NoLock, "trigger", "scheduler-resume"}]
      BY <2>1, <2>2, FreedFacts
    <2>4. Goes(s, "next")
      BY <2>1, <1>s, GotoFacts
    <2> QED
      BY <1>1, <1>s, <2>1, <2>2, <2>3, <2>4 DEF SchedulerPCs, Engaged
  <1>8. CASE EndPoll(s)
    <2>1. PICK effect \in BOOLEAN, told \in BOOLEAN :
             /\ CallEnds(effect, told)
             /\ pollLock' = IF effect THEN Released(pollLock, "scheduler") ELSE pollLock
      BY <1>8, Zenon DEF EndPoll
    <2>2. faults' \in 0 .. MaxFaults /\ pollLock' \in {NoLock, "scheduler"}
      BY <2>1, CallFacts DEF Released
    <2>3. Goes(s, "idle")
      BY <1>8, <1>s, GotoFacts DEF EndPoll
    <2>4. /\ UNCHANGED <<msg, outside, row, stream, execLock, exe, node, todo>>
          /\ exe[s] = Nobody /\ todo[s] = {}
      BY <1>8 DEF EndPoll
    <2> QED
      BY <1>1, <2>2, <2>3, <2>4 DEF SchedulerPCs, Engaged
  <1> QED
    BY <1>2, <1>3, <1>4, <1>5, <1>6, <1>7, <1>8 DEF Resume

\* What happens around the actors.
Around ==
    \/ \E t \in Triggers : ExpireAckWait(t)
    \/ \E e \in Executions : ExpireExecLock(e) \/ BecomeDue(e)
    \/ ExpirePollLock
    \/ EditWorkflow

\* A step is an actor's, or happens around them, or stutters.
LEMMA StepCases ==
    ASSUME [Next]_vars
    PROVE  \/ \E w \in Workers : WorkTrigger(w) \/ \E t \in Triggers : Receive(w, t)
           \/ \E a \in Actors : Execute(a) \/ Crash(a)
           \/ \E s \in Schedulers : Poll(s) \/ Resume(s)
           \/ Around \/ UNCHANGED vars
  BY Zenon DEF Next, Around

\* The timers and the API keep the types.
LEMMA TypedAround == Typed /\ (Around \/ UNCHANGED vars) => Typed'
  <1> SUFFICES ASSUME Typed, Around \/ UNCHANGED vars PROVE Typed'
    OBVIOUS
  <1> USE DEF Typed, TypeOK, Placed, outside, stream, locals
  <1>1. ASSUME NEW t \in Triggers, ExpireAckWait(t) PROVE Typed'
    <2>1. /\ Requeued(msg[t], MaxAttempts) \in Msgs
          /\ Requeued(msg[t], MaxAttempts).st = "queued" => Requeued(msg[t], MaxAttempts).n < MaxAttempts
      <3>1. "nak" \in Verdicts
        BY DEF Verdicts
      <3> QED
        BY <3>1, MessageFacts
    <2>2. /\ msg' \in [Triggers -> Msgs]
          /\ \A u \in Triggers : msg'[u].st = "queued" => msg'[u].n < MaxAttempts
      BY <1>1, <2>1 DEF ExpireAckWait
    <2>3. UNCHANGED <<outside, row, stream, execLock, pollLock, pc, locals, exe, node, todo, faults>>
      BY <1>1, Zenon DEF ExpireAckWait
    <2> QED
      BY <2>2, <2>3
  <1>2. ASSUME NEW e \in Executions, ExpireExecLock(e) PROVE Typed'
    <2>1. faults' \in 0 .. MaxFaults
      BY <1>2, FaultFacts DEF ExpireExecLock
    <2>2. execLock' \in [Executions -> {NoLock, "trigger", "scheduler-resume"}]
      BY <1>2 DEF ExpireExecLock
    <2>3. UNCHANGED <<msg, outside, row, stream, pollLock, pc, locals, exe, node, todo>>
      BY <1>2, Zenon DEF ExpireExecLock
    <2> QED
      BY <2>1, <2>2, <2>3
  <1>3. ASSUME NEW e \in Executions, BecomeDue(e) PROVE Typed'
    <2>1. row' \in [Executions -> [st : RowStates, node : Places, due : BOOLEAN]]
      BY <1>3 DEF BecomeDue
    <2>2. UNCHANGED <<msg, outside, stream, execLock, pollLock, pc, locals, exe, node, todo, faults>>
      BY <1>3, Zenon DEF BecomeDue
    <2> QED
      BY <2>1, <2>2
  <1>4. CASE ExpirePollLock
    <2>1. faults' \in 0 .. MaxFaults
      BY <1>4, FaultFacts DEF ExpirePollLock
    <2>2. /\ pollLock' = NoLock
          /\ UNCHANGED <<msg, outside, row, stream, execLock, pc, locals, exe, node, todo>>
      BY <1>4, Zenon DEF ExpirePollLock
    <2> QED
      BY <2>1, <2>2
  <1>5. CASE EditWorkflow
    <2>1. workflow' \in {"missing", "draft", "published", "unparsable"}
      BY <1>5 DEF EditWorkflow
    <2>2. UNCHANGED <<msg, graph, contact, row, stream, execLock, pollLock, pc, locals, exe,
                      node, todo, faults>>
      BY <1>5, Zenon DEF EditWorkflow
    <2> QED
      BY <2>1, <2>2
  <1>6. CASE UNCHANGED vars
    BY <1>6 DEF vars
  <1> QED
    BY <1>1, <1>2, <1>3, <1>4, <1>5, <1>6 DEF Around

\* Every step keeps the types.
LEMMA TypedStep == Typed /\ [Next]_vars => Typed'
  BY StepCases, TypedTrigger, TypedExecute, TypedScheduler, TypedAround

\* Every field of a reachable state has its type (handler.go, executor.go,
\* scheduler.go of internal/worker/workflows).
THEOREM TypeCorrect == Spec => []TypeOK
  <1>1. Typed => TypeOK
    BY DEF Typed
  <1> QED
    BY <1>1, TypedInit, TypedStep, PTL DEF Spec

-----------------------------------------------------------------------------
(***************************************************************************)
(* What the steps that change several things do                            *)
(***************************************************************************)
\* Only the trigger that finds no row, and is told so, goes on (client.go:998-1017).
LEMMA CreateFacts ==
    ASSUME Typed, NEW w \in Workers, CreateExecution(w)
    PROVE  \E e \in Executions :
              /\ exe[w] = Nobody /\ pc[w] = "create"
              /\ \/ /\ pc' = [pc EXCEPT ![w] = "answer"] /\ exe' = exe
                    /\ row' = row \/ (row[e].st = "none" /\ row' = [row EXCEPT ![e] = Created(row[e])])
                 \/ /\ pc' = [pc EXCEPT ![w] = "lock"] /\ exe' = [exe EXCEPT ![w] = e]
                    /\ row[e].st = "none" /\ row' = [row EXCEPT ![e] = Created(row[e])]
              /\ UNCHANGED <<msg, outside, stream, execLock, pollLock, node, todo>>
  <1> DEFINE e == KeyOf[job[w]]
  <1>1. job[w] \in Triggers /\ exe[w] = Nobody /\ e \in Executions /\ pc[w] = "create"
    BY KeysAssumption DEF CreateExecution, Typed, Placed
  <1>2. PICK effect \in BOOLEAN, told \in BOOLEAN :
        /\ CallEnds(effect, told)
        /\ row' = IF effect /\ IsNew(row[e]) THEN [row EXCEPT ![e] = Created(@)] ELSE row
        /\ exe' = IF told /\ IsNew(row[e]) THEN [exe EXCEPT ![w] = e] ELSE exe
        /\ CASE ~told -> Answer(w, RetryVerdict(w))
             [] told /\ IsNew(row[e]) -> Goto(w, "lock")
             [] told /\ ~IsNew(row[e]) -> Answer(w, "ack")
    BY Zenon DEF CreateExecution
  <1>3. told => effect
    BY <1>2, CallFacts DEF Typed, TypeOK
  <1>4. UNCHANGED <<msg, outside, stream, execLock, pollLock, node, todo>>
    BY Zenon DEF CreateExecution
  <1>5. CASE told /\ IsNew(row[e])
    <2>1. pc' = [pc EXCEPT ![w] = "lock"] /\ exe' = [exe EXCEPT ![w] = e]
      BY <1>2, <1>5, Zenon DEF Goto
    <2>2. row[e].st = "none" /\ row' = [row EXCEPT ![e] = Created(row[e])]
      BY <1>2, <1>3, <1>5, Zenon DEF IsNew
    <2> QED
      BY <1>1, <1>4, <2>1, <2>2, Zenon
  <1>6. CASE ~(told /\ IsNew(row[e]))
    <2>1. pc' = [pc EXCEPT ![w] = "answer"] /\ exe' = exe
      <3>1. CASE ~told
        BY <1>2, <3>1, Zenon DEF Answer
      <3>2. CASE told
        BY <1>2, <1>6, <3>2, Zenon DEF Answer
      <3> QED
        BY <3>1, <3>2
    <2>2. row' = row \/ (row[e].st = "none" /\ row' = [row EXCEPT ![e] = Created(row[e])])
      BY <1>2, Zenon DEF IsNew
    <2> QED
      BY <1>1, <1>4, <2>1, <2>2, Zenon
  <1> QED
    BY <1>5, <1>6

\* A worker goes on only with the lock it found free.
LEMMA AcquireFacts ==
    ASSUME Typed, NEW w \in Workers, AcquireLock(w)
    PROVE  /\ exe[w] \in Executions /\ pc[w] = "lock"
           /\ \/ /\ pc' = [pc EXCEPT ![w] = "answer"] /\ exe' = [exe EXCEPT ![w] = Nobody]
                 /\ execLock' = execLock
              \/ /\ pc' = [pc EXCEPT ![w] = "answer"] /\ exe' = [exe EXCEPT ![w] = Nobody]
                 /\ execLock[exe[w]] = NoLock
                 /\ execLock' = [execLock EXCEPT ![exe[w]] = "trigger"]
              \/ /\ pc' = [pc EXCEPT ![w] = IF node[w] = NoNode THEN "fail" ELSE "run"]
                 /\ exe' = exe /\ execLock[exe[w]] = NoLock
                 /\ execLock' = [execLock EXCEPT ![exe[w]] = "trigger"]
           /\ UNCHANGED <<msg, outside, row, stream, pollLock, node, todo>>
  <1> DEFINE e == exe[w]  free == Free(execLock[e])
  <1>1. e \in Executions /\ pc[w] = "lock"
    BY DEF AcquireLock, Typed, Placed, Actors, Engaged
  <1>2. PICK effect \in BOOLEAN, told \in BOOLEAN :
        /\ CallEnds(effect, told)
        /\ execLock' = IF effect /\ free THEN [execLock EXCEPT ![e] = "trigger"] ELSE execLock
        /\ exe' = IF told /\ free THEN exe ELSE [exe EXCEPT ![w] = Nobody]
        /\ CASE ~told -> Answer(w, RetryVerdict(w))
             [] told /\ ~free -> Answer(w, "ack")
             [] told /\ free -> Goto(w, IF node[w] = NoNode THEN "fail" ELSE "run")
    BY Zenon DEF AcquireLock
  <1>3. told => effect
    BY <1>2, CallFacts DEF Typed, TypeOK
  <1>4. UNCHANGED <<msg, outside, row, stream, pollLock, node, todo>>
    BY Zenon DEF AcquireLock
  <1>5. CASE told /\ free
    BY <1>1, <1>2, <1>3, <1>4, <1>5, Zenon DEF Goto, Free
  <1>6. CASE ~(told /\ free)
    <2>1. pc' = [pc EXCEPT ![w] = "answer"] /\ exe' = [exe EXCEPT ![w] = Nobody]
      <3>1. CASE ~told
        BY <1>2, <3>1, Zenon DEF Answer
      <3>2. CASE told
        BY <1>2, <1>6, <3>2, Zenon DEF Answer
      <3> QED
        BY <3>1, <3>2
    <2> QED
      BY <1>1, <1>2, <1>4, <2>1, Zenon DEF Free
  <1> QED
    BY <1>5, <1>6

\* A scheduler takes an execution off its list, and up only with its lock.
LEMMA TakeFacts ==
    ASSUME Typed, NEW s \in Schedulers, TakeNext(s)
    PROVE  \E e \in todo[s] :
              /\ e \in Executions /\ exe[s] = Nobody /\ pc[s] = "next"
              /\ todo' = [todo EXCEPT ![s] = @ \ {e}]
              /\ \/ /\ pc' = [pc EXCEPT ![s] = "next"] /\ exe' = exe /\ execLock' = execLock
                 \/ /\ pc' = [pc EXCEPT ![s] = "next"] /\ exe' = exe
                    /\ execLock[e] = NoLock
                    /\ execLock' = [execLock EXCEPT ![e] = "scheduler-resume"]
                 \/ /\ pc' = [pc EXCEPT ![s] = "reload"] /\ exe' = [exe EXCEPT ![s] = e]
                    /\ execLock[e] = NoLock
                    /\ execLock' = [execLock EXCEPT ![e] = "scheduler-resume"]
              /\ UNCHANGED <<msg, outside, row, stream, pollLock, node>>
  <1>1. PICK e \in todo[s], effect \in BOOLEAN, told \in BOOLEAN :
           /\ CallEnds(effect, told)
           /\ todo' = [todo EXCEPT ![s] = @ \ {e}]
           /\ execLock' = IF effect /\ Free(execLock[e])
                          THEN [execLock EXCEPT ![e] = "scheduler-resume"] ELSE execLock
           /\ IF told /\ Free(execLock[e]) THEN Goto(s, "reload") /\ exe' = [exe EXCEPT ![s] = e]
              ELSE Goto(s, "next") /\ UNCHANGED exe
    BY Zenon DEF TakeNext
  <1>2. told => effect
    BY <1>1, CallFacts DEF Typed, TypeOK
  <1>3. e \in Executions /\ exe[s] = Nobody /\ pc[s] = "next"
    BY DEF TakeNext, Typed, TypeOK, Placed
  <1>4. UNCHANGED <<msg, outside, row, stream, pollLock, node>>
    BY Zenon DEF TakeNext
  <1>5. CASE told /\ Free(execLock[e])
    BY <1>1, <1>2, <1>3, <1>4, <1>5, Zenon DEF Goto, Free
  <1>6. CASE ~(told /\ Free(execLock[e]))
    BY <1>1, <1>3, <1>4, <1>6, Zenon DEF Goto, Free
  <1> QED
    BY <1>5, <1>6

\* FailExecution writes 'failed' or nothing.
LEMMA FailFacts ==
    ASSUME Typed, NEW a \in Actors, FailExecution(a)
    PROVE  /\ exe[a] \in Executions /\ pc[a] = "fail"
           /\ \E p \in {"answer", "unlock"} : pc' = [pc EXCEPT ![a] = p]
           /\ row' \in {row, [row EXCEPT ![exe[a]] = Failed(row[exe[a]])]}
           /\ UNCHANGED <<msg, outside, stream, execLock, pollLock, exe, node, todo>>
  <1>1. exe[a] \in Executions /\ pc[a] = "fail"
    BY DEF FailExecution, Typed, Placed, Engaged
  <1>2. row' \in {row, [row EXCEPT ![exe[a]] = Failed(row[exe[a]])]}
    BY DEF FailExecution
  <1>3. \E p \in {"answer", "unlock"} : pc' = [pc EXCEPT ![a] = p]
    BY DEF FailExecution, Goto, Answer
  <1> QED
    BY <1>1, <1>2, <1>3 DEF FailExecution

\* A publish stores one message at most, and one that a first publish reports
\* stored is stored.
LEMMA PublishFacts ==
    ASSUME Typed, NEW a \in Actors, PublishEmail(a)
    PROVE  /\ exe[a] \in Executions /\ node[a] \in Nodes /\ graph.kind[node[a]] = "email"
           /\ pc[a] = "run"
           /\ \/ pc' = [pc EXCEPT ![a] = "fail"] /\ mail' = mail
              \/ /\ pc' = [pc EXCEPT ![a] = "fail"] \/ pc' = [pc EXCEPT ![a] = "move"]
                 /\ mail' = [mail EXCEPT ![exe[a]][node[a]] = @ + 1]
              \/ /\ pc' = [pc EXCEPT ![a] = "move"]
                 /\ mail' = mail /\ mail[exe[a]][node[a]] # 0
           /\ UNCHANGED <<msg, outside, unaddressed, row, execLock, pollLock, exe, node, todo>>
  <1>1. PICK effect \in BOOLEAN, told \in BOOLEAN, stored \in BOOLEAN :
           /\ CallEnds(effect, told)
           /\ effect /\ mail[exe[a]][node[a]] = 0 => stored
           /\ mail' = IF stored THEN [mail EXCEPT ![exe[a]][node[a]] = @ + 1] ELSE mail
           /\ AfterPublish(a, told)
    BY Zenon DEF PublishEmail
  <1>2. told => effect
    BY <1>1, CallFacts DEF Typed, TypeOK
  <1>3. /\ exe[a] \in Executions /\ node[a] \in Nodes /\ graph.kind[node[a]] = "email"
        /\ pc[a] = "run"
    BY DEF PublishEmail, Runs, Typed, Placed, Engaged
  <1>4. UNCHANGED <<msg, outside, unaddressed, row, execLock, pollLock, exe, node, todo>>
    BY Zenon DEF PublishEmail
  <1>5. pc' = [pc EXCEPT ![a] = IF told THEN "move" ELSE "fail"]
    BY <1>1, Zenon DEF AfterPublish, GiveUp, Goto
  <1>6. CASE stored
    BY <1>1, <1>3, <1>4, <1>5, <1>6, Zenon
  <1>7. CASE ~stored
    <2>1. mail' = mail /\ (told => mail[exe[a]][node[a]] # 0)
      BY <1>1, <1>2, <1>7, Zenon
    <2> QED
      BY <1>3, <1>4, <1>5, <2>1, Zenon
  <1> QED
    BY <1>6, <1>7

\* Whatever the executor does, it does to its own execution, and no row goes away.
LEMMA ExecuteFacts ==
    ASSUME Typed, NEW a \in Actors, Execute(a)
    PROVE  /\ exe[a] \in Executions /\ pc[a] \in {"run", "move", "fail"}
           /\ \E p \in {"run", "move", "fail", "answer", "unlock"} : pc' = [pc EXCEPT ![a] = p]
           /\ \A e \in Executions : row'[e].st = "none" => row[e].st = "none"
           /\ \A e \in Executions \ {exe[a]} : row'[e] = row[e] /\ mail'[e] = mail[e]
           /\ \A b \in Actors \ {a} : node'[b] = node[b]
           /\ pc[a] = "fail" => node' = node
           /\ UNCHANGED <<msg, outside, execLock, pollLock, exe, todo>>
  <1> USE DEF outside, stream
  <1>1. CASE MoveOn(a) \/ ScheduleDelay(a) \/ CompleteExecution(a)
    <2>1. PICK new \in Rows, last \in BOOLEAN, p \in PCs :
             Wrote(a, new, last, p) /\ new.st # "none"
      <3> DEFINE ends == graph.next[node[a]] = NoNode
      <3>1. ends \in BOOLEAN /\ TRUE \in BOOLEAN
        OBVIOUS
      <3> HIDE DEF ends
      <3>2. PICK p \in PCs : \/ Wrote(a, Moved(a), ends, p)
                             \/ Wrote(a, Delayed(row[exe[a]], node[a]), TRUE, p)
                             \/ Wrote(a, Completed(row[exe[a]]), TRUE, p)
        BY <1>1, WritesFacts, Zenon DEF ends
      <3>3. /\ Moved(a) \in Rows /\ Delayed(row[exe[a]], node[a]) \in Rows
            /\ Completed(row[exe[a]]) \in Rows
        BY <1>1, WritesFacts, Zenon
      <3>4. /\ Moved(a).st # "none" /\ Delayed(row[exe[a]], node[a]).st # "none"
            /\ Completed(row[exe[a]]).st # "none"
        <4>1. row[exe[a]] \in Rows
          BY <1>1, WritesFacts DEF Typed, TypeOK, Rows
        <4> QED
          BY <4>1 DEF Moved, Delayed, Completed, Advanced, Rows
      <3> QED
        BY <3>1, <3>2, <3>3, <3>4, Zenon
    <2>2. /\ exe[a] \in Executions
          /\ UNCHANGED <<msg, outside, stream, execLock, pollLock, exe, todo>>
      BY <1>1, WritesFacts
    <2>3. pc[a] \in {"run", "move"}
      BY <1>1 DEF MoveOn, ScheduleDelay, CompleteExecution, Runs
    <2>4. p \in {"run", "move", "fail", "answer", "unlock"} /\ pc' = [pc EXCEPT ![a] = p]
      BY <2>1 DEF Wrote, Goes
    <2>5. /\ \A e \in Executions : row'[e].st = "none" => row[e].st = "none"
          /\ \A e \in Executions \ {exe[a]} : row'[e] = row[e]
      BY <2>1, <2>2 DEF Wrote, Typed, TypeOK
    <2>6. \A b \in Actors \ {a} : node'[b] = node[b]
      BY <2>1 DEF Wrote, Typed, TypeOK
    <2> QED
      BY <2>2, <2>3, <2>4, <2>5, <2>6
  <1>2. CASE SkipEmail(a)
    <2>1. pc[a] = "run" /\ \E p \in {"move", "fail"} : pc' = [pc EXCEPT ![a] = p]
      BY <1>2 DEF SkipEmail, Runs, Goto, GiveUp
    <2> QED
      BY <1>2, <2>1 DEF SkipEmail, Typed, Placed, Engaged
  <1>3. CASE PublishEmail(a)
    <2>1. \A e \in Executions \ {exe[a]} : mail'[e] = mail[e]
      BY <1>3, PublishFacts DEF Typed, TypeOK
    <2> QED
      BY <1>3, <2>1, PublishFacts
  <1>4. CASE RejectNode(a)
    <2>1. pc[a] \in {"run", "move"} /\ pc' = [pc EXCEPT ![a] = "fail"]
      BY <1>4 DEF RejectNode, Runs, GiveUp, Goto
    <2> QED
      BY <1>4, <2>1 DEF RejectNode, Typed, Placed, Engaged
  <1>5. CASE FailExecution(a)
    <2>1. /\ \A e \in Executions : row'[e].st = "none" => row[e].st = "none"
          /\ \A e \in Executions \ {exe[a]} : row'[e] = row[e]
      <3> DEFINE r == Failed(row[exe[a]])
      <3>1. row[exe[a]] \in Rows /\ NoNode \in Places
        BY <1>5, FailFacts DEF Typed, TypeOK, Rows, Places
      <3>2. r.st # "none"
        BY <3>1, RowFacts
      <3>3. row' \in {row, [row EXCEPT ![exe[a]] = r]} /\ exe[a] \in Executions
        BY <1>5, FailFacts, Zenon
      <3> HIDE DEF r
      <3> QED
        BY <3>2, <3>3 DEF Typed, TypeOK
    <2> QED
      BY <1>5, <2>1, FailFacts
  <1> QED
    BY <1>1, <1>2, <1>3, <1>4, <1>5 DEF Execute

-----------------------------------------------------------------------------
(***************************************************************************)
(* Locks                                                                   *)
(***************************************************************************)
\* The actors are workers or schedulers, never both.
LEMMA Kinds ==
    /\ \A w \in Workers : w \in Actors /\ w \notin Schedulers
    /\ \A s \in Schedulers : s \in Actors /\ s \notin Workers
    /\ \A a \in Actors : a \in Workers \/ a \in Schedulers
    /\ Nobody \notin Executions
  BY ActorsAssumption, KeysAssumption DEF Actors

\* Nothing is locked at first.
LEMMA LockedInit == Init => Locked
  <1> SUFFICES ASSUME Init PROVE Locked
    OBVIOUS
  <1>1. /\ \A a \in Actors : pc[a] = "idle" /\ exe[a] = Nobody
        /\ \A s \in Schedulers : todo[s] = {}
    BY DEF Init
  <1>2. OneScheduler /\ OneTrigger
    BY <1>1, Kinds DEF OneScheduler, OneTrigger
  <1>3. LocksHeld
    BY <1>1, Kinds DEF LocksHeld, Holding
  <1> QED
    BY <1>2, <1>3 DEF Locked

\* What keeps each part: no scheduler starts while the poll lock is taken; no
\* execution is taken up and no row goes away; no lock is lost by its holder.
LEMMA OneSchedulerStays ==
    ASSUME OneScheduler, pollLock' = pollLock,
           \A s \in Schedulers : pc'[s] # "idle" => pc[s] # "idle"
    PROVE  OneScheduler'
  BY DEF OneScheduler

NothingTaken ==
    /\ \A a \in Actors : exe'[a] = exe[a] \/ exe'[a] = Nobody
    /\ \A s \in Schedulers : todo'[s] \subseteq todo[s]
    /\ \A e \in Executions : row'[e].st = "none" => row[e].st = "none"

\* Who gives up an execution, or keeps it, shares it with no one new.
LEMMA OneTriggerStays ==
    ASSUME Typed, OneTrigger, NothingTaken
    PROVE  OneTrigger'
  <1>1. \A w \in Workers : exe'[w] \in Executions => row'[exe'[w]].st # "none"
    BY Kinds DEF OneTrigger, NothingTaken
  <1>2. \A s \in Schedulers, e \in Executions : e \in todo'[s] \/ exe'[s] = e => row'[e].st # "none"
    BY Kinds DEF OneTrigger, NothingTaken
  <1>3. \A s \in Schedulers : exe'[s] \notin todo'[s]
    BY Kinds DEF OneTrigger, NothingTaken, Typed, TypeOK
  <1>4. \A v, w \in Workers : v # w /\ exe'[v] \in Executions => exe'[v] # exe'[w]
    BY Kinds DEF OneTrigger, NothingTaken
  <1> QED
    BY <1>1, <1>2, <1>3, <1>4 DEF OneTrigger

\* Who holds a lock keeps it, or has just taken it.
LEMMA LocksStay ==
    ASSUME LocksHeld,
           \A a \in Actors : pc'[a] \in Holding /\ exe'[a] \in Executions =>
              \/ execLock'[exe'[a]] = Value(a)
              \/ pc[a] \in Holding /\ exe'[a] = exe[a] /\ execLock'[exe[a]] = execLock[exe[a]]
    PROVE  LocksHeld'
  BY DEF LocksHeld, Value

\* A step of one actor that touches no lock, no row's existence, and takes nothing.
LEMMA LockedQuiet ==
    ASSUME Typed, Locked, NEW a \in Actors, NEW p \in PCs, pc' = [pc EXCEPT ![a] = p],
           p # "idle" => pc[a] # "idle" \/ a \in Workers,
           p \in Holding => pc[a] \in Holding \/ exe[a] \notin Executions,
           NothingTaken, UNCHANGED <<execLock, pollLock>>
    PROVE  Locked'
  <1>1. pc'[a] = p /\ \A b \in Actors \ {a} : pc'[b] = pc[b]
    BY DEF Typed, TypeOK
  <1>2. OneScheduler'
    BY <1>1, Kinds, OneSchedulerStays DEF Locked
  <1>3. OneTrigger'
    BY OneTriggerStays DEF Locked
  <1>4. LocksHeld'
    <2>1. \A b \in Actors : pc'[b] \in Holding /\ exe'[b] \in Executions =>
             pc[b] \in Holding /\ exe'[b] = exe[b] /\ execLock'[exe[b]] = execLock[exe[b]]
      BY <1>1, Kinds DEF NothingTaken
    <2> QED
      BY <2>1, LocksStay DEF Locked
  <1> QED
    BY <1>2, <1>3, <1>4 DEF Locked

\* The steps of the trigger consumer: a lock is taken only when it is free, and
\* given back only by the one who took it.
LEMMA LockedTrigger ==
    ASSUME Typed, Locked, NEW w \in Workers,
           WorkTrigger(w) \/ \E t \in Triggers : Receive(w, t)
    PROVE  Locked'
  <1>w. w \in Actors /\ w \notin Schedulers
    BY Kinds
  <1>1. ASSUME NEW t \in Triggers, Receive(w, t) PROVE Locked'
    <2>1. /\ \E p \in {"load", "answer"} : pc' = [pc EXCEPT ![w] = p]
          /\ exe[w] = Nobody
          /\ UNCHANGED <<exe, row, todo, execLock, pollLock>>
      BY <1>1 DEF Receive, Typed, Placed
    <2>2. NothingTaken
      BY <2>1, Zenon DEF NothingTaken
    <2> QED
      BY <1>w, <2>1, <2>2, LockedQuiet, Kinds DEF PCs
  <1>2. CASE LoadWorkflow(w)
    <2>1. /\ \E p \in {"create", "answer"} : pc' = [pc EXCEPT ![w] = p]
          /\ exe[w] = Nobody
          /\ UNCHANGED <<exe, row, todo, execLock, pollLock>>
      BY <1>2 DEF LoadWorkflow, Answer, Goto, Typed, Placed
    <2>2. NothingTaken
      BY <2>1, Zenon DEF NothingTaken
    <2> QED
      BY <1>w, <2>1, <2>2, LockedQuiet, Kinds DEF PCs
  <1>3. CASE CreateExecution(w)
    <2>1. PICK e \in Executions :
              /\ exe[w] = Nobody /\ pc[w] = "create"
              /\ \/ /\ pc' = [pc EXCEPT ![w] = "answer"] /\ exe' = exe
                    /\ row' = row \/ (row[e].st = "none" /\ row' = [row EXCEPT ![e] = Created(row[e])])
                 \/ /\ pc' = [pc EXCEPT ![w] = "lock"] /\ exe' = [exe EXCEPT ![w] = e]
                    /\ row[e].st = "none" /\ row' = [row EXCEPT ![e] = Created(row[e])]
              /\ UNCHANGED <<msg, outside, stream, execLock, pollLock, node, todo>>
      BY <1>3, CreateFacts
    <2>2. Created(row[e]).st = "running"
      <3>1. row[e] \in Rows /\ NoNode \in Places
        BY DEF Typed, TypeOK, Rows, Places
      <3> QED
        BY <3>1, RowFacts, Zenon
    <2>3. \A d \in Executions : row'[d].st = "none" => row[d].st = "none"
      <3> DEFINE r == Created(row[e])
      <3>1. row' = row \/ row' = [row EXCEPT ![e] = r]
        BY <2>1, Zenon
      <3>2. r.st = "running"
        BY <2>2
      <3> HIDE DEF r
      <3> QED
        BY <3>1, <3>2 DEF Typed, TypeOK
    <2>4. CASE pc' = [pc EXCEPT ![w] = "answer"] /\ exe' = exe
      <3>1. NothingTaken
        BY <2>1, <2>3, <2>4, Zenon DEF NothingTaken
      <3> QED
        BY <1>w, <2>1, <2>4, <3>1, LockedQuiet, Kinds DEF PCs
    <2>5. CASE /\ pc' = [pc EXCEPT ![w] = "lock"] /\ exe' = [exe EXCEPT ![w] = e]
               /\ row[e].st = "none" /\ row' = [row EXCEPT ![e] = Created(row[e])]
      <3> DEFINE r == Created(row[e])
      <3>1. /\ pc'[w] = "lock" /\ exe'[w] = e
            /\ \A a \in Actors \ {w} : pc'[a] = pc[a] /\ exe'[a] = exe[a]
        BY <1>w, <2>5 DEF Typed, TypeOK
      <3>2. row'[e].st # "none"
        <4>1. r.st = "running" /\ row' = [row EXCEPT ![e] = r]
          BY <2>2, <2>5
        <4> HIDE DEF r
        <4> QED
          BY <4>1 DEF Typed, TypeOK
      <3>3. OneScheduler'
        BY <2>1, <3>1, Kinds, OneSchedulerStays DEF Locked
      <3>4. OneTrigger'
        <4>1. \A v \in Workers : exe[v] # e
          BY <2>5 DEF Locked, OneTrigger
        <4>2. \A v \in Workers : exe'[v] \in Executions => row'[exe'[v]].st # "none"
          BY <2>3, <3>1, <3>2, Kinds DEF Locked, OneTrigger
        <4>3. \A s \in Schedulers : exe'[s] = exe[s] /\ todo'[s] = todo[s]
          BY <2>1, <3>1, Kinds
        <4>4. \A s \in Schedulers, d \in Executions : d \in todo'[s] \/ exe'[s] = d => row'[d].st # "none"
          BY <2>3, <4>3 DEF Locked, OneTrigger
        <4>5. \A u, v \in Workers : u # v /\ exe'[u] \in Executions => exe'[u] # exe'[v]
          BY <3>1, <4>1, Kinds DEF Locked, OneTrigger
        <4> QED
          BY <4>2, <4>3, <4>4, <4>5 DEF Locked, OneTrigger
      <3>5. LocksHeld'
        <4>1. \A b \in Actors : pc'[b] \in Holding /\ exe'[b] \in Executions =>
                 pc[b] \in Holding /\ exe'[b] = exe[b] /\ execLock'[exe[b]] = execLock[exe[b]]
          BY <2>1, <3>1 DEF Holding
        <4> QED
          BY <4>1, LocksStay DEF Locked
      <3> QED
        BY <3>3, <3>4, <3>5 DEF Locked
    <2> QED
      BY <2>1, <2>4, <2>5
  <1>4. CASE AcquireLock(w)
    <2>1. /\ exe[w] \in Executions /\ pc[w] = "lock"
          /\ \/ /\ pc' = [pc EXCEPT ![w] = "answer"] /\ exe' = [exe EXCEPT ![w] = Nobody]
                /\ execLock' = execLock
             \/ /\ pc' = [pc EXCEPT ![w] = "answer"] /\ exe' = [exe EXCEPT ![w] = Nobody]
                /\ execLock[exe[w]] = NoLock
                /\ execLock' = [execLock EXCEPT ![exe[w]] = "trigger"]
             \/ /\ pc' = [pc EXCEPT ![w] = IF node[w] = NoNode THEN "fail" ELSE "run"]
                /\ exe' = exe /\ execLock[exe[w]] = NoLock
                /\ execLock' = [execLock EXCEPT ![exe[w]] = "trigger"]
          /\ UNCHANGED <<row, pollLock, todo>>
      BY <1>4, AcquireFacts
    <2>2. \A a \in Actors \ {w} : pc'[a] = pc[a] /\ exe'[a] = exe[a]
      BY <2>1 DEF Typed, TypeOK
    <2>3. exe'[w] = Nobody \/ (exe'[w] = exe[w] /\ execLock'[exe[w]] = "trigger")
      BY <1>w, <2>1 DEF Typed, TypeOK
    <2>4. \A d \in Executions : execLock[d] # NoLock => execLock'[d] = execLock[d]
      BY <2>1 DEF Typed, TypeOK
    <2>5. OneScheduler'
      BY <2>1, <2>2, Kinds, OneSchedulerStays DEF Locked
    <2>6. OneTrigger'
      <3>1. NothingTaken
        BY <2>1, <2>2, <2>3 DEF NothingTaken
      <3> QED
        BY <3>1, OneTriggerStays DEF Locked
    <2>7. LocksHeld'
      <3>1. ASSUME NEW b \in Actors, b # w, pc'[b] \in Holding, exe'[b] \in Executions
            PROVE  pc[b] \in Holding /\ exe'[b] = exe[b] /\ execLock'[exe[b]] = execLock[exe[b]]
        <4>1. execLock[exe[b]] = Value(b)
          BY <2>2, <3>1 DEF Locked, LocksHeld
        <4> QED
          BY <2>2, <2>4, <3>1, <4>1 DEF Value, NoLock
      <3>2. exe'[w] \in Executions => execLock'[exe'[w]] = Value(w)
        BY <2>3, Kinds DEF Value
      <3> QED
        BY <3>1, <3>2, LocksStay DEF Locked
    <2> QED
      BY <2>5, <2>6, <2>7 DEF Locked
  <1>5. CASE AnswerMessage(w)
    <2>1. /\ \E p \in {"idle", "release"} : pc' = [pc EXCEPT ![w] = p]
          /\ pc[w] \in Holding /\ pc[w] # "idle"
          /\ UNCHANGED <<exe, row, todo, execLock, pollLock>>
      BY <1>5 DEF AnswerMessage, ToIdle, Goto, Holding
    <2>2. NothingTaken
      BY <2>1, Zenon DEF NothingTaken
    <2> QED
      BY <1>w, <2>1, <2>2, LockedQuiet DEF PCs
  <1>6. CASE ReleaseLock(w)
    <2>1. /\ exe[w] \in Executions /\ Freed(exe[w], "trigger")
          /\ pc' = [pc EXCEPT ![w] = "idle"] /\ exe' = [exe EXCEPT ![w] = Nobody]
          /\ UNCHANGED <<row, pollLock, todo>>
      BY <1>6, <1>w DEF ReleaseLock, ToIdle, Engaged, Typed, Placed
    <2>2. /\ \A a \in Actors \ {w} : pc'[a] = pc[a] /\ exe'[a] = exe[a]
          /\ pc'[w] = "idle" /\ exe'[w] = Nobody
      BY <1>w, <2>1 DEF Typed, TypeOK
    <2>3. /\ \A d \in Executions \ {exe[w]} : execLock'[d] = execLock[d]
          /\ execLock[exe[w]] # "trigger" => execLock'[exe[w]] = execLock[exe[w]]
      BY <2>1, FreedFacts
    <2>4. OneScheduler'
      BY <2>1, <2>2, Kinds, OneSchedulerStays DEF Locked
    <2>5. OneTrigger'
      <3>1. NothingTaken
        BY <2>1, <2>2 DEF NothingTaken
      <3> QED
        BY <3>1, OneTriggerStays DEF Locked
    <2>6. LocksHeld'
      <3>1. ASSUME NEW b \in Actors, pc'[b] \in Holding, exe'[b] \in Executions
            PROVE  pc[b] \in Holding /\ exe'[b] = exe[b] /\ execLock'[exe[b]] = execLock[exe[b]]
        <4>1. b # w /\ pc[b] \in Holding /\ exe'[b] = exe[b] /\ execLock[exe[b]] = Value(b)
          BY <2>2, <3>1, Kinds DEF Locked, LocksHeld
        <4>2. CASE b \in Workers
          BY <2>1, <2>3, <3>1, <4>1, <4>2 DEF Locked, OneTrigger
        <4>3. CASE b \in Schedulers
          BY <2>3, <3>1, <4>1, <4>3, Kinds DEF Value
        <4> QED
          BY <4>2, <4>3, Kinds
      <3> QED
        BY <3>1, LocksStay DEF Locked
    <2> QED
      BY <2>4, <2>5, <2>6 DEF Locked
  <1> QED
    BY <1>1, <1>2, <1>3, <1>4, <1>5, <1>6 DEF WorkTrigger

\* The executor works on what its caller has locked; a crash leaves its locks to
\* their time to live.
LEMMA LockedExecute ==
    ASSUME Typed, Locked, NEW a \in Actors, Execute(a) \/ Crash(a)
    PROVE  Locked'
  <1>1. CASE Execute(a)
    <2>1. /\ pc[a] \in {"run", "move", "fail"}
          /\ \E p \in {"run", "move", "fail", "answer", "unlock"} : pc' = [pc EXCEPT ![a] = p]
          /\ \A e \in Executions : row'[e].st = "none" => row[e].st = "none"
          /\ UNCHANGED <<execLock, pollLock, exe, todo>>
      BY <1>1, ExecuteFacts
    <2>2. NothingTaken
      BY <2>1, Zenon DEF NothingTaken
    <2>3. pc[a] # "idle" /\ pc[a] \in Holding
      BY <2>1 DEF Holding
    <2> QED
      BY <2>1, <2>2, <2>3, LockedQuiet DEF PCs
  <1>2. CASE Crash(a)
    <2>1. /\ pc' = [pc EXCEPT ![a] = "idle"] /\ exe' = [exe EXCEPT ![a] = Nobody]
          /\ todo' = todo \/ todo' = [todo EXCEPT ![a] = {}]
          /\ UNCHANGED <<row, execLock, pollLock>>
      BY <1>2 DEF Crash, ToIdle, Goto
    <2>2. \A b \in Actors : exe'[b] = exe[b] \/ exe'[b] = Nobody
      BY <2>1 DEF Typed, TypeOK
    <2>3. \A s \in Schedulers : todo'[s] \subseteq todo[s]
      BY <2>1 DEF Typed, TypeOK
    <2>4. NothingTaken
      BY <2>1, <2>2, <2>3 DEF NothingTaken
    <2>5. "idle" \in PCs /\ "idle" \notin Holding
      BY DEF PCs, Holding
    <2> QED
      BY <2>1, <2>4, <2>5, LockedQuiet
  <1> QED
    BY <1>1, <1>2

\* The steps of the scheduler: it works only under the poll lock, and resumes an
\* execution only under that execution's lock.
LEMMA LockedScheduler ==
    ASSUME Typed, Locked, NEW s \in Schedulers, Poll(s) \/ Resume(s)
    PROVE  Locked'
  <1>s. s \in Actors /\ s \notin Workers
    BY Kinds
  <1>1. CASE Poll(s)
    <2>1. PICK effect \in BOOLEAN, told \in BOOLEAN :
             /\ CallEnds(effect, told)
             /\ pollLock' = IF effect THEN "scheduler" ELSE pollLock
             /\ Goto(s, IF told THEN "fetch" ELSE "idle")
      BY <1>1, Zenon DEF Poll
    <2>2. told => effect
      BY <2>1, CallFacts DEF Typed, TypeOK
    <2>3. /\ UNCHANGED <<exe, row, todo, execLock>> /\ pc[s] = "idle" /\ pollLock = NoLock
      BY <1>1 DEF Poll, Free
    <2>4. pc'[s] = (IF told THEN "fetch" ELSE "idle") /\ \A b \in Actors \ {s} : pc'[b] = pc[b]
      BY <2>1, <1>s DEF Goto, Typed, TypeOK
    <2>5. OneScheduler'
      <3>1. \A r \in Schedulers : pc[r] = "idle"
        BY <2>3 DEF Locked, OneScheduler, NoLock
      <3>2. pc'[s] # "idle" => pollLock' = "scheduler"
        BY <2>1, <2>2, <2>4
      <3> QED
        BY <2>4, <3>1, <3>2, Kinds DEF OneScheduler
    <2>6. OneTrigger'
      <3>1. NothingTaken
        BY <2>3, Zenon DEF NothingTaken
      <3> QED
        BY <3>1, OneTriggerStays DEF Locked
    <2>7. LocksHeld'
      <3>1. \A b \in Actors : pc'[b] \in Holding =>
               pc[b] \in Holding /\ exe'[b] = exe[b] /\ execLock'[exe[b]] = execLock[exe[b]]
        BY <2>3, <2>4 DEF Holding
      <3> QED
        BY <3>1, LocksStay DEF Locked
    <2> QED
      BY <2>5, <2>6, <2>7 DEF Locked
  <1>2. CASE FetchDue(s)
    <2>1. /\ pc' = [pc EXCEPT ![s] = "next"] /\ pc[s] = "fetch" /\ exe[s] = Nobody
          /\ todo' = todo \/ todo' = [todo EXCEPT ![s] = {e \in Executions : Due(row[e])}]
          /\ UNCHANGED <<exe, row, execLock, pollLock>>
      BY <1>2 DEF FetchDue, Goto, Typed, Placed
    <2>2. /\ pc'[s] = "next" /\ \A b \in Actors \ {s} : pc'[b] = pc[b]
          /\ \A r \in Schedulers : \A e \in todo'[r] : e \in todo[r] \/ row[e].st = "waiting"
          /\ \A r \in Schedulers \ {s} : todo'[r] = todo[r]
          /\ todo'[s] \subseteq Executions
      BY <2>1, <1>s DEF Typed, TypeOK, Due
    <2>3. OneScheduler'
      BY <2>1, <2>2, Kinds, OneSchedulerStays DEF Locked
    <2>4. OneTrigger'
      <3>1. \A r \in Schedulers, e \in Executions : e \in todo'[r] \/ exe'[r] = e => row'[e].st # "none"
        BY <2>1, <2>2 DEF Locked, OneTrigger
      <3>2. \A r \in Schedulers : exe'[r] \notin todo'[r]
        BY <2>1, <2>2, Kinds DEF Locked, OneTrigger
      <3> QED
        BY <2>1, <3>1, <3>2 DEF Locked, OneTrigger
    <2>5. LocksHeld'
      <3>1. \A b \in Actors : pc'[b] \in Holding =>
               pc[b] \in Holding /\ exe'[b] = exe[b] /\ execLock'[exe[b]] = execLock[exe[b]]
        BY <2>1, <2>2 DEF Holding
      <3> QED
        BY <3>1, LocksStay DEF Locked
    <2> QED
      BY <2>3, <2>4, <2>5 DEF Locked
  <1>3. CASE TakeNext(s)
    <2>1. PICK e \in todo[s] :
              /\ e \in Executions /\ exe[s] = Nobody /\ pc[s] = "next"
              /\ todo' = [todo EXCEPT ![s] = @ \ {e}]
              /\ \/ /\ pc' = [pc EXCEPT ![s] = "next"] /\ exe' = exe /\ execLock' = execLock
                 \/ /\ pc' = [pc EXCEPT ![s] = "next"] /\ exe' = exe
                    /\ execLock[e] = NoLock
                    /\ execLock' = [execLock EXCEPT ![e] = "scheduler-resume"]
                 \/ /\ pc' = [pc EXCEPT ![s] = "reload"] /\ exe' = [exe EXCEPT ![s] = e]
                    /\ execLock[e] = NoLock
                    /\ execLock' = [execLock EXCEPT ![e] = "scheduler-resume"]
              /\ UNCHANGED <<msg, outside, row, stream, pollLock, node>>
      BY <1>3, TakeFacts
    <2>2. \A b \in Actors \ {s} : pc'[b] = pc[b] /\ exe'[b] = exe[b]
      BY <2>1 DEF Typed, TypeOK
    <2>3. \/ pc'[s] = "next" /\ exe'[s] = Nobody
          \/ pc'[s] = "reload" /\ exe'[s] = e /\ execLock'[e] = "scheduler-resume"
      BY <1>s, <2>1 DEF Typed, TypeOK
    <2>4. \A d \in Executions : execLock[d] # NoLock => execLock'[d] = execLock[d]
      BY <2>1 DEF Typed, TypeOK
    <2>5. todo'[s] = todo[s] \ {e} /\ \A r \in Schedulers \ {s} : todo'[r] = todo[r]
      BY <2>1 DEF Typed, TypeOK
    <2>6. OneScheduler'
      BY <2>1, <2>2, Kinds, OneSchedulerStays DEF Locked
    <2>7. OneTrigger'
      <3>1. \A r \in Schedulers, d \in Executions : d \in todo'[r] \/ exe'[r] = d => row'[d].st # "none"
        BY <2>1, <2>2, <2>3, <2>5, Kinds DEF Locked, OneTrigger
      <3>2. \A r \in Schedulers : exe'[r] \notin todo'[r]
        BY <2>1, <2>2, <2>3, <2>5, Kinds DEF Locked, OneTrigger
      <3>3. \A w \in Workers : exe'[w] = exe[w]
        BY <2>2, Kinds
      <3> QED
        BY <2>1, <3>1, <3>2, <3>3 DEF Locked, OneTrigger
    <2>8. LocksHeld'
      <3>1. ASSUME NEW b \in Actors, b # s, pc'[b] \in Holding, exe'[b] \in Executions
            PROVE  pc[b] \in Holding /\ exe'[b] = exe[b] /\ execLock'[exe[b]] = execLock[exe[b]]
        <4>1. execLock[exe[b]] = Value(b)
          BY <2>2, <3>1 DEF Locked, LocksHeld
        <4> QED
          BY <2>2, <2>4, <3>1, <4>1 DEF Value, NoLock
      <3>2. exe'[s] \in Executions => execLock'[exe'[s]] = Value(s)
        BY <1>s, <2>3, Kinds DEF Value
      <3> QED
        BY <3>1, <3>2, LocksStay DEF Locked
    <2> QED
      BY <2>6, <2>7, <2>8 DEF Locked
  <1>4. CASE Reload(s) \/ Refetch(s)
    <2>1. /\ \E p \in {"fail", "refetch", "move", "unlock"} : pc' = [pc EXCEPT ![s] = p]
          /\ pc[s] \in {"reload", "refetch"}
          /\ UNCHANGED <<exe, row, todo, execLock, pollLock>>
      BY <1>4 DEF Reload, Refetch, Goto
    <2>2. NothingTaken
      BY <2>1, Zenon DEF NothingTaken
    <2>3. pc[s] # "idle" /\ pc[s] \in Holding
      BY <2>1 DEF Holding
    <2> QED
      BY <1>s, <2>1, <2>2, <2>3, LockedQuiet DEF PCs
  <1>5. CASE Unlock(s)
    <2>1. /\ Freed(exe[s], "scheduler-resume") /\ exe[s] \in Executions /\ pc[s] = "unlock"
          /\ pc' = [pc EXCEPT ![s] = "next"] /\ exe' = [exe EXCEPT ![s] = Nobody]
          /\ UNCHANGED <<row, pollLock, todo>>
      BY <1>5, <1>s DEF Unlock, Goto, Engaged, Typed, Placed
    <2>2. /\ \A a \in Actors \ {s} : pc'[a] = pc[a] /\ exe'[a] = exe[a]
          /\ pc'[s] = "next" /\ exe'[s] = Nobody
      BY <1>s, <2>1 DEF Typed, TypeOK
    <2>3. \A d \in Executions : execLock[d] # "scheduler-resume" => execLock'[d] = execLock[d]
      BY <2>1, FreedFacts
    <2>4. OneScheduler'
      BY <2>1, <2>2, Kinds, OneSchedulerStays DEF Locked
    <2>5. OneTrigger'
      <3>1. NothingTaken
        BY <2>1, <2>2 DEF NothingTaken
      <3> QED
        BY <3>1, OneTriggerStays DEF Locked
    <2>6. LocksHeld'
      <3>1. ASSUME NEW b \in Actors, pc'[b] \in Holding, exe'[b] \in Executions
            PROVE  pc[b] \in Holding /\ exe'[b] = exe[b] /\ execLock'[exe[b]] = execLock[exe[b]]
        <4>1. b # s /\ pc[b] \in Holding /\ exe'[b] = exe[b] /\ execLock[exe[b]] = Value(b)
          BY <2>2, <3>1, Kinds DEF Locked, LocksHeld
        <4>2. CASE b \in Workers
          BY <2>3, <3>1, <4>1, <4>2 DEF Value
        <4>3. CASE b \in Schedulers
          \* Another scheduler is idle.
          BY <2>1, <4>1, <4>3 DEF Locked, OneScheduler, Holding
        <4> QED
          BY <4>2, <4>3, Kinds
      <3> QED
        BY <3>1, LocksStay DEF Locked
    <2> QED
      BY <2>4, <2>5, <2>6 DEF Locked
  <1>6. CASE EndPoll(s)
    <2>1. /\ pc' = [pc EXCEPT ![s] = "idle"] /\ pc[s] = "next"
          /\ UNCHANGED <<exe, row, todo, execLock>>
      BY <1>6 DEF EndPoll, Goto
    <2>2. pc'[s] = "idle" /\ \A b \in Actors \ {s} : pc'[b] = pc[b]
      BY <1>s, <2>1 DEF Typed, TypeOK
    <2>3. OneScheduler'
      BY <2>1, <2>2, Kinds DEF Locked, OneScheduler
    <2>4. OneTrigger'
      <3>1. NothingTaken
        BY <2>1, Zenon DEF NothingTaken
      <3> QED
        BY <3>1, OneTriggerStays DEF Locked
    <2>5. LocksHeld'
      <3>1. \A b \in Actors : pc'[b] \in Holding =>
               pc[b] \in Holding /\ exe'[b] = exe[b] /\ execLock'[exe[b]] = execLock[exe[b]]
        BY <2>1, <2>2 DEF Holding
      <3> QED
        BY <3>1, LocksStay DEF Locked
    <2> QED
      BY <2>3, <2>4, <2>5 DEF Locked
  <1> QED
    BY <1>1, <1>2, <1>3, <1>4, <1>5, <1>6 DEF Resume

\* Locks run out only when nobody believes to hold them.
LEMMA LockedAround ==
    ASSUME Typed, Locked, LocksLast, Around \/ UNCHANGED vars
    PROVE  Locked'
  <1>1. ASSUME NEW t \in Triggers, ExpireAckWait(t) PROVE Locked'
    <2>1. UNCHANGED <<row, execLock, pollLock, pc, exe, todo>>
      BY <1>1 DEF ExpireAckWait
    <2> QED
      BY <2>1, Zenon DEF Locked, OneScheduler, OneTrigger, LocksHeld
  <1>2. ASSUME NEW e \in Executions, ExpireExecLock(e) PROVE Locked'
    <2>1. /\ UNCHANGED <<row, pollLock, pc, exe, todo>>
          /\ \A a \in Actors : exe[a] # e \/ pc[a] \notin Holding
          /\ execLock' = [execLock EXCEPT ![e] = NoLock]
      BY <1>2 DEF ExpireExecLock, Fault, LocksLast
    <2>2. OneScheduler' /\ OneTrigger'
      BY <2>1, Zenon DEF Locked, OneScheduler, OneTrigger
    <2>3. LocksHeld'
      BY <2>1 DEF Locked, LocksHeld, Typed, TypeOK, Value
    <2> QED
      BY <2>2, <2>3 DEF Locked
  <1>3. ASSUME NEW e \in Executions, BecomeDue(e) PROVE Locked'
    <2>1. UNCHANGED <<execLock, pollLock, pc, exe, todo>>
      BY <1>3 DEF BecomeDue
    <2>2. \A d \in Executions : row'[d].st = row[d].st
      BY <1>3 DEF BecomeDue, Typed, TypeOK
    <2>3. NothingTaken
      BY <2>1, <2>2 DEF NothingTaken
    <2>4. OneTrigger'
      BY <2>3, OneTriggerStays DEF Locked
    <2>5. OneScheduler' /\ LocksHeld'
      BY <2>1, Zenon DEF Locked, OneScheduler, LocksHeld
    <2> QED
      BY <2>4, <2>5 DEF Locked
  <1>4. CASE ExpirePollLock
    <2>1. /\ UNCHANGED <<row, execLock, pc, exe, todo>>
          /\ \A s \in Schedulers : pc[s] = "idle"
      BY <1>4 DEF ExpirePollLock, Fault, LocksLast
    <2> QED
      BY <2>1 DEF Locked, OneScheduler, OneTrigger, LocksHeld
  <1>5. CASE EditWorkflow \/ UNCHANGED vars
    <2>1. UNCHANGED <<row, execLock, pollLock, pc, exe, todo>>
      BY <1>5 DEF EditWorkflow, vars
    <2> QED
      BY <2>1, Zenon DEF Locked, OneScheduler, OneTrigger, LocksHeld
  <1> QED
    BY <1>1, <1>2, <1>3, <1>4, <1>5 DEF Around

\* Every step keeps the locks with those who believe they hold them.
LEMMA LockedStep == Typed /\ Locked /\ LocksLast /\ [Next]_vars => Locked'
  BY StepCases, LockedTrigger, LockedExecute, LockedScheduler, LockedAround

-----------------------------------------------------------------------------
(***************************************************************************)
(* Who runs an execution                                                   *)
(***************************************************************************)
\* What the statements of a run leave: the row as it was and the run given up, or
\* the next node, the end, or the delay, written.
LEMMA WroteFacts ==
    ASSUME Typed, NEW a \in Actors, MoveOn(a) \/ ScheduleDelay(a) \/ CompleteExecution(a)
    PROVE  LET e == exe[a]  next == graph.next[node[a]] IN
           /\ e \in Executions /\ node[a] \in Nodes /\ pc[a] \in {"run", "move"}
           /\ \A b \in Actors \ {a} : pc'[b] = pc[b] /\ node'[b] = node[b]
           /\ \A d \in Executions \ {e} : row'[d] = row[d]
           /\ \/ row'[e] = row[e] /\ pc'[a] = "fail"
              \/ /\ MoveOn(a) /\ next = NoNode
                 /\ row'[e].st = "completed" /\ pc'[a] \in {"fail", "answer", "unlock"}
              \/ /\ MoveOn(a) /\ next # NoNode /\ row'[e].st = "running"
                 /\ pc'[a] = "fail" \/ (pc'[a] = "run" /\ node'[a] = next)
              \/ /\ ScheduleDelay(a) /\ row'[e].st = "waiting" /\ row'[e].node = node[a]
                 /\ pc'[a] \in {"fail", "answer", "unlock"}
              \/ /\ CompleteExecution(a)
                 /\ row'[e].st = "completed" /\ pc'[a] \in {"fail", "answer", "unlock"}
           /\ UNCHANGED <<mail, unaddressed, graph, exe, todo>>
  <1> DEFINE e == exe[a]  next == graph.next[node[a]]
  <1>1. /\ e \in Executions /\ node[a] \in Nodes
        /\ UNCHANGED <<mail, unaddressed, graph, exe, todo>>
    BY WritesFacts DEF outside, stream
  <1>2. pc[a] \in {"run", "move"}
    BY DEF MoveOn, ScheduleDelay, CompleteExecution, Runs
  <1>3. row[e] \in Rows /\ next \in Places /\ node[a] \in Places
    BY <1>1 DEF Typed, TypeOK, Rows, Places
  \* One statement, whatever it writes.
  <1>4. ASSUME NEW new \in Rows, NEW last \in BOOLEAN, NEW p \in PCs, Wrote(a, new, last, p)
        PROVE  /\ pc'[a] = p /\ p \in {"fail", "answer", "unlock", "run"}
               /\ p = "run" => ~last /\ node'[a] = new.node
               /\ last => p \in {"fail", "answer", "unlock"}
               /\ ~last => p \in {"fail", "run"}
               /\ \A b \in Actors \ {a} : pc'[b] = pc[b] /\ node'[b] = node[b]
               /\ \A d \in Executions \ {e} : row'[d] = row[d]
               /\ row'[e] = new \/ (row'[e] = row[e] /\ p = "fail")
    <2>1. pc'[a] = p /\ \A b \in Actors \ {a} : pc'[b] = pc[b]
      BY <1>4 DEF Wrote, Goes, Typed, TypeOK
    <2>2. /\ p \in {"fail", "answer", "unlock", "run"}
          /\ last => p \in {"fail", "answer", "unlock"}
          /\ ~last => p \in {"fail", "run"}
      BY <1>4 DEF Wrote
    <2>3. /\ p = "run" => node'[a] = new.node
          /\ \A b \in Actors \ {a} : node'[b] = node[b]
      BY <1>4 DEF Wrote, Typed, TypeOK
    <2>4. /\ \A d \in Executions \ {e} : row'[d] = row[d]
          /\ row'[e] = new \/ (row'[e] = row[e] /\ p = "fail")
      BY <1>1, <1>4 DEF Wrote, Typed, TypeOK
    <2> QED
      BY <2>1, <2>2, <2>3, <2>4
  <1>10. \A x \in Rows, n \in Places :
             /\ Advanced(x, n) \in Rows /\ Advanced(x, n).st = "running" /\ Advanced(x, n).node = n
             /\ Delayed(x, n) \in Rows /\ Delayed(x, n).st = "waiting" /\ Delayed(x, n).node = n
    <2> SUFFICES ASSUME NEW x \in Rows, NEW n \in Places
                 PROVE  /\ Advanced(x, n) \in Rows /\ Advanced(x, n).st = "running"
                        /\ Advanced(x, n).node = n
                        /\ Delayed(x, n) \in Rows /\ Delayed(x, n).st = "waiting"
                        /\ Delayed(x, n).node = n
      OBVIOUS
    <2> QED
      BY RowFacts, Zenon
  \* The statement that is the last of the run, and the one that is not.
  <1>8. ASSUME NEW new \in Rows, NEW p \in PCs, Wrote(a, new, TRUE, p)
        PROVE  /\ pc'[a] = p /\ p \in {"fail", "answer", "unlock"}
               /\ \A b \in Actors \ {a} : pc'[b] = pc[b] /\ node'[b] = node[b]
               /\ \A d \in Executions \ {e} : row'[d] = row[d]
               /\ row'[e] = new \/ (row'[e] = row[e] /\ p = "fail")
    BY <1>4, <1>8, Zenon
  <1>9. ASSUME NEW new \in Rows, NEW p \in PCs, Wrote(a, new, FALSE, p)
        PROVE  /\ pc'[a] = p /\ p \in {"fail", "run"}
               /\ p = "run" => node'[a] = new.node
               /\ \A b \in Actors \ {a} : pc'[b] = pc[b] /\ node'[b] = node[b]
               /\ \A d \in Executions \ {e} : row'[d] = row[d]
               /\ row'[e] = new \/ (row'[e] = row[e] /\ p = "fail")
    BY <1>4, <1>9, Zenon
  <1> DEFINE r == row[e]
  <1>5. CASE MoveOn(a)
    <2>1. PICK p \in PCs :
             \/ MoveOn(a) /\ Wrote(a, Moved(a), graph.next[node[a]] = NoNode, p)
             \/ ScheduleDelay(a) /\ Wrote(a, Delayed(row[exe[a]], node[a]), TRUE, p)
             \/ CompleteExecution(a) /\ Wrote(a, Completed(row[exe[a]]), TRUE, p)
      BY <1>5, WritesFacts, Zenon
    <2>2. ~ScheduleDelay(a) /\ ~CompleteExecution(a)
      <3>1. CASE pc[a] = "move"
        BY <3>1 DEF ScheduleDelay, CompleteExecution, Runs
      <3>2. CASE pc[a] = "run"
        <4>1. graph.kind[node[a]] = "trigger"
          BY <1>5, <3>2 DEF MoveOn
        <4> QED
          BY <4>1 DEF ScheduleDelay, CompleteExecution, Runs
      <3> QED
        BY <1>2, <3>1, <3>2
    <2>3. Wrote(a, Moved(a), next = NoNode, p)
      BY <1>5, <2>1, <2>2
    <2>4. CASE next = NoNode
      <3>1. Moved(a) = Completed(r) /\ Wrote(a, Completed(r), TRUE, p)
        BY <2>3, <2>4, Zenon DEF Moved
      <3>2. Completed(r) \in Rows /\ Completed(r).st = "completed"
        BY <1>3, RowFacts
      <3>3. /\ pc'[a] \in {"fail", "answer", "unlock"} /\ pc'[a] = p
            /\ \A b \in Actors \ {a} : pc'[b] = pc[b] /\ node'[b] = node[b]
            /\ \A d \in Executions \ {e} : row'[d] = row[d]
            /\ row'[e] = Completed(r) \/ (row'[e] = row[e] /\ p = "fail")
        BY <1>8, <3>1, <3>2, Zenon
      <3> QED
        BY <1>1, <1>2, <1>5, <2>4, <3>2, <3>3, Zenon
    <2>5. CASE next # NoNode
      <3>1. Moved(a) = Advanced(r, next) /\ Wrote(a, Advanced(r, next), FALSE, p)
        BY <2>3, <2>5, Zenon DEF Moved
      <3>2. /\ Advanced(r, next) \in Rows /\ Advanced(r, next).st = "running"
            /\ Advanced(r, next).node = next
        BY <1>3, <1>10
      <3>3. /\ pc'[a] = p /\ p \in {"fail", "run"}
            /\ p = "run" => node'[a] = Advanced(r, next).node
            /\ \A b \in Actors \ {a} : pc'[b] = pc[b] /\ node'[b] = node[b]
            /\ \A d \in Executions \ {e} : row'[d] = row[d]
            /\ row'[e] = Advanced(r, next) \/ (row'[e] = row[e] /\ p = "fail")
        BY <1>9, <3>1, <3>2, Zenon
      <3>4. \/ row'[e] = row[e] /\ pc'[a] = "fail"
            \/ /\ row'[e].st = "running"
               /\ pc'[a] = "fail" \/ (pc'[a] = "run" /\ node'[a] = next)
        <4>1. CASE row'[e] = row[e] /\ p = "fail"
          BY <3>3, <4>1, Zenon
        <4>2. CASE row'[e] = Advanced(r, next)
          <5>1. row'[e].st = "running"
            BY <3>2, <4>2
          <5>2. pc'[a] = "fail" \/ (pc'[a] = "run" /\ node'[a] = next)
            BY <3>2, <3>3
          <5> QED
            BY <5>1, <5>2
        <4> QED
          BY <3>3, <4>1, <4>2, Zenon
      <3> QED
        BY <1>1, <1>2, <1>5, <2>5, <3>3, <3>4, Zenon
    <2> QED
      BY <2>4, <2>5
  <1>6. CASE ScheduleDelay(a)
    <2>1. ~MoveOn(a) /\ ~CompleteExecution(a)
      BY <1>6 DEF ScheduleDelay, CompleteExecution, MoveOn, Runs
    <2>2. PICK p \in PCs : Wrote(a, Delayed(r, node[a]), TRUE, p)
      BY <1>6, <2>1, WritesFacts, Zenon
    <2>3. /\ Delayed(r, node[a]) \in Rows /\ Delayed(r, node[a]).st = "waiting"
          /\ Delayed(r, node[a]).node = node[a]
      BY <1>3, <1>10
    <2>4. /\ pc'[a] = p /\ p \in {"fail", "answer", "unlock"}
          /\ \A b \in Actors \ {a} : pc'[b] = pc[b] /\ node'[b] = node[b]
          /\ \A d \in Executions \ {e} : row'[d] = row[d]
          /\ row'[e] = Delayed(r, node[a]) \/ (row'[e] = row[e] /\ p = "fail")
      BY <1>8, <2>2, <2>3, Zenon
    <2> QED
      BY <1>1, <1>2, <1>6, <2>3, <2>4, Zenon
  <1>7. CASE CompleteExecution(a)
    <2>1. ~MoveOn(a) /\ ~ScheduleDelay(a)
      BY <1>7 DEF ScheduleDelay, CompleteExecution, MoveOn, Runs
    <2>2. PICK p \in PCs : Wrote(a, Completed(r), TRUE, p)
      BY <1>7, <2>1, WritesFacts, Zenon
    <2>3. Completed(r) \in Rows /\ Completed(r).st = "completed"
      BY <1>3, RowFacts
    <2>4. /\ pc'[a] = p /\ p \in {"fail", "answer", "unlock"}
          /\ \A b \in Actors \ {a} : pc'[b] = pc[b] /\ node'[b] = node[b]
          /\ \A d \in Executions \ {e} : row'[d] = row[d]
          /\ row'[e] = Completed(r) \/ (row'[e] = row[e] /\ p = "fail")
      BY <1>8, <2>2, <2>3, Zenon
    <2> QED
      BY <1>1, <1>2, <1>7, <2>3, <2>4, Zenon
  <1> QED
    BY <1>5, <1>6, <1>7

\* Where the executor is after a step, and what the row says then.
LEMMA ExecuteRow ==
    ASSUME Typed, NEW a \in Actors, Execute(a)
    PROVE  /\ pc'[a] = "run" => row'[exe[a]].st = "running"
           /\ pc'[a] = "move" => pc[a] = "run" /\ row' = row
           /\ pc[a] = "fail" => row'[exe[a]] = row[exe[a]] \/ row'[exe[a]].st = "failed"
           /\ pc'[a] = "idle" => FALSE
  <1>1. CASE MoveOn(a) \/ ScheduleDelay(a) \/ CompleteExecution(a)
    BY <1>1, WroteFacts
  <1>2. CASE SkipEmail(a)
    <2>1. pc[a] = "run" /\ pc'[a] \in {"move", "fail"} /\ row' = row
      BY <1>2 DEF SkipEmail, Runs, Goto, GiveUp, Typed, TypeOK
    <2> QED
      BY <2>1
  <1>3. CASE PublishEmail(a)
    <2>1. pc[a] = "run" /\ pc'[a] \in {"move", "fail"} /\ row' = row
      BY <1>3, PublishFacts DEF Typed, TypeOK
    <2> QED
      BY <2>1
  <1>4. CASE RejectNode(a)
    <2>1. pc[a] \in {"run", "move"} /\ pc'[a] = "fail"
      BY <1>4 DEF RejectNode, Runs, GiveUp, Goto, Typed, TypeOK
    <2> QED
      BY <2>1
  <1>5. CASE FailExecution(a)
    <2> DEFINE r == Failed(row[exe[a]])
    <2>1. /\ pc[a] = "fail" /\ exe[a] \in Executions /\ pc'[a] \in {"answer", "unlock"}
          /\ row' \in {row, [row EXCEPT ![exe[a]] = r]}
      BY <1>5, FailFacts DEF Typed, TypeOK
    <2>2. r.st = "failed"
      <3>1. row[exe[a]] \in Rows /\ NoNode \in Places
        BY <2>1 DEF Typed, TypeOK, Rows, Places
      <3> QED
        BY <3>1, RowFacts
    <2>3. row'[exe[a]] = row[exe[a]] \/ row'[exe[a]] = r
      <3> HIDE DEF r
      <3> QED
        BY <2>1 DEF Typed, TypeOK
    <2> QED
      BY <2>1, <2>2, <2>3
  <1> QED
    BY <1>1, <1>2, <1>3, <1>4, <1>5 DEF Execute

\* Nobody runs anything at first.
LEMMA OwnedInit == Init => Owned
  BY Kinds DEF Init, Owned, TriggerRuns, ResumedRuns, DueIfWaiting, AtWork

\* A step that starts no run, takes nothing up and writes no status.
Unmoved ==
    /\ \A w \in Workers : pc'[w] \in AtWork => pc[w] \in AtWork /\ exe'[w] = exe[w]
    /\ \A s \in Schedulers : pc'[s] = "run" => pc[s] = "run" /\ exe'[s] = exe[s]
    /\ \A s \in Schedulers : pc'[s] \in {"reload", "refetch", "move"} =>
          pc[s] \in {"reload", "refetch", "move"} /\ exe'[s] = exe[s]
    /\ \A s \in Schedulers : exe'[s] = exe[s] \/ exe'[s] = Nobody
    /\ \A s \in Schedulers : todo'[s] \subseteq todo[s]
    /\ \A e \in Executions : row'[e].st = row[e].st /\ (row[e].due = TRUE => row'[e].due = TRUE)

\* Such a step changes nothing about who runs what.
LEMMA OwnedStays == ASSUME Typed, Owned, Unmoved PROVE Owned'
  <1>1. TriggerRuns'
    <2>1. \A w \in Workers : pc[w] \in AtWork => exe[w] \in Executions
      BY Kinds DEF Typed, Placed, AtWork, Engaged
    <2> QED
      BY <2>1, Kinds DEF Owned, TriggerRuns, Unmoved
  <1>2. ResumedRuns'
    <2>1. \A s \in Schedulers : pc[s] = "run" => exe[s] \in Executions
      BY Kinds DEF Typed, Placed, Engaged
    <2> QED
      BY <2>1, Kinds DEF Owned, ResumedRuns, Unmoved
  <1>3. DueIfWaiting'
    BY Kinds DEF Owned, DueIfWaiting, Unmoved
  <1> QED
    BY <1>1, <1>2, <1>3 DEF Owned

\* An execution its trigger is about to create is nobody else's.
LEMMA OwnedTrigger ==
    ASSUME Typed, Locked, Owned, NEW w \in Workers,
           WorkTrigger(w) \/ \E t \in Triggers : Receive(w, t)
    PROVE  Owned'
  <1>w. w \in Actors /\ w \notin Schedulers
    BY Kinds
  <1>1. ASSUME NEW p \in WorkerPCs, pc' = [pc EXCEPT ![w] = p],
               p \in AtWork => pc[w] \in AtWork /\ exe' = exe,
               exe' = exe \/ exe' = [exe EXCEPT ![w] = Nobody],
               row' = row, todo' = todo
        PROVE  Owned'
    <2>1. /\ \A b \in Actors \ {w} : pc'[b] = pc[b] /\ exe'[b] = exe[b]
          /\ pc'[w] = p
      BY <1>1, <1>w DEF Typed, TypeOK
    <2>2. Unmoved
      BY <1>1, <2>1, Kinds DEF Unmoved
    <2> QED
      BY <2>2, OwnedStays
  <1>2. ASSUME NEW t \in Triggers, Receive(w, t) PROVE Owned'
    <2>1. /\ \E p \in {"load", "answer"} : pc' = [pc EXCEPT ![w] = p]
          /\ UNCHANGED <<exe, row, todo>>
      BY <1>2 DEF Receive
    <2> QED
      BY <1>1, <2>1 DEF WorkerPCs, AtWork
  <1>3. CASE LoadWorkflow(w)
    <2>1. /\ \E p \in {"create", "answer"} : pc' = [pc EXCEPT ![w] = p]
          /\ UNCHANGED <<exe, row, todo>>
      BY <1>3 DEF LoadWorkflow, Answer, Goto
    <2> QED
      BY <1>1, <2>1 DEF WorkerPCs, AtWork
  <1>4. CASE CreateExecution(w)
    <2>1. PICK e \in Executions :
              /\ exe[w] = Nobody /\ pc[w] = "create"
              /\ \/ /\ pc' = [pc EXCEPT ![w] = "answer"] /\ exe' = exe
                    /\ row' = row \/ (row[e].st = "none" /\ row' = [row EXCEPT ![e] = Created(row[e])])
                 \/ /\ pc' = [pc EXCEPT ![w] = "lock"] /\ exe' = [exe EXCEPT ![w] = e]
                    /\ row[e].st = "none" /\ row' = [row EXCEPT ![e] = Created(row[e])]
              /\ UNCHANGED <<msg, outside, stream, execLock, pollLock, node, todo>>
      BY <1>4, CreateFacts
    <2>2. CASE row' = row /\ pc' = [pc EXCEPT ![w] = "answer"] /\ exe' = exe
      BY <1>1, <2>1, <2>2 DEF WorkerPCs, AtWork
    <2>3. CASE row[e].st = "none" /\ row' = [row EXCEPT ![e] = Created(row[e])]
      <3> DEFINE r == Created(row[e])
      <3>1. r.st = "running"
        <4>1. row[e] \in Rows /\ NoNode \in Places
          BY DEF Typed, TypeOK, Rows, Places
        <4> QED
          BY <4>1, RowFacts
      <3>2. row'[e].st = "running" /\ \A d \in Executions \ {e} : row'[d] = row[d]
        <4>1. row' = [row EXCEPT ![e] = r]
          BY <2>3
        <4> HIDE DEF r
        <4> QED
          BY <3>1, <4>1 DEF Typed, TypeOK
      <3>3. /\ \A b \in Actors \ {w} : pc'[b] = pc[b] /\ exe'[b] = exe[b]
            /\ pc'[w] \in AtWork => exe'[w] = e
        BY <1>w, <2>1 DEF Typed, TypeOK, AtWork
      <3>4. /\ \A s \in Schedulers : exe[s] # e /\ e \notin todo[s]
            /\ \A v \in Workers : exe[v] # e
        BY <2>3 DEF Locked, OneTrigger
      <3>5. TriggerRuns'
        <4>1. \A v \in Workers : pc[v] \in AtWork => exe[v] \in Executions
          BY Kinds DEF Typed, Placed, AtWork, Engaged
        <4>2. \A s \in Schedulers : exe'[s] = exe[s] /\ todo'[s] = todo[s]
          BY <2>1, <3>3, Kinds
        <4>3. ASSUME NEW v \in Workers, v # w, pc'[v] \in AtWork
              PROVE  /\ row'[exe'[v]].st = "running"
                     /\ \A s \in Schedulers : exe'[s] # exe'[v] /\ exe'[v] \notin todo'[s]
          BY <3>2, <3>3, <3>4, <4>1, <4>2, <4>3, Kinds DEF Owned, TriggerRuns
        <4>4. ASSUME pc'[w] \in AtWork
              PROVE  /\ row'[exe'[w]].st = "running"
                     /\ \A s \in Schedulers : exe'[s] # exe'[w] /\ exe'[w] \notin todo'[s]
          BY <3>2, <3>3, <3>4, <4>2, <4>4
        <4> QED
          BY <4>3, <4>4 DEF TriggerRuns
      <3>6. ResumedRuns'
        <4>1. \A s \in Schedulers : pc[s] = "run" => exe[s] \in Executions
          BY Kinds DEF Typed, Placed, Engaged
        <4> QED
          BY <3>2, <3>3, <3>4, <4>1, Kinds DEF Owned, ResumedRuns
      <3>7. DueIfWaiting'
        BY <2>1, <3>2, <3>3, Kinds DEF Owned, DueIfWaiting
      <3> QED
        BY <3>5, <3>6, <3>7 DEF Owned
    <2> QED
      BY <2>1, <2>2, <2>3
  <1>5. CASE AcquireLock(w)
    <2>1. /\ pc[w] = "lock"
          /\ \/ /\ pc' = [pc EXCEPT ![w] = "answer"] /\ exe' = [exe EXCEPT ![w] = Nobody]
             \/ /\ pc' = [pc EXCEPT ![w] = IF node[w] = NoNode THEN "fail" ELSE "run"]
                /\ exe' = exe
          /\ UNCHANGED <<row, todo>>
      BY <1>5, AcquireFacts
    <2>2. \E p \in {"answer", "fail", "run"} : pc' = [pc EXCEPT ![w] = p] /\ (p = "run" => exe' = exe)
      BY <2>1
    <2> QED
      BY <1>1, <2>1, <2>2 DEF WorkerPCs, AtWork
  <1>6. CASE AnswerMessage(w) \/ ReleaseLock(w)
    <2>1. /\ \E p \in {"idle", "release"} : pc' = [pc EXCEPT ![w] = p]
          /\ exe' = exe \/ exe' = [exe EXCEPT ![w] = Nobody]
          /\ UNCHANGED <<row, todo>>
      BY <1>6 DEF AnswerMessage, ReleaseLock, ToIdle, Goto
    <2> QED
      BY <1>1, <2>1 DEF WorkerPCs, AtWork
  <1> QED
    BY <1>2, <1>3, <1>4, <1>5, <1>6 DEF WorkTrigger

\* Whoever runs an execution, or gives it up, has it to themselves.
LEMMA Apart ==
    ASSUME Typed, Locked, Owned, NEW a \in Actors, pc[a] \in {"run", "move", "fail"}
    PROVE  /\ exe[a] \in Executions
           /\ \A w \in Workers \ {a} : pc[w] \in AtWork => exe[w] # exe[a]
           /\ \A s \in Schedulers \ {a} : pc[s] \in Holding => exe[s] # exe[a]
           /\ pc[a] # "fail" => \A s \in Schedulers : exe[a] \notin todo[s]
           /\ a \in Schedulers => \A s \in Schedulers : exe[a] \notin todo[s]
  <1>1. exe[a] \in Executions
    BY DEF Typed, Placed, Engaged
  <1>2. CASE a \in Workers
    <2>1. \A w \in Workers \ {a} : exe[w] # exe[a]
      BY <1>1, <1>2 DEF Locked, OneTrigger
    <2>2. \A s \in Schedulers : pc[s] \in Holding => exe[s] # exe[a]
      <3>1. execLock[exe[a]] = "trigger"
        BY <1>1, <1>2 DEF Locked, LocksHeld, Holding, Value
      <3> QED
        BY <1>1, <3>1, Kinds DEF Locked, LocksHeld, Value
    <2>3. pc[a] # "fail" => \A s \in Schedulers : exe[a] \notin todo[s]
      BY <1>2 DEF Owned, TriggerRuns, AtWork
    <2> QED
      BY <1>1, <1>2, <2>1, <2>2, <2>3, Kinds
  <1>3. CASE a \in Schedulers
    <2>1. \A w \in Workers : pc[w] \in AtWork => exe[w] # exe[a]
      BY <1>3 DEF Owned, TriggerRuns
    <2>2. \A s \in Schedulers \ {a} : pc[s] = "idle" /\ todo[s] = {}
      BY <1>3 DEF Locked, OneScheduler, Typed, Placed
    <2>3. exe[a] \notin todo[a]
      BY <1>3 DEF Locked, OneTrigger
    <2> QED
      BY <1>1, <2>1, <2>2, <2>3 DEF Holding
  <1> QED
    BY <1>2, <1>3, Kinds

\* The executor's writes concern the execution it has to itself.
LEMMA OwnedExecute ==
    ASSUME Typed, Locked, Owned, NEW a \in Actors, Execute(a) \/ Crash(a)
    PROVE  Owned'
  <1>1. CASE Execute(a)
    <2> DEFINE e == exe[a]
    <2>1. /\ e \in Executions /\ pc[a] \in {"run", "move", "fail"}
          /\ \A b \in Actors \ {a} : pc'[b] = pc[b]
          /\ \A d \in Executions \ {e} : row'[d] = row[d]
          /\ exe' = exe /\ todo' = todo
      <3>1. /\ e \in Executions /\ pc[a] \in {"run", "move", "fail"}
            /\ \E p \in {"run", "move", "fail", "answer", "unlock"} : pc' = [pc EXCEPT ![a] = p]
            /\ \A d \in Executions \ {e} : row'[d] = row[d]
            /\ exe' = exe /\ todo' = todo
        BY <1>1, ExecuteFacts, Zenon
      <3>2. pc \in [Actors -> PCs]
        BY DEF Typed, TypeOK
      <3>3. \A b \in Actors \ {a} : pc'[b] = pc[b]
        BY <3>1, <3>2
      <3> QED
        BY <3>1, <3>3, Zenon
    <2>2. /\ \A w \in Workers \ {a} : pc[w] \in AtWork => exe[w] # e
          /\ \A s \in Schedulers \ {a} : pc[s] \in Holding => exe[s] # e
          /\ pc[a] # "fail" => \A s \in Schedulers : e \notin todo[s]
          /\ a \in Schedulers => \A s \in Schedulers : e \notin todo[s]
      BY <2>1, Apart
    <2>3. /\ pc'[a] = "run" => row'[e].st = "running"
          /\ pc'[a] = "move" => pc[a] = "run" /\ row' = row
          /\ pc[a] = "fail" => row'[e] = row[e] \/ row'[e].st = "failed"
          /\ pc'[a] \in {"run", "move", "fail", "answer", "unlock"}
      BY <1>1, ExecuteRow, ExecuteFacts DEF Typed, TypeOK
    <2>4. \A b \in Actors : pc[b] \in AtWork \cup {"reload", "refetch"} => exe[b] \in Executions
      BY DEF Typed, Placed, AtWork, Engaged
    <2>5. TriggerRuns'
      <3>1. ASSUME NEW w \in Workers, w # a, pc'[w] \in AtWork
            PROVE  /\ row'[exe[w]].st = "running"
                   /\ \A s \in Schedulers : exe[s] # exe[w] /\ exe[w] \notin todo[s]
        BY <2>1, <2>2, <2>4, <3>1, Kinds DEF Owned, TriggerRuns
      <3>2. ASSUME a \in Workers, pc'[a] \in AtWork
            PROVE  /\ row'[e].st = "running"
                   /\ \A s \in Schedulers : exe[s] # e /\ e \notin todo[s]
        <4>1. pc[a] \in AtWork
          <5>1. pc[a] # "fail"
            <6>1. pc[a] = "fail" => pc'[a] = "answer"
              BY <1>1, <3>2, Kinds DEF Execute, MoveOn, SkipEmail, PublishEmail, ScheduleDelay,
                 CompleteExecution, RejectNode, FailExecution, Runs, Answer, Typed, TypeOK
            <6> QED
              BY <3>2, <6>1 DEF AtWork
          <5> QED
            BY <2>1, <5>1 DEF AtWork
        <4> QED
          BY <2>3, <3>2, <4>1 DEF Owned, TriggerRuns, AtWork
      <3> QED
        BY <2>1, <3>1, <3>2 DEF TriggerRuns
    <2>6. ResumedRuns'
      BY <2>1, <2>2, <2>3, <2>4, Kinds DEF Owned, ResumedRuns, Holding, AtWork
    <2>7. DueIfWaiting'
      <3>1. ASSUME NEW s \in Schedulers, NEW d \in Executions, row'[d].st = "waiting",
                   d \in todo[s] \/ (exe[s] = d /\ pc'[s] \in {"reload", "refetch", "move"})
            PROVE  row'[d].due = TRUE
        <4>1. CASE d # e
          <5>1. s = a => exe[s] # d
            BY <4>1
          <5> QED
            BY <2>1, <3>1, <4>1, <5>1, Kinds DEF Owned, DueIfWaiting
        <4>2. CASE d = e /\ d \in todo[s]
          <5>1. pc[a] = "fail" /\ row'[d] = row[d]
            BY <2>1, <2>2, <2>3, <3>1, <4>2
          <5> QED
            BY <3>1, <4>2, <5>1 DEF Owned, DueIfWaiting
        <4>3. CASE d = e /\ exe[s] = d /\ pc'[s] \in {"reload", "refetch", "move"}
          <5>1. s = a
            BY <2>1, <2>2, <4>3, Kinds DEF Holding
          <5>2. pc[a] = "run" /\ row' = row
            BY <2>3, <4>3, <5>1
          <5>3. row[d].st = "running"
            BY <4>3, <5>1, <5>2 DEF Owned, ResumedRuns
          <5> QED
            BY <3>1, <5>2, <5>3
        <4> QED
          BY <3>1, <4>1, <4>2, <4>3
      <3> QED
        BY <2>1, <3>1 DEF DueIfWaiting
    <2> QED
      BY <2>5, <2>6, <2>7 DEF Owned
  <1>2. CASE Crash(a)
    <2>1. /\ \A b \in Actors \ {a} : pc'[b] = pc[b] /\ exe'[b] = exe[b]
          /\ pc'[a] = "idle" /\ exe'[a] = Nobody
          /\ \A s \in Schedulers : todo'[s] \subseteq todo[s]
          /\ row' = row
      BY <1>2 DEF Crash, ToIdle, Goto, Typed, TypeOK
    <2>2. Unmoved
      BY <2>1, Kinds DEF Unmoved, AtWork
    <2> QED
      BY <2>2, OwnedStays
  <1> QED
    BY <1>1, <1>2

\* A scheduler takes up what waits and is due.
LEMMA OwnedScheduler ==
    ASSUME Typed, Locked, Owned, NEW s \in Schedulers, Poll(s) \/ Resume(s)
    PROVE  Owned'
  <1>s. s \in Actors /\ s \notin Workers
    BY Kinds
  <1>1. ASSUME NEW p \in SchedulerPCs, pc' = [pc EXCEPT ![s] = p],
               p \in {"run", "reload", "refetch", "move"} =>
                  pc[s] \in {"reload", "refetch"} /\ exe' = exe /\ p # "run",
               exe' = exe \/ exe' = [exe EXCEPT ![s] = Nobody],
               row' = row, todo' = todo
        PROVE  Owned'
    <2>1. /\ \A b \in Actors \ {s} : pc'[b] = pc[b] /\ exe'[b] = exe[b]
          /\ pc'[s] = p /\ exe'[s] \in {exe[s], Nobody}
      BY <1>1, <1>s DEF Typed, TypeOK
    <2>2. Unmoved
      BY <1>1, <2>1, Kinds DEF Unmoved
    <2> QED
      BY <2>2, OwnedStays
  <1>2. CASE Poll(s) \/ Unlock(s) \/ EndPoll(s)
    <2>1. /\ \E p \in {"fetch", "idle", "next"} : pc' = [pc EXCEPT ![s] = p]
          /\ exe' = exe \/ exe' = [exe EXCEPT ![s] = Nobody]
          /\ UNCHANGED <<row, todo>>
      BY <1>2 DEF Poll, Unlock, EndPoll, Goto
    <2> QED
      BY <1>1, <2>1 DEF SchedulerPCs
  <1>3. CASE Reload(s) \/ Refetch(s)
    <2>1. /\ \E p \in {"fail", "refetch", "move", "unlock"} : pc' = [pc EXCEPT ![s] = p]
          /\ pc[s] \in {"reload", "refetch"}
          /\ UNCHANGED <<exe, row, todo>>
      BY <1>3 DEF Reload, Refetch, Goto
    <2> QED
      BY <1>1, <2>1 DEF SchedulerPCs
  <1>4. CASE FetchDue(s)
    <2>1. /\ pc' = [pc EXCEPT ![s] = "next"] /\ exe' = exe /\ row' = row
          /\ todo' = todo \/ todo' = [todo EXCEPT ![s] = {e \in Executions : Due(row[e])}]
      BY <1>4 DEF FetchDue, Goto
    <2>2. \A r \in Schedulers : \A e \in todo'[r] :
             e \in todo[r] \/ (row[e].st = "waiting" /\ row[e].due = TRUE)
      <3>1. \A e \in Executions : Due(row[e]) => row[e].st = "waiting" /\ row[e].due = TRUE
        BY DEF Due, Typed, TypeOK
      <3> QED
        BY <2>1, <3>1 DEF Typed, TypeOK
    <2>3. pc'[s] = "next" /\ \A b \in Actors \ {s} : pc'[b] = pc[b]
      BY <2>1, <1>s DEF Typed, TypeOK
    <2>4. TriggerRuns'
      <3>1. \A w \in Workers : pc'[w] = pc[w]
        BY <1>s, <2>3, Kinds
      <3> QED
        BY <2>1, <2>2, <3>1 DEF Owned, TriggerRuns
    <2>5. ResumedRuns'
      BY <2>1, <2>3, Kinds DEF Owned, ResumedRuns
    <2>6. DueIfWaiting'
      BY <2>1, <2>2, <2>3, Kinds DEF Owned, DueIfWaiting
    <2> QED
      BY <2>4, <2>5, <2>6 DEF Owned
  <1>5. CASE TakeNext(s)
    <2>1. PICK e \in todo[s] :
              /\ e \in Executions /\ exe[s] = Nobody /\ pc[s] = "next"
              /\ todo' = [todo EXCEPT ![s] = @ \ {e}]
              /\ \/ pc' = [pc EXCEPT ![s] = "next"] /\ exe' = exe
                 \/ pc' = [pc EXCEPT ![s] = "reload"] /\ exe' = [exe EXCEPT ![s] = e]
              /\ row' = row
      BY <1>5, TakeFacts
    <2>2. /\ \A b \in Actors \ {s} : pc'[b] = pc[b] /\ exe'[b] = exe[b]
          /\ \A r \in Schedulers : todo'[r] \subseteq todo[r]
          /\ \/ pc'[s] = "next" /\ exe'[s] = Nobody
             \/ pc'[s] = "reload" /\ exe'[s] = e
      BY <1>s, <2>1 DEF Typed, TypeOK
    <2>3. TriggerRuns'
      <3>1. \A w \in Workers : pc'[w] = pc[w] /\ exe'[w] = exe[w]
        BY <1>s, <2>2, Kinds
      <3>2. \A w \in Workers : pc[w] \in AtWork => exe[w] \in Executions /\ exe[w] # e
        BY Kinds DEF Owned, TriggerRuns, Typed, Placed, AtWork, Engaged
      <3> QED
        BY <2>1, <2>2, <3>1, <3>2, Kinds DEF Owned, TriggerRuns
    <2>4. ResumedRuns'
      BY <2>1, <2>2, Kinds DEF Owned, ResumedRuns
    <2>5. DueIfWaiting'
      BY <2>1, <2>2, Kinds DEF Owned, DueIfWaiting
    <2> QED
      BY <2>3, <2>4, <2>5 DEF Owned
  <1> QED
    BY <1>2, <1>3, <1>4, <1>5 DEF Resume

\* The timers write no status.
LEMMA OwnedAround == ASSUME Typed, Owned, Around \/ UNCHANGED vars PROVE Owned'
  <1>1. UNCHANGED <<pc, exe, todo>>
    BY DEF Around, ExpireAckWait, ExpireExecLock, BecomeDue, ExpirePollLock, EditWorkflow, vars
  <1>2. \A e \in Executions : row'[e].st = row[e].st /\ (row[e].due = TRUE => row'[e].due = TRUE)
    <2>1. CASE \E d \in Executions : BecomeDue(d)
      BY <2>1 DEF BecomeDue, Typed, TypeOK
    <2>2. CASE row' = row
      BY <2>2
    <2> QED
      BY <2>1, <2>2 DEF Around, ExpireAckWait, ExpireExecLock, ExpirePollLock, EditWorkflow, vars
  <1>3. Unmoved
    BY <1>1, <1>2 DEF Unmoved
  <1> QED
    BY <1>3, OwnedStays

\* Every step leaves each execution to the one who runs it.
LEMMA OwnedStep == Typed /\ Locked /\ Owned /\ [Next]_vars => Owned'
  BY StepCases, OwnedTrigger, OwnedExecute, OwnedScheduler, OwnedAround

-----------------------------------------------------------------------------
(***************************************************************************)
(* The course of an execution through its workflow                         *)
(***************************************************************************)
\* The way from n goes on from each of its nodes.
LEMMA WayGoesOn ==
    ASSUME NEW g, NEW n, NEW m \in Way(g, n), Onward(g, m) \in Nodes
    PROVE  Onward(g, m) \in Way(g, n)
  BY DEF Way, Followed

\* A node that is no email, or whose email is done with, is left behind.
LEMMA LeaveBehind ==
    ASSUME NEW e, NEW n \in Nodes, At(e, n),
           graph.kind[n] = "email" => mail[e][n] > 0 \/ <<e, n>> \in unaddressed
    PROVE  At(e, Onward(graph, n))
  BY WayFacts DEF At, Fresh, Passed, Before

\* At the end of the way nothing is left to be done.
LEMMA AtTheEnd ==
    ASSUME NEW e, NEW n \in Way(graph, graph.first), Onward(graph, n) = NoNode,
           At(e, Onward(graph, n))
    PROVE  Passed(e, Way(graph, graph.first)) /\ Ends(graph)
  <1>1. Way(graph, NoNode) = {}
    BY NoWay, GraphAssumption
  <1> QED
    BY <1>1 DEF At, Passed, Before, Ends

\* A step keeps the workflow and what was done for e.
Kept(e) == /\ graph' = graph /\ mail'[e] = mail[e]
           /\ \A n \in Nodes : <<e, n>> \in unaddressed => <<e, n>> \in unaddressed'

\* What is unsent stays so while nothing is sent for e ...
LEMMA FreshStays == ASSUME NEW e, Kept(e), Fresh(e, Nodes) PROVE Fresh(e, Nodes)'
  BY DEF Kept, Fresh

\* ... and its place on the way stays as it is.
LEMMA AtStays == ASSUME NEW e, Kept(e), NEW n, At(e, n) PROVE At(e, n)'
  <1>1. Before(n) \subseteq Nodes
    BY DEF Before, Way
  <1> QED
    BY <1>1 DEF Kept, At, Fresh, Passed, Before

\* A row stays on course while nothing is sent and its status stands, or leads nowhere.
LEMMA RowStays ==
    ASSUME Typed, Typed', NEW e \in Executions, Kept(e), RowOnCourse(e),
           row'[e].st \in {"none", "waiting", "completed"} =>
              row'[e].st = row[e].st /\ row'[e].node = row[e].node
    PROVE  RowOnCourse(e)'
  <1>1. (LoopFree => \A n \in Nodes : mail[e][n] <= 1)'
    BY DEF RowOnCourse, Kept
  <1>2. (row[e].st = "none" => Fresh(e, Nodes))'
    BY FreshStays DEF RowOnCourse
  <1>3. (row[e].st = "waiting" => /\ At(e, Onward(graph, row[e].node))
                                  /\ OnTheWay(row[e].node, {"delay"}))'
    <2> SUFFICES ASSUME row'[e].st = "waiting"
                 PROVE  (At(e, Onward(graph, row[e].node)) /\ OnTheWay(row[e].node, {"delay"}))'
      BY Zenon
    <2>1. row'[e].node = row[e].node /\ row[e].st = "waiting" /\ graph' = graph
      BY DEF Kept
    <2>2. PICK n : n = row[e].node
      OBVIOUS
    <2>3. PICK m : m = Onward(graph, n)
      OBVIOUS
    <2>4. At(e, m) /\ OnTheWay(n, {"delay"})
      BY <2>1, <2>2, <2>3 DEF RowOnCourse
    <2>5. At(e, m)'
      BY <2>4, AtStays
    <2>6. OnTheWay(n, {"delay"})'
      BY <2>1, <2>4 DEF OnTheWay
    <2>7. (row[e].node)' = n /\ Onward(graph, n)' = m
      BY <2>1, <2>2, <2>3 DEF Onward
    <2> QED
      BY <2>5, <2>6, <2>7
  <1>4. (row[e].st = "completed" => Passed(e, Way(graph, graph.first)) /\ Ends(graph))'
    <2>1. Way(graph, graph.first) \subseteq Nodes
      BY DEF Way
    <2> QED
      BY <2>1 DEF RowOnCourse, Kept, Passed, Ends
  <1> QED
    BY <1>1, <1>2, <1>3, <1>4 DEF RowOnCourse

\* An actor stays on course while it stands still, or runs nothing any more.
LEMMA ActorStays ==
    ASSUME NEW a \in Actors, ActorOnCourse(a), graph' = graph,
           pc[a] \in AtWork => Kept(exe[a]),
           pc'[a] \in AtWork \cup {"create"} =>
              pc'[a] = pc[a] /\ exe'[a] = exe[a] /\ node'[a] = node[a]
    PROVE  ActorOnCourse(a)'
  <1>1. PICK e : e = exe[a]
    OBVIOUS
  <1>2. PICK n : n = node[a]
    OBVIOUS
  <1>3. PICK m : m = Onward(graph, n)
    OBVIOUS
  <1>4. Onward(graph, n)' = m
    BY <1>3 DEF Onward
  <1>5. CASE pc'[a] \notin AtWork \cup {"create"}
    BY <1>5 DEF ActorOnCourse, AtWork
  <1>6. CASE pc'[a] = "create"
    BY <1>6 DEF ActorOnCourse
  <1>7. CASE pc'[a] = "lock"
    <2>1. Fresh(e, Nodes)'
      BY <1>1, <1>7, FreshStays DEF ActorOnCourse, AtWork
    <2> QED
      BY <1>1, <1>7, <2>1 DEF ActorOnCourse, AtWork
  <1>8. CASE pc'[a] = "run"
    <2>1. At(e, n)'
      BY <1>1, <1>2, <1>8, AtStays DEF ActorOnCourse, AtWork
    <2>2. exe'[a] = e /\ node'[a] = n
      BY <1>1, <1>2, <1>8 DEF AtWork
    <2>3. (n \in Nodes => n \in Way(graph, graph.first))'
      BY <1>2, <1>8 DEF ActorOnCourse, AtWork
    <2> QED
      BY <1>8, <2>1, <2>2, <2>3 DEF ActorOnCourse
  <1>9. CASE pc'[a] = "move"
    <2>1. At(e, m)'
      BY <1>1, <1>2, <1>3, <1>9, AtStays DEF ActorOnCourse, AtWork
    <2>2. exe'[a] = e /\ node'[a] = n
      BY <1>1, <1>2, <1>9 DEF AtWork
    <2>3. OnTheWay(n, {"email", "delay"})'
      BY <1>2, <1>9 DEF ActorOnCourse, AtWork, OnTheWay
    <2> QED
      BY <1>4, <1>9, <2>1, <2>2, <2>3 DEF ActorOnCourse
  <1> QED
    BY <1>5, <1>6, <1>7, <1>8, <1>9 DEF AtWork

\* Every execution starts on course.
LEMMA CourseInit == Init => OnCourse
  <1> SUFFICES ASSUME Init PROVE OnCourse
    OBVIOUS
  <1>1. \A a \in Actors : ActorOnCourse(a)
    BY DEF Init, ActorOnCourse
  <1>2. \A e \in Executions : RowOnCourse(e)
    <2>1. \A e \in Executions : row[e].st = "none" /\ \A n \in Nodes : mail[e][n] = 0
      BY DEF Init
    <2> QED
      BY <2>1 DEF RowOnCourse, Fresh
  <1> QED
    BY <1>1, <1>2 DEF OnCourse

\* A step that sends nothing and brings no one to another node.
Idles ==
    /\ graph' = graph /\ mail' = mail /\ unaddressed' = unaddressed
    /\ \A a \in Actors : pc'[a] \in AtWork \cup {"create"} =>
          pc'[a] = pc[a] /\ exe'[a] = exe[a] /\ node'[a] = node[a]
    /\ \A e \in Executions : row'[e].st \in {"none", "waiting", "completed"} =>
          row'[e].st = row[e].st /\ row'[e].node = row[e].node

\* Such a step keeps everything on course.
LEMMA CourseQuiet == ASSUME Typed, Typed', OnCourse, Idles PROVE OnCourse'
  <1>1. \A e : Kept(e)
    BY DEF Idles, Kept
  <1>2. ASSUME NEW a \in Actors PROVE ActorOnCourse(a)'
    BY <1>1, ActorStays DEF Idles, OnCourse
  <1>3. ASSUME NEW e \in Executions PROVE RowOnCourse(e)'
    BY <1>1, RowStays DEF Idles, OnCourse
  <1> QED
    BY <1>2, <1>3 DEF OnCourse

\* A step of one actor that sends nothing and writes no row: it is on course if
\* the actor is.
LEMMA CourseOfOne ==
    ASSUME Typed, Typed', OnCourse, NEW a \in Actors,
           graph' = graph, mail' = mail, unaddressed' = unaddressed,
           \A b \in Actors \ {a} : pc'[b] = pc[b] /\ exe'[b] = exe[b] /\ node'[b] = node[b],
           \A e \in Executions : row'[e].st \in {"none", "waiting", "completed"} =>
              row'[e].st = row[e].st /\ row'[e].node = row[e].node,
           ActorOnCourse(a)'
    PROVE  OnCourse'
  <1>1. \A e : Kept(e)
    BY DEF Kept
  <1>2. ASSUME NEW b \in Actors, b # a PROVE ActorOnCourse(b)'
    BY <1>1, <1>2, ActorStays DEF OnCourse
  <1>3. ASSUME NEW e \in Executions PROVE RowOnCourse(e)'
    BY <1>1, RowStays DEF OnCourse
  <1> QED
    BY <1>2, <1>3 DEF OnCourse

\* A trigger starts a new execution at the first node.
LEMMA CourseTrigger ==
    ASSUME Typed, Typed', OnCourse, NEW w \in Workers,
           WorkTrigger(w) \/ \E t \in Triggers : Receive(w, t)
    PROVE  OnCourse'
  <1>w. w \in Actors
    BY Kinds
  <1>1. CASE \E t \in Triggers : Receive(w, t)
    <2>1. /\ \E p \in {"load", "answer"} : pc' = [pc EXCEPT ![w] = p]
          /\ UNCHANGED <<graph, mail, unaddressed, exe, node, row>>
      BY <1>1 DEF Receive, outside, stream
    <2>2. Idles
      BY <2>1, <1>w DEF Idles, AtWork, Typed, TypeOK
    <2> QED
      BY <2>2, CourseQuiet
  <1>2. CASE LoadWorkflow(w)
    <2>1. /\ \E p \in {"create", "answer"} : pc' = [pc EXCEPT ![w] = p]
          /\ UNCHANGED <<graph, mail, unaddressed, exe, row>>
      BY <1>2 DEF LoadWorkflow, Answer, Goto, outside, stream
    <2>2. /\ \A b \in Actors \ {w} : pc'[b] = pc[b] /\ exe'[b] = exe[b] /\ node'[b] = node[b]
          /\ pc'[w] \in {"create", "answer"}
      <3>1. \A b \in Actors \ {w} : node'[b] = node[b]
        BY <1>2 DEF LoadWorkflow, Typed, TypeOK
      <3> QED
        BY <1>w, <2>1, <3>1 DEF Typed, TypeOK
    <2>3. pc'[w] = "create" => node'[w] \in {graph.first, NoNode}
      <3>1. CASE node' = [node EXCEPT ![w] = IF workflow = "unparsable" THEN NoNode ELSE graph.first]
        BY <1>w, <3>1 DEF Typed, TypeOK
      <3>2. CASE Answer(w, RetryVerdict(w))
        BY <1>w, <3>2 DEF Answer, Typed, TypeOK
      <3> QED
        BY <1>2, <3>1, <3>2 DEF LoadWorkflow
    <2>4. ActorOnCourse(w)'
      BY <2>1, <2>2, <2>3 DEF ActorOnCourse
    <2> QED
      BY <1>w, <2>1, <2>2, <2>4, CourseOfOne
  <1>3. CASE CreateExecution(w)
    <2>1. PICK e \in Executions :
              /\ exe[w] = Nobody /\ pc[w] = "create"
              /\ \/ /\ pc' = [pc EXCEPT ![w] = "answer"] /\ exe' = exe
                    /\ row' = row \/ (row[e].st = "none" /\ row' = [row EXCEPT ![e] = Created(row[e])])
                 \/ /\ pc' = [pc EXCEPT ![w] = "lock"] /\ exe' = [exe EXCEPT ![w] = e]
                    /\ row[e].st = "none" /\ row' = [row EXCEPT ![e] = Created(row[e])]
              /\ UNCHANGED <<msg, outside, stream, execLock, pollLock, node, todo>>
      BY <1>3, CreateFacts
    <2>2. \A d \in Executions : row'[d].st \in {"none", "waiting", "completed"} => row'[d] = row[d]
      <3> DEFINE r == Created(row[e])
      <3>1. r.st = "running"
        <4>1. row[e] \in Rows /\ NoNode \in Places
          BY DEF Typed, TypeOK, Rows, Places
        <4> QED
          BY <4>1, RowFacts
      <3>2. row' = row \/ row' = [row EXCEPT ![e] = r]
        BY <2>1, Zenon
      <3> HIDE DEF r
      <3> QED
        BY <3>1, <3>2 DEF Typed, TypeOK
    <2>3. /\ \A b \in Actors \ {w} : pc'[b] = pc[b] /\ exe'[b] = exe[b] /\ node'[b] = node[b]
          /\ UNCHANGED <<graph, mail, unaddressed, node>>
          /\ \/ pc'[w] = "answer"
             \/ pc'[w] = "lock" /\ exe'[w] = e /\ row[e].st = "none"
      BY <1>w, <2>1 DEF Typed, TypeOK, outside, stream
    <2>4. ActorOnCourse(w)'
      <3>1. CASE pc'[w] = "answer"
        BY <3>1 DEF ActorOnCourse
      <3>2. CASE pc'[w] = "lock" /\ exe'[w] = e /\ row[e].st = "none"
        <4>1. Fresh(e, Nodes)
          BY <3>2 DEF OnCourse, RowOnCourse
        <4>2. Fresh(e, Nodes)'
          BY <2>3, <4>1 DEF Fresh
        <4>3. node'[w] \in {graph'.first, NoNode}
          BY <1>w, <2>1, <2>3 DEF OnCourse, ActorOnCourse
        <4> QED
          BY <3>2, <4>2, <4>3 DEF ActorOnCourse
      <3> QED
        BY <2>3, <3>1, <3>2
    <2> QED
      BY <1>w, <2>2, <2>3, <2>4, CourseOfOne
  <1>4. CASE AcquireLock(w)
    <2>1. /\ exe[w] \in Executions /\ pc[w] = "lock"
          /\ \/ pc' = [pc EXCEPT ![w] = "answer"] /\ exe' = [exe EXCEPT ![w] = Nobody]
             \/ /\ pc' = [pc EXCEPT ![w] = IF node[w] = NoNode THEN "fail" ELSE "run"]
                /\ exe' = exe
          /\ UNCHANGED <<outside, stream, row, node>>
      BY <1>4, AcquireFacts
    <2>2. /\ \A b \in Actors \ {w} : pc'[b] = pc[b] /\ exe'[b] = exe[b] /\ node'[b] = node[b]
          /\ \/ pc'[w] \in {"answer", "fail"}
             \/ pc'[w] = "run" /\ exe'[w] = exe[w] /\ node[w] # NoNode
          /\ UNCHANGED <<graph, mail, unaddressed, node>>
      BY <1>w, <2>1 DEF Typed, TypeOK, outside, stream
    <2>3. ActorOnCourse(w)'
      <3>1. CASE pc'[w] \in {"answer", "fail"}
        BY <3>1 DEF ActorOnCourse
      <3>2. CASE pc'[w] = "run" /\ exe'[w] = exe[w] /\ node[w] # NoNode
        <4>1. PICK n : n = graph.first
          OBVIOUS
        <4>2. PICK e : e = exe[w]
          OBVIOUS
        <4>3. node[w] = n /\ n \in Nodes /\ Fresh(e, Nodes)
          BY <1>w, <2>1, <3>2, <4>1, <4>2, GraphAssumption DEF OnCourse, ActorOnCourse, Typed, TypeOK
        <4>4. Way(graph, n) \subseteq Nodes /\ n \in Way(graph, n) /\ Before(n) = {}
          BY <4>1, <4>3, WayFacts DEF Before
        <4>5. At(e, n)
          BY <4>3, <4>4 DEF At, Fresh, Passed
        <4>6. At(e, n)' /\ (n \in Way(graph, graph.first))'
          BY <2>2, <4>1, <4>4, <4>5, AtStays DEF Kept
        <4>7. pc'[w] = "run" /\ exe'[w] = e /\ node'[w] = n
          BY <2>2, <3>2, <4>2, <4>3
        <4> QED
          BY <4>6, <4>7 DEF ActorOnCourse
      <3> QED
        BY <2>2, <3>1, <3>2
    <2> QED
      BY <1>w, <2>1, <2>2, <2>3, CourseOfOne
  <1>5. CASE AnswerMessage(w) \/ ReleaseLock(w)
    <2>1. /\ \E p \in {"idle", "release"} : pc' = [pc EXCEPT ![w] = p]
          /\ exe' = exe \/ exe' = [exe EXCEPT ![w] = Nobody]
          /\ node' = node \/ node' = [node EXCEPT ![w] = NoNode]
          /\ UNCHANGED <<row, graph, mail, unaddressed>>
      BY <1>5 DEF AnswerMessage, ReleaseLock, ToIdle, Goto, outside, stream
    <2>2. Idles
      <3>1. \A b \in Actors \ {w} : pc'[b] = pc[b] /\ exe'[b] = exe[b] /\ node'[b] = node[b]
        BY <2>1 DEF Typed, TypeOK
      <3>2. pc'[w] \in {"idle", "release"}
        BY <1>w, <2>1 DEF Typed, TypeOK
      <3> QED
        BY <2>1, <3>1, <3>2 DEF Idles, AtWork
    <2> QED
      BY <2>2, CourseQuiet
  <1> QED
    BY <1>1, <1>2, <1>3, <1>4, <1>5 DEF WorkTrigger

\* A scheduler takes an execution up where it waits.
LEMMA CourseScheduler ==
    ASSUME Typed, Typed', OnCourse, NEW s \in Schedulers, Poll(s) \/ Resume(s)
    PROVE  OnCourse'
  <1>s. s \in Actors
    BY Kinds
  <1>1. ASSUME NEW p \in PCs, pc' = [pc EXCEPT ![s] = p], p \notin AtWork \cup {"create"},
               exe' = exe \/ \E e : exe' = [exe EXCEPT ![s] = e],
               node' = node \/ node' = [node EXCEPT ![s] = NoNode],
               UNCHANGED <<row, graph, mail, unaddressed>>
        PROVE  OnCourse'
    <2>1. \A b \in Actors \ {s} : pc'[b] = pc[b] /\ exe'[b] = exe[b] /\ node'[b] = node[b]
      BY <1>1 DEF Typed, TypeOK
    <2>2. pc'[s] = p
      BY <1>s, <1>1 DEF Typed, TypeOK
    <2>3. Idles
      BY <1>1, <2>1, <2>2 DEF Idles
    <2> QED
      BY <2>3, CourseQuiet
  <1>2. CASE Poll(s) \/ FetchDue(s) \/ EndPoll(s)
    <2>1. /\ \E p \in {"fetch", "idle", "next"} : pc' = [pc EXCEPT ![s] = p]
          /\ UNCHANGED <<exe, node, row, graph, mail, unaddressed>>
      BY <1>2 DEF Poll, FetchDue, EndPoll, Goto, outside, stream
    <2> QED
      BY <1>1, <2>1 DEF PCs, AtWork
  <1>3. CASE TakeNext(s)
    <2>1. /\ \E p \in {"next", "reload"} : pc' = [pc EXCEPT ![s] = p]
          /\ exe' = exe \/ \E e : exe' = [exe EXCEPT ![s] = e]
          /\ UNCHANGED <<node, row, graph, mail, unaddressed>>
      BY <1>3, TakeFacts DEF outside, stream
    <2> QED
      BY <1>1, <2>1 DEF PCs, AtWork
  <1>4. CASE Reload(s)
    <2>1. /\ \E p \in {"fail", "refetch"} : pc' = [pc EXCEPT ![s] = p]
          /\ UNCHANGED <<exe, node, row, graph, mail, unaddressed>>
      BY <1>4 DEF Reload, Goto, outside, stream
    <2> QED
      BY <1>1, <2>1 DEF PCs, AtWork
  <1>5. CASE Unlock(s)
    <2>1. /\ pc' = [pc EXCEPT ![s] = "next"]
          /\ exe' = [exe EXCEPT ![s] = Nobody] /\ node' = [node EXCEPT ![s] = NoNode]
          /\ UNCHANGED <<row, graph, mail, unaddressed>>
      BY <1>5 DEF Unlock, Goto, outside, stream
    <2> QED
      BY <1>1, <2>1 DEF PCs, AtWork
  <1>6. CASE Refetch(s)
    <2>1. /\ exe[s] \in Executions
          /\ UNCHANGED <<exe, row, graph, mail, unaddressed>>
      BY <1>6, <1>s DEF Refetch, outside, stream, Typed, Placed, Engaged
    <2>2. CASE pc' = [pc EXCEPT ![s] = "unlock"] /\ node' = node
      BY <1>1, <2>1, <2>2 DEF PCs, AtWork
    <2>3. CASE /\ pc' = [pc EXCEPT ![s] = "move"] /\ row[exe[s]].st = "waiting"
               /\ node' = [node EXCEPT ![s] = row[exe[s]].node]
      <3>1. PICK e \in Executions : e = exe[s]
        BY <2>1
      <3>2. PICK n : n = row[e].node
        OBVIOUS
      <3>3. PICK m : m = Onward(graph, n)
        OBVIOUS
      <3>4. /\ pc'[s] = "move" /\ exe'[s] = e /\ node'[s] = n
            /\ \A b \in Actors \ {s} : pc'[b] = pc[b] /\ exe'[b] = exe[b] /\ node'[b] = node[b]
        BY <1>s, <2>1, <2>3, <3>1, <3>2 DEF Typed, TypeOK
      <3>5. At(e, m) /\ OnTheWay(n, {"delay"})
        BY <2>3, <3>1, <3>2, <3>3 DEF OnCourse, RowOnCourse
      <3>6. At(e, m)' /\ OnTheWay(n, {"email", "delay"})' /\ Onward(graph, n)' = m
        <4>1. Kept(e)
          BY <2>1 DEF Kept
        <4>2. At(e, m)'
          BY <3>5, <4>1, AtStays
        <4> QED
          BY <2>1, <3>3, <3>5, <4>2 DEF OnTheWay, Onward
      <3>7. ActorOnCourse(s)'
        BY <3>4, <3>6 DEF ActorOnCourse
      <3> QED
        BY <1>s, <2>1, <3>4, <3>7, CourseOfOne
    <2> QED
      BY <1>6, <2>2, <2>3 DEF Refetch, Goto, Resumable
  <1> QED
    BY <1>2, <1>3, <1>4, <1>5, <1>6 DEF Resume

\* The timers and the API move no execution.
LEMMA CourseAround == ASSUME Typed, Typed', OnCourse, Around \/ UNCHANGED vars PROVE OnCourse'
  <1>1. UNCHANGED <<pc, exe, node, graph, mail, unaddressed>>
    BY DEF Around, ExpireAckWait, ExpireExecLock, BecomeDue, ExpirePollLock, EditWorkflow, vars,
       outside, stream
  <1>2. \A e \in Executions : row'[e].st = row[e].st /\ row'[e].node = row[e].node
    <2>1. CASE \E d \in Executions : BecomeDue(d)
      BY <2>1 DEF BecomeDue, Typed, TypeOK
    <2>2. CASE row' = row
      BY <2>2
    <2> QED
      BY <2>1, <2>2 DEF Around, ExpireAckWait, ExpireExecLock, ExpirePollLock, EditWorkflow, vars
  <1>3. Idles
    BY <1>1, <1>2 DEF Idles
  <1> QED
    BY <1>3, CourseQuiet

\* The others and their executions stay on course whatever one actor does to the
\* execution it has to itself.
LEMMA CourseOfOthers ==
    ASSUME Typed, Typed', Locked, Owned, OnCourse,
           NEW a \in Actors, pc[a] \in {"run", "move", "fail"}, Execute(a)
    PROVE  /\ \A b \in Actors \ {a} : ActorOnCourse(b)'
           /\ unaddressed \subseteq unaddressed' =>
                \A d \in Executions \ {exe[a]} : RowOnCourse(d)'
  <1>1. /\ exe[a] \in Executions
        /\ \A b \in Actors \ {a} : pc'[b] = pc[b] /\ node'[b] = node[b]
        /\ \A d \in Executions \ {exe[a]} : row'[d] = row[d] /\ mail'[d] = mail[d]
        /\ exe' = exe /\ graph' = graph
    <2>1. /\ exe[a] \in Executions
          /\ \E p \in {"run", "move", "fail", "answer", "unlock"} : pc' = [pc EXCEPT ![a] = p]
          /\ \A d \in Executions \ {exe[a]} : row'[d] = row[d] /\ mail'[d] = mail[d]
          /\ \A b \in Actors \ {a} : node'[b] = node[b]
          /\ exe' = exe /\ graph' = graph
      BY ExecuteFacts, Zenon DEF outside
    <2>2. \A b \in Actors \ {a} : pc'[b] = pc[b]
      BY <2>1 DEF Typed, TypeOK
    <2> QED
      BY <2>1, <2>2
  <1>2. unaddressed \subseteq unaddressed'
    BY DEF Execute, MoveOn, SkipEmail, PublishEmail, ScheduleDelay, CompleteExecution, RejectNode,
       FailExecution, stream
  <1>3. \A d \in Executions \ {exe[a]} : Kept(d)
    BY <1>1, <1>2 DEF Kept
  <1>4. ASSUME NEW b \in Actors, b # a PROVE ActorOnCourse(b)'
    <2>1. pc[b] \in AtWork => exe[b] \in Executions /\ exe[b] # exe[a]
      <3>1. ASSUME pc[b] \in AtWork PROVE exe[b] \in Executions
        BY <3>1 DEF Typed, Placed, AtWork, Engaged
      <3>2. b \in Workers /\ pc[b] \in AtWork => exe[b] # exe[a]
        BY <1>4, Apart
      <3>3. b \in Schedulers /\ pc[b] \in AtWork => exe[b] # exe[a]
        <4>1. b \in Schedulers /\ pc[b] \in AtWork => pc[b] \in Holding
          BY DEF Typed, Placed, SchedulerPCs, AtWork, Holding
        <4> QED
          BY <1>4, <4>1, Apart
      <3> QED
        BY <3>1, <3>2, <3>3, Kinds
    <2> QED
      BY <1>1, <1>3, <1>4, <2>1, ActorStays DEF OnCourse
  <1>5. ASSUME NEW d \in Executions, d # exe[a] PROVE RowOnCourse(d)'
    BY <1>1, <1>3, <1>5, RowStays DEF OnCourse
  <1> QED
    BY <1>4, <1>5

\* The course of the execution itself when a row is written.
LEMMA CourseWrites ==
    ASSUME Typed, Typed', Locked, Owned, OnCourse,
           NEW a \in Actors, MoveOn(a) \/ ScheduleDelay(a) \/ CompleteExecution(a)
    PROVE  OnCourse'
  <1> DEFINE next == graph.next[node[a]]
  <1>1. PICK e \in Executions : e = exe[a]
    BY WroteFacts
  <1>2. PICK n \in Nodes : n = node[a]
    BY WroteFacts
  <1>3. PICK m : m = Onward(graph, n)
    OBVIOUS
  <1>4. /\ pc[a] \in {"run", "move"} /\ Execute(a)
        /\ UNCHANGED <<mail, unaddressed, graph, exe>>
    BY WroteFacts DEF Execute
  <1>5. Kept(e)
    BY <1>4 DEF Kept
  \* What the actor leaves behind is no email that is still to be sent.
  <1>6. /\ n \in Way(graph, graph.first)
        /\ pc[a] = "run" => graph.kind[n] \in {"trigger", "delay", "end"}
        /\ pc[a] = "move" => MoveOn(a) /\ graph.kind[n] # "end"
        /\ MoveOn(a) => graph.kind[n] # "end"
    <2>1. n \in Way(graph, graph.first)
      BY <1>2, <1>4 DEF OnCourse, ActorOnCourse, OnTheWay
    <2>2. pc[a] = "move" => graph.kind[n] \in {"email", "delay"}
      BY <1>2 DEF OnCourse, ActorOnCourse, OnTheWay
    <2> QED
      BY <1>2, <1>4, <2>1, <2>2 DEF MoveOn, ScheduleDelay, CompleteExecution, Runs
  <1>7. At(e, m)
    <2>1. CASE pc[a] = "move"
      BY <1>1, <1>2, <1>3, <2>1 DEF OnCourse, ActorOnCourse
    <2>2. CASE pc[a] = "run"
      <3>1. At(e, n)
        BY <1>1, <1>2, <2>2 DEF OnCourse, ActorOnCourse
      <3> QED
        BY <1>3, <1>6, <2>2, <3>1, LeaveBehind
    <2> QED
      BY <1>4, <2>1, <2>2
  <1>8. At(e, m)' /\ Onward(graph, n)' = m
    BY <1>3, <1>4, <1>5, <1>7, AtStays DEF Onward
  <1>9. MoveOn(a) => m = next
    BY <1>2, <1>3, <1>6 DEF Onward
  <1>a. CompleteExecution(a) => m = NoNode
    BY <1>2, <1>3 DEF CompleteExecution, Runs, Onward
  \* The row.
  <1>b. RowOnCourse(e)'
    <2>1. CASE row'[e] = row[e] \/ row'[e].st = "running"
      BY <1>5, <2>1, RowStays DEF OnCourse
    <2>2. CASE row'[e].st = "completed" /\ m = NoNode
      <3>1. Passed(e, Way(graph, graph.first)) /\ Ends(graph)
        BY <1>3, <1>6, <1>7, <2>2, AtTheEnd
      <3>2. (Passed(e, Way(graph, graph.first)) /\ Ends(graph))'
        BY <1>4, <3>1 DEF Passed, Ends
      <3>3. (LoopFree => \A k \in Nodes : mail[e][k] <= 1)'
        BY <1>4 DEF OnCourse, RowOnCourse
      <3> QED
        BY <2>2, <3>2, <3>3 DEF RowOnCourse
    <2>3. CASE row'[e].st = "waiting" /\ row'[e].node = n /\ ScheduleDelay(a)
      <3>1. OnTheWay(n, {"delay"})'
        BY <1>2, <1>4, <1>6, <2>3 DEF OnTheWay, ScheduleDelay, Runs
      <3>2. (LoopFree => \A k \in Nodes : mail[e][k] <= 1)'
        BY <1>4 DEF OnCourse, RowOnCourse
      <3> QED
        BY <1>8, <2>3, <3>1, <3>2 DEF RowOnCourse
    <2>4. \/ row'[e] = row[e] \/ row'[e].st = "running"
          \/ row'[e].st = "completed" /\ m = NoNode
          \/ row'[e].st = "waiting" /\ row'[e].node = n /\ ScheduleDelay(a)
      BY <1>1, <1>2, <1>9, <1>a, WroteFacts
    <2> QED
      BY <2>1, <2>2, <2>3, <2>4
  \* The actor.
  <1>c. ActorOnCourse(a)'
    <2>1. CASE pc'[a] = "run"
      <3>1. MoveOn(a) /\ node'[a] = next /\ m = next
        BY <1>9, <2>1, WroteFacts
      <3>2. m \in Nodes => m \in Way(graph, graph.first)
        BY <1>3, <1>6, WayGoesOn
      <3>3. (m \in Nodes => m \in Way(graph, graph.first))'
        BY <1>4, <3>2
      <3>4. pc'[a] = "run" /\ exe'[a] = e /\ node'[a] = m
        BY <1>1, <1>4, <2>1, <3>1
      <3> QED
        BY <1>8, <3>3, <3>4 DEF ActorOnCourse
    <2>2. CASE pc'[a] \in {"fail", "answer", "unlock"}
      BY <2>2 DEF ActorOnCourse
    <2> QED
      BY <2>1, <2>2, WroteFacts
  <1> QED
    BY <1>1, <1>4, <1>b, <1>c, CourseOfOthers DEF OnCourse

\* The course of an execution past an email node.
LEMMA CourseEmail ==
    ASSUME Typed, Typed', Locked, Owned, OnCourse,
           NEW a \in Actors, SkipEmail(a) \/ PublishEmail(a)
    PROVE  OnCourse'
  <1>1. PICK e \in Executions : e = exe[a]
    <2>1. pc[a] = "run"
      BY DEF SkipEmail, PublishEmail, Runs
    <2> QED
      BY <2>1 DEF Typed, Placed, Engaged
  <1>2. PICK n \in Nodes : n = node[a]
    BY DEF SkipEmail, PublishEmail, Runs
  <1>3. PICK m : m = Onward(graph, n)
    OBVIOUS
  <1>4. /\ pc[a] = "run" /\ graph.kind[n] = "email" /\ Execute(a)
        /\ UNCHANGED <<graph, exe, node, row>> /\ unaddressed \subseteq unaddressed'
    BY <1>2 DEF SkipEmail, PublishEmail, Runs, Execute, outside
  <1>5. At(e, n) /\ n \in Way(graph, graph.first) /\ RowOnCourse(e)
    BY <1>1, <1>2, <1>4 DEF OnCourse, ActorOnCourse
  <1>6. /\ \A k \in Nodes \ {n} : mail'[e][k] = mail[e][k]
        /\ mail[e][n] \in Nat /\ mail'[e][n] \in {mail[e][n], mail[e][n] + 1}
        /\ \/ pc'[a] = "fail"
           \/ pc'[a] = "move" /\ (mail'[e][n] > 0 \/ <<e, n>> \in unaddressed')
    <2>1. CASE SkipEmail(a)
      <3>1. /\ mail' = mail
            /\ \/ pc' = [pc EXCEPT ![a] = "fail"]
               \/ pc' = [pc EXCEPT ![a] = "move"] /\ <<e, n>> \in unaddressed'
        BY <1>1, <1>2, <2>1 DEF SkipEmail, Goto, GiveUp
      <3> QED
        BY <3>1 DEF Typed, TypeOK
    <2>2. CASE PublishEmail(a)
      <3>1. \/ pc' = [pc EXCEPT ![a] = "fail"] /\ mail' = mail
            \/ /\ pc' = [pc EXCEPT ![a] = "fail"] \/ pc' = [pc EXCEPT ![a] = "move"]
               /\ mail' = [mail EXCEPT ![e][n] = @ + 1]
            \/ /\ pc' = [pc EXCEPT ![a] = "move"]
               /\ mail' = mail /\ mail[e][n] # 0
        BY <1>1, <1>2, <2>2, PublishFacts
      <3> QED
        BY <3>1 DEF Typed, TypeOK
    <2> QED
      BY <2>1, <2>2
  \* Without a loop, n is not ahead of itself.
  <1>7. LoopFree => mail[e][n] = 0 /\ n \notin Way(graph, m)
    <2>1. n \in Way(graph, n)
      BY WayFacts
    <2> QED
      BY <1>3, <1>5, <2>1 DEF At, Fresh, LoopFree, Typed, TypeOK
  <1>8. RowOnCourse(e)'
    <2>1. row'[e].st = "running"
      BY <1>1, <1>4, Kinds DEF Owned, TriggerRuns, ResumedRuns, AtWork
    <2>2. LoopFree => \A k \in Nodes : mail'[e][k] <= 1
      BY <1>5, <1>6, <1>7 DEF RowOnCourse
    <2> QED
      BY <2>1, <2>2 DEF RowOnCourse
  <1>9. ActorOnCourse(a)'
    <2>1. CASE pc'[a] = "fail"
      BY <2>1 DEF ActorOnCourse
    <2>2. CASE pc'[a] = "move" /\ (mail'[e][n] > 0 \/ <<e, n>> \in unaddressed')
      <3>1. Way(graph, n) = {n} \cup Way(graph, m) /\ Way(graph, m) \subseteq Nodes
        BY <1>3, WayFacts DEF Way
      <3>2. Fresh(e, Way(graph, m))'
        BY <1>4, <1>5, <1>6, <1>7, <3>1 DEF At, Fresh
      <3>3. Passed(e, Before(m))'
        <4>1. ASSUME NEW k \in Nodes, k # n, mail[e][k] > 0 \/ <<e, k>> \in unaddressed
              PROVE  mail'[e][k] > 0 \/ <<e, k>> \in unaddressed'
          BY <1>4, <1>6, <4>1
        <4>2. Before(m) \subseteq Before(n) \cup {n} /\ Before(n) \subseteq Nodes /\ Before(m)' = Before(m)
          BY <1>4, <3>1 DEF Before, Way
        <4>3. \A k \in Before(m) : graph.kind[k] = "email" =>
                 mail'[e][k] > 0 \/ <<e, k>> \in unaddressed'
          BY <1>5, <2>2, <4>1, <4>2 DEF At, Passed
        <4> QED
          BY <1>4, <4>2, <4>3 DEF Passed
      <3>4. At(e, m)' /\ Onward(graph, n)' = m /\ OnTheWay(n, {"email", "delay"})'
        BY <1>3, <1>4, <1>5, <3>2, <3>3 DEF At, Onward, OnTheWay
      <3>5. pc'[a] = "move" /\ exe'[a] = e /\ node'[a] = n
        BY <1>1, <1>2, <1>4, <2>2
      <3> QED
        BY <3>4, <3>5 DEF ActorOnCourse
    <2> QED
      BY <1>6, <2>1, <2>2
  <1> QED
    BY <1>1, <1>4, <1>8, <1>9, CourseOfOthers DEF OnCourse

\* The executor, and a crash, keep everything on course.
LEMMA CourseExecute ==
    ASSUME Typed, Typed', Locked, Owned, OnCourse, NEW a \in Actors, Execute(a) \/ Crash(a)
    PROVE  OnCourse'
  <1>1. CASE MoveOn(a) \/ ScheduleDelay(a) \/ CompleteExecution(a)
    BY <1>1, CourseWrites
  <1>2. CASE SkipEmail(a) \/ PublishEmail(a)
    BY <1>2, CourseEmail
  <1>3. CASE RejectNode(a)
    <2>1. /\ pc' = [pc EXCEPT ![a] = "fail"]
          /\ UNCHANGED <<row, exe, node, graph, mail, unaddressed>>
      BY <1>3 DEF RejectNode, GiveUp, Goto, outside, stream
    <2>2. Idles
      BY <2>1 DEF Idles, AtWork, Typed, TypeOK
    <2> QED
      BY <2>2, CourseQuiet
  <1>4. CASE FailExecution(a)
    <2> DEFINE r == Failed(row[exe[a]])
    <2>1. /\ exe[a] \in Executions /\ \E p \in {"answer", "unlock"} : pc' = [pc EXCEPT ![a] = p]
          /\ row' \in {row, [row EXCEPT ![exe[a]] = r]}
          /\ UNCHANGED <<exe, node, graph, mail, unaddressed>>
      BY <1>4, FailFacts DEF outside, stream
    <2>2. r.st = "failed"
      <3>1. row[exe[a]] \in Rows /\ NoNode \in Places
        BY <2>1 DEF Typed, TypeOK, Rows, Places
      <3> QED
        BY <3>1, RowFacts
    <2>3. \A e \in Executions : row'[e].st \in {"none", "waiting", "completed"} => row'[e] = row[e]
      <3> HIDE DEF r
      <3> QED
        BY <2>1, <2>2 DEF Typed, TypeOK
    <2>4. Idles
      BY <2>1, <2>3 DEF Idles, AtWork, Typed, TypeOK
    <2> QED
      BY <2>4, CourseQuiet
  <1>5. CASE Crash(a)
    <2>1. /\ pc' = [pc EXCEPT ![a] = "idle"] /\ exe' = [exe EXCEPT ![a] = Nobody]
          /\ node' = [node EXCEPT ![a] = NoNode]
          /\ UNCHANGED <<row, graph, mail, unaddressed>>
      BY <1>5 DEF Crash, ToIdle, Goto, outside, stream
    <2>2. Idles
      BY <2>1 DEF Idles, AtWork, Typed, TypeOK
    <2> QED
      BY <2>2, CourseQuiet
  <1> QED
    BY <1>1, <1>2, <1>3, <1>4, <1>5 DEF Execute

\* Every step keeps everything on course.
LEMMA CourseStep ==
    Typed /\ Typed' /\ Locked /\ Owned /\ OnCourse /\ [Next]_vars => OnCourse'
  BY StepCases, CourseTrigger, CourseExecute, CourseScheduler, CourseAround

-----------------------------------------------------------------------------
(***************************************************************************)
(* Theorems                                                                *)
(***************************************************************************)
Inv == Typed /\ Locked /\ Owned /\ OnCourse

\* The invariant holds as long as no lock runs out under its holder.
THEOREM Invariance == ASSUME LocksLast PROVE Spec => []Inv
  <1>1. Init => Inv
    BY TypedInit, LockedInit, OwnedInit, CourseInit DEF Inv
  <1>2. Inv /\ [Next]_vars => Inv'
    BY TypedStep, LockedStep, OwnedStep, CourseStep DEF Inv
  <1> QED
    BY <1>1, <1>2, PTL DEF Spec

\* Each email node of an execution puts one email into the stream at most, in
\* workflows without a loop, whatever crashes, is redelivered, refused or lost,
\* as long as no lock runs out under its holder (executor.go:204,
\* handler.go:154-179, scheduler.go:85-121).
THEOREM OneEmailPerNode == ASSUME LocksLast, LoopFree PROVE Spec => []EmailOncePerNode
  <1>1. Inv => EmailOncePerNode
    BY DEF Inv, OnCourse, RowOnCourse, EmailOncePerNode
  <1> QED
    BY <1>1, Invariance, PTL

\* A completed execution passed every email node, in workflows whose way from the
\* first node misses none when it has an end (executor.go:87-123).
THEOREM CompletedIsEmailed ==
    ASSUME LocksLast, EmailsOnTheWay PROVE Spec => []CompletedMeansEmailed
  <1>1. Inv => CompletedMeansEmailed
    <2> SUFFICES ASSUME Inv, NEW e \in Executions, row[e].st = "completed",
                        NEW n \in Nodes, graph.kind[n] = "email"
                 PROVE  mail[e][n] > 0 \/ <<e, n>> \in unaddressed
      BY DEF CompletedMeansEmailed
    <2>1. Passed(e, Way(graph, graph.first)) /\ Ends(graph) /\ graph \in Graphs
      BY DEF Inv, OnCourse, RowOnCourse, Typed, TypeOK
    <2>2. n \in Way(graph, graph.first)
      BY <2>1 DEF EmailsOnTheWay
    <2> QED
      BY <2>1, <2>2 DEF Passed
  <1> QED
    BY <1>1, Invariance, PTL

\* A delay is waited for, as long as no lock runs out under its holder: what leaves
\* a delay node is due (client.go:1087-1097, scheduler.go:117-123).
THEOREM DelayServed == ASSUME LocksLast PROVE Spec => DelayIsServed
  <1> DEFINE Served == \A e \in Executions :
                row[e].st = "waiting" /\ row'[e].st \in {"running", "completed"} => row[e].due
  <1>1. Inv /\ [Next]_vars => [Served]_vars
    <2> SUFFICES ASSUME Typed, Locked, Owned, [Next]_vars, NEW e \in Executions,
                        row[e].st = "waiting", row'[e].st \in {"running", "completed"}
                 PROVE  row[e].due
      BY Zenon DEF Inv
    <2>1. row[e].due = TRUE
      <3>1. ASSUME NEW w \in Workers, WorkTrigger(w) \/ \E t \in Triggers : Receive(w, t)
            PROVE  FALSE
        <4>1. CASE CreateExecution(w)
          <5>1. PICK d \in Executions :
                   row' = row \/ (row[d].st = "none" /\ row' = [row EXCEPT ![d] = Created(row[d])])
            BY <4>1, CreateFacts
          <5>2. d # e => row'[e] = row[e]
            BY <5>1 DEF Typed, TypeOK
          <5> QED
            BY <5>1, <5>2
        <4>2. row' = row \/ CreateExecution(w)
          BY <3>1 DEF WorkTrigger, Receive, LoadWorkflow, AcquireLock, AnswerMessage, ReleaseLock
        <4> QED
          BY <4>1, <4>2
      <3>2. ASSUME NEW a \in Actors, Execute(a) PROVE row[e].due = TRUE
        <4>1. /\ pc[a] \in {"run", "move", "fail"}
              /\ exe[a] # e => row'[e] = row[e]
              /\ pc[a] = "fail" => row'[exe[a]] = row[exe[a]] \/ row'[exe[a]].st = "failed"
          BY <3>2, ExecuteFacts, ExecuteRow
        <4>2. exe[a] = e /\ pc[a] \in {"run", "move"}
          BY <4>1
        <4>3. a \in Schedulers /\ pc[a] = "move"
          BY <4>2, Kinds DEF Owned, TriggerRuns, ResumedRuns, AtWork
        <4> QED
          BY <4>2, <4>3 DEF Owned, DueIfWaiting
      <3>3. CASE row' = row
        BY <3>3
      <3>4. ASSUME NEW d \in Executions, BecomeDue(d) PROVE FALSE
        BY <3>4 DEF BecomeDue, Typed, TypeOK
      <3>5. \/ row' = row
            \/ \E w \in Workers : WorkTrigger(w) \/ \E t \in Triggers : Receive(w, t)
            \/ \E a \in Actors : Execute(a)
            \/ \E d \in Executions : BecomeDue(d)
        BY StepCases DEF Crash, Poll, Resume, FetchDue, TakeNext, Reload, Refetch, Unlock, EndPoll,
           Around, ExpireAckWait, ExpireExecLock, ExpirePollLock, EditWorkflow, vars
      <3> QED
        BY <3>1, <3>2, <3>3, <3>4, <3>5
    <2> QED
      BY <2>1, Zenon
  <1> QED
    BY <1>1, Invariance, PTL DEF Spec, DelayIsServed

=============================================================================
