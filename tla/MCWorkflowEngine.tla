--------------------------- MODULE MCWorkflowEngine ---------------------------
(***************************************************************************)
(* Instances of WorkflowEngine for TLC: workflows as small graphs, and what *)
(* the README and a comment say of the engine that the code does not keep.  *)
(***************************************************************************)
EXTENDS WorkflowEngine

\* All triggers repeat the same event.
OneKey == [t \in Triggers |-> CHOOSE e \in Executions : TRUE]

\* An email, a delay, a second email; a trigger node whose next node does not
\* exist; two delays in a row.
EmailDelayEmail ==
    [first |-> "hello",
     kind |-> [start |-> "trigger", hello |-> "email", wait |-> "delay", again |-> "email", done |-> "end"],
     next |-> [start |-> "hello", hello |-> "wait", wait |-> "again", again |-> "done", done |-> NoNode]]
Broken == [EmailDelayEmail EXCEPT !.first = "start", !.next["start"] = "nowhere"]
WholeAndBroken == {EmailDelayEmail, Broken}
TwoDelays == {[EmailDelayEmail EXCEPT !.kind["hello"] = "delay"]}

\* README.md:117: WORKFLOW_MAX_RETRIES is the "Max workflow execution retries".
\* A redelivered trigger finds the execution its first delivery created and is
\* acked: one that was cut short stays 'running', and nothing looks at it again.
CutShortIsRetried ==
    (\A t \in Triggers : msg[t].st = "acked") /\ (\A a \in Actors : pc[a] = "idle") =>
       \A e \in Executions : row[e].st # "running"

\* scheduler.go:117: the second look at the execution "guards against concurrent
\* updates".  It looks at the status only: a scheduler whose list is old, its
\* poll lock having run out, resumes an execution from a later delay at once.
StaleListIsHarmless == DelayIsServed
=============================================================================
