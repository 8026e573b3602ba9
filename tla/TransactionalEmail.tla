-------------------------- MODULE TransactionalEmail --------------------------
(***************************************************************************)
(* The consumer of email.send.transactional: internal/worker/email/        *)
(* handler.go (Handler.Handle), run by every replica of the worker binary. *)
(*                                                                         *)
(* A delivery is handled in steps, one per call that leaves the process    *)
(* (Postgres, Redis, SES, a publish, the answer to JetStream).  Between    *)
(* two steps the process may die, the handler may panic, the server may    *)
(* give the message to another worker, and SES may report a bounce.  Each  *)
(* call may fail, before or after it took effect.                          *)
(***************************************************************************)
EXTENDS JetStream

CONSTANTS
    Sends,        \* send_ids, one message each (the publishers' message ids)
    Malformed,    \* the sends whose payload does not parse or validate
    Workers,      \* the message callbacks of all replicas
    NoSend,       \* what an idle worker holds
    MaxAttempts   \* const MaxAttempts: also the consumer's MaxDeliver

ASSUME SendsAssumption == NoSend \notin Sends
ASSUME MaxAttemptsAssumption == MaxAttempts \in Nat \ {0}

VARIABLES
    msg,        \* Sends -> Msgs: the message of the send in stream EMAIL_SEND
    row,        \* email_sends.status; "none": there is no such row
    pc,         \* the next call of each worker
    job,        \* the send_id it handles
    attempt,    \* NumDelivered of the delivery it handles
    verdict,    \* how it will answer the message
    events,     \* delivery events <<send, status>> published so far
    dlq,        \* sends with a message on email.send.dlq
    accepted,   \* how many times SES accepted the email of the send
    refused,    \* sends SES refused permanently
    ambiguous   \* sends whose acceptance a later delivery may not know of

vars == <<msg, row, pc, job, attempt, verdict, events, dlq, accepted, refused, ambiguous>>

RowStates == {"none", "queued", "sending", "sent", "failed", "bounced"}

PCs == {"idle", "validate", "check", "acquire", "markSending", "send",
        "recordSent", "publishSent",
        "publishDLQ", "recordFailed", "publishFailed", "answer"}

\* A worker here may still send the email, or has sent it and not recorded it.
Unrecorded == {"validate", "check", "acquire", "markSending", "send", "recordSent"}

TypeOK ==
    /\ msg \in [Sends -> Msgs]
    /\ row \in [Sends -> RowStates]
    /\ pc \in [Workers -> PCs]
    /\ job \in [Workers -> Sends \cup {NoSend}]
    /\ \A w \in Workers : pc[w] # "idle" => job[w] \in Sends
    /\ attempt \in [Workers -> Nat]
    /\ verdict \in [Workers -> Verdicts]
    /\ events \subseteq Sends \X {"sent", "failed"}
    /\ dlq \subseteq Sends
    /\ accepted \in [Sends -> Nat]
    /\ refused \subseteq Sends
    /\ ambiguous \subseteq Sends

(***************************************************************************)
(* The statements on email_sends, as functions of the row's status.        *)
(***************************************************************************)
\* Mutants: the statement without its guard on the status, or with another
\* status; the check without 'sent'.
MarkedFailedMisspelt(r)  == IF r \in {"none", "sent", "bounced"} THEN r ELSE "failure"
MarkedFailedUnguarded(r) == IF r = "none" THEN r ELSE "failed"
TerminalOnlyBounced(r)   == r = "bounced"

MarkedSending(r) == IF r \in {"queued", "failed", "sending"} THEN "sending" ELSE r
MarkedSent(r)    == IF r \in {"none", "bounced"} THEN r ELSE "sent"
MarkedFailed(r)  == IF r \in {"none", "sent", "bounced"} THEN r ELSE "failed"

\* The idempotency check: these are not sent again.
Terminal(r) == r \in {"sent", "bounced"}

\* A statement that fails may still have been committed.
Execute(s, new) == row' = [row EXCEPT ![s] = new]
MayExecute(s, new) == Execute(s, new) \/ UNCHANGED row

(***************************************************************************)
(* Control of a worker.                                                    *)
(***************************************************************************)
Goto(w, next) == /\ pc' = [pc EXCEPT ![w] = next]
                 /\ UNCHANGED <<job, attempt, verdict>>

GotoAnswering(w, next, v) == /\ pc' = [pc EXCEPT ![w] = next]
                             /\ verdict' = [verdict EXCEPT ![w] = v]
                             /\ UNCHANGED <<job, attempt>>

Answer(w, v) == GotoAnswering(w, "answer", v)

Release(w) == /\ pc' = [pc EXCEPT ![w] = "idle"]
              /\ job' = [job EXCEPT ![w] = NoSend]
              /\ attempt' = [attempt EXCEPT ![w] = 0]
              /\ verdict' = [verdict EXCEPT ![w] = "nak"]

\* Some worker of ws may still send s, or has sent it without recording it.
HeldUnrecorded(ws, s) == \E w \in ws : pc[w] \in Unrecorded /\ job[w] = s

Init ==
    /\ msg = [s \in Sends |-> NewMsg]
    \* The API inserts a row before it publishes; the workflow executor
    \* publishes with a fresh send_id and inserts none.
    /\ row \in [Sends -> {"none", "queued"}]
    /\ pc = [w \in Workers |-> "idle"]
    /\ job = [w \in Workers |-> NoSend]
    /\ attempt = [w \in Workers |-> 0]
    /\ verdict = [w \in Workers |-> "nak"]
    /\ events = {}
    /\ dlq = {}
    /\ accepted = [s \in Sends |-> 0]
    /\ refused = {}
    /\ ambiguous = {}

(***************************************************************************)
(* The handler, one action per call.                                       *)
(***************************************************************************)
Receive(w, s) ==
    /\ pc[w] = "idle"
    /\ Deliverable(msg[s])
    /\ msg' = [msg EXCEPT ![s] = Delivered(@)]
    /\ pc' = [pc EXCEPT ![w] = "validate"]
    /\ job' = [job EXCEPT ![w] = s]
    /\ attempt' = [attempt EXCEPT ![w] = msg[s].n + 1]
    /\ UNCHANGED <<row, verdict, events, dlq, accepted, refused, ambiguous>>

Validate(w) ==
    /\ pc[w] = "validate"
    /\ IF job[w] \in Malformed THEN Answer(w, "term") ELSE Goto(w, "check")
    /\ UNCHANGED <<msg, row, events, dlq, accepted, refused, ambiguous>>

\* GetEmailSendStatus: an error naks, a terminal status acks, and a missing
\* row reads as the empty status, which is not terminal.
CheckStatus(w) ==
    /\ pc[w] = "check"
    /\ \/ Answer(w, "nak")
       \/ Terminal(row[job[w]]) /\ Answer(w, "ack")
       \/ ~Terminal(row[job[w]]) /\ Goto(w, "acquire")
    /\ UNCHANGED <<msg, row, events, dlq, accepted, refused, ambiguous>>

\* Mutant: a denied worker starts over instead of answering the message.
AcquireOrStartOver(w) ==
    /\ pc[w] = "acquire"
    /\ Goto(w, "markSending") \/ Goto(w, "check")
    /\ UNCHANGED <<msg, row, events, dlq, accepted, refused, ambiguous>>

\* limiter.Acquire: denied within the wait budget, or Redis failed: nak,
\* whatever the attempt.
Acquire(w) ==
    /\ pc[w] = "acquire"
    /\ Goto(w, "markSending") \/ Answer(w, "nak")
    /\ UNCHANGED <<msg, row, events, dlq, accepted, refused, ambiguous>>

\* UpdateEmailSendSending: that no row matched is not an error.
MarkSending(w) ==
    /\ pc[w] = "markSending"
    /\ \/ Execute(job[w], MarkedSending(row[job[w]])) /\ Goto(w, "send")
       \/ MayExecute(job[w], MarkedSending(row[job[w]])) /\ Answer(w, "nak")
    /\ UNCHANGED <<msg, events, dlq, accepted, refused, ambiguous>>

AcceptedBySES(s) == accepted' = [accepted EXCEPT ![s] = @ + 1]

\* Mutants: the last attempt off by one; a transient error acked as a permanent
\* one is.
TransientOneEarly(w) ==
    IF attempt[w] >= MaxAttempts - 1
    THEN GotoAnswering(w, "publishDLQ", "term")
    ELSE Answer(w, "nak")
TransientAcked(w) == Answer(w, "ack")

\* A transient error is retried, or given up at the last attempt.
Transient(w) ==
    IF attempt[w] >= MaxAttempts
    THEN GotoAnswering(w, "publishDLQ", "term")
    ELSE Answer(w, "nak")

SendAccepted(w) ==
    /\ pc[w] = "send"
    /\ AcceptedBySES(job[w])
    /\ Goto(w, "recordSent")
    /\ UNCHANGED <<msg, row, events, dlq, refused, ambiguous>>

SendTransient(w) ==
    /\ pc[w] = "send"
    /\ Transient(w)
    \* A timeout may come after SES took the email.
    /\ \/ UNCHANGED <<accepted, ambiguous>>
       \/ AcceptedBySES(job[w]) /\ ambiguous' = ambiguous \cup {job[w]}
    /\ UNCHANGED <<msg, row, events, dlq, refused>>

SendRefused(w) ==
    /\ pc[w] = "send"
    /\ refused' = refused \cup {job[w]}
    /\ GotoAnswering(w, "recordFailed", "ack")
    /\ UNCHANGED <<msg, row, events, dlq, accepted, ambiguous>>

\* UpdateEmailSendSent: an error is logged and the message acked all the same.
RecordSent(w) ==
    /\ pc[w] = "recordSent"
    /\ \/ Execute(job[w], MarkedSent(row[job[w]])) /\ UNCHANGED ambiguous
       \/ UNCHANGED row /\ ambiguous' = ambiguous \cup {job[w]}
    /\ GotoAnswering(w, "publishSent", "ack")
    /\ UNCHANGED <<msg, events, dlq, accepted, refused>>

\* A publish that fails is logged; it may have reached the stream.
PublishEvent(w, at, status) ==
    /\ pc[w] = at
    /\ events' \in {events, events \cup {<<job[w], status>>}}
    /\ Goto(w, "answer")
    /\ UNCHANGED <<msg, row, dlq, accepted, refused, ambiguous>>

PublishSent(w)   == PublishEvent(w, "publishSent", "sent")
PublishFailed(w) == PublishEvent(w, "publishFailed", "failed")

PublishDLQ(w) ==
    /\ pc[w] = "publishDLQ"
    /\ dlq' \in {dlq, dlq \cup {job[w]}}
    /\ Goto(w, "recordFailed")
    /\ UNCHANGED <<msg, row, events, accepted, refused, ambiguous>>

\* UpdateEmailSendFailed: an error is logged.
RecordFailed(w) ==
    /\ pc[w] = "recordFailed"
    /\ MayExecute(job[w], MarkedFailed(row[job[w]]))
    /\ Goto(w, "publishFailed")
    /\ UNCHANGED <<msg, events, dlq, accepted, refused, ambiguous>>

\* Putting s back on the queue is ambiguous while another worker holds it
\* unrecorded.
RequeueNoted(s, others) ==
    ambiguous' = IF msg[s].st = "pending" /\ HeldUnrecorded(others, s)
                 THEN ambiguous \cup {s} ELSE ambiguous

\* msg.Ack, msg.Nak or msg.Term ends the handler.
AnswerMessage(w) ==
    /\ pc[w] = "answer"
    /\ msg' = [msg EXCEPT ![job[w]] = Answered(@, verdict[w], MaxAttempts)]
    /\ IF verdict[w] = "nak" THEN RequeueNoted(job[w], Workers \ {w})
                             ELSE UNCHANGED ambiguous
    /\ Release(w)
    /\ UNCHANGED <<row, events, dlq, accepted, refused>>

(***************************************************************************)
(* What happens around the handler.                                        *)
(***************************************************************************)
\* SES accepted the email and the worker goes away without recording it.
LeaveNoted(w) ==
    ambiguous' = IF pc[w] = "recordSent" THEN ambiguous \cup {job[w]} ELSE ambiguous

\* The process dies, or its answer is lost: the server keeps waiting.
Crash(w) ==
    /\ pc[w] # "idle"
    /\ LeaveNoted(w)
    /\ Release(w)
    /\ UNCHANGED <<msg, row, events, dlq, accepted, refused>>

\* dispatch recovers a panic of the handler and naks.
Panic(w) ==
    /\ pc[w] \notin {"idle", "answer"}
    /\ msg' = [msg EXCEPT ![job[w]] = Requeued(@, MaxAttempts)]
    /\ IF pc[w] = "recordSent" THEN LeaveNoted(w)
                               ELSE RequeueNoted(job[w], Workers \ {w})
    /\ Release(w)
    /\ UNCHANGED <<row, events, dlq, accepted, refused>>

\* The server waited long enough, whether or not a worker is still busy.
Expire(s) ==
    /\ msg[s].st = "pending"
    /\ msg' = [msg EXCEPT ![s] = Requeued(@, MaxAttempts)]
    /\ RequeueNoted(s, Workers)
    /\ UNCHANGED <<row, pc, job, attempt, verdict, events, dlq, accepted, refused>>

\* The bounce of an accepted email, written by the API's webhook.
Bounce(s) ==
    /\ accepted[s] > 0
    /\ row[s] \in {"sending", "sent", "failed"}
    /\ row' = [row EXCEPT ![s] = "bounced"]
    /\ UNCHANGED <<msg, pc, job, attempt, verdict, events, dlq, accepted, refused, ambiguous>>

Work(w) ==
    \/ Validate(w)
    \/ CheckStatus(w)
    \/ Acquire(w)
    \/ MarkSending(w)
    \/ SendAccepted(w)
    \/ SendTransient(w)
    \/ SendRefused(w)
    \/ RecordSent(w)
    \/ PublishSent(w)
    \/ PublishFailed(w)
    \/ PublishDLQ(w)
    \/ RecordFailed(w)
    \/ AnswerMessage(w)

Next ==
    \/ \E w \in Workers, s \in Sends : Receive(w, s)
    \/ \E w \in Workers : Work(w)
    \/ \E w \in Workers : Crash(w) \/ Panic(w)
    \/ \E s \in Sends : Expire(s) \/ Bounce(s)

Spec == Init /\ [][Next]_vars

\* Every call of the handler returns (its context ends after HandlerTimeout),
\* an idle callback is given the messages that wait, and AckWait runs out.
Fairness ==
    /\ \A w \in Workers : WF_vars(Work(w))
    /\ \A s \in Sends : WF_vars(\E w \in Workers : Receive(w, s))
    /\ \A s \in Sends : WF_vars(Expire(s))

FairSpec == Spec /\ Fairness

-----------------------------------------------------------------------------
(***************************************************************************)
(* Properties                                                              *)
(***************************************************************************)

\* A row says 'sent' (or 'bounced') only of an email SES accepted: the row is
\* written after the send, by whichever delivery sent it (handler.go:254).
SentMeansAccepted == \A s \in Sends : Terminal(row[s]) => accepted[s] > 0

\* Whatever deliveries of the same message overlap, a row that says 'sent' can
\* only become 'bounced', and 'bounced' is final: a slow delivery cannot take
\* it back to 'sending' or 'failed' (client.go:175-202).
SentIsFinal ==
    [][\A s \in Sends :
          /\ row[s] = "sent" => row'[s] \in {"sent", "bounced"}
          /\ row[s] = "bounced" => row'[s] = "bounced"]_vars

\* The idempotency check keeps an email from being sent twice, except where no
\* check could know: the row is missing, or SES's acceptance was lost (a crash
\* or a failed statement before the row said so, an answer that came too late)
\* or still undecided when the message was given out again (handler.go:172-182).
AcceptedOnce ==
    \A s \in Sends : row[s] # "none" /\ s \notin ambiguous => accepted[s] <= 1

\* No email is lost by an Ack: the handler acks only what SES took or refused
\* for good (handler.go:181, 242, 274).
AckedMeansDecided ==
    \A s \in Sends : msg[s].st = "acked" => accepted[s] > 0 \/ s \in refused

\* Outside the same ambiguities a row that rests at 'failed' is of an email
\* nobody received, even when a delivery that SES refused records its failure
\* after a later delivery was accepted (client.go:194-202).
FailedMeansNotAccepted ==
    \A s \in Sends :
       /\ row[s] = "failed"
       /\ s \notin ambiguous
       /\ \A w \in Workers : ~(pc[w] = "recordSent" /\ job[w] = s)
       => accepted[s] = 0

\* The handler gives a valid send up (Term, the dead-letter message, a 'failed'
\* event that SES's refusal does not explain) only at the last delivery
\* JetStream would make (handler.go:246-256).
GivenUpOnlyAtTheEnd ==
    \A s \in Sends \ Malformed :
       \/ msg[s].st = "termed"
       \/ s \in dlq
       \/ <<s, "failed">> \in events /\ s \notin refused
       => msg[s].n >= MaxAttempts

\* The work ends: every message is settled or used up, and every worker comes
\* back, however calls fail and workers die (each delivery answers or expires,
\* and there are MaxDeliver of them).
ComesToRest ==
    <>[](/\ \A s \in Sends : Closed(msg[s])
         /\ \A w \in Workers : pc[w] = "idle")

\* The worker implements the mailer: seen from its rows and from SES, every step
\* is one of Mailer or none.  A send without a row is in doubt from the start,
\* as nothing can be known of it (handler.go:172-260).
Mail == INSTANCE Mailer
           WITH Emails <- Sends,
                status <- [s \in Sends |-> IF Terminal(row[s]) THEN row[s] ELSE "open"],
                doubtful <- ambiguous \cup {s \in Sends : row[s] = "none"}

ImplementsMailer == Mail!Spec

-----------------------------------------------------------------------------
(***************************************************************************)
(* The email is sent at most once outside the named ambiguities, and is    *)
(* never lost by an Ack.  Neither statement is inductive alone: they rest  *)
(* on who may still hold a message and on what each worker has seen.       *)
(***************************************************************************)

\* A send that is not ambiguous has one worker at most that may still send it
\* or has yet to record it, and none while its message waits for delivery.
OneHolder ==
    \A s \in Sends : s \notin ambiguous =>
       /\ \A v, w \in Workers :
            /\ pc[v] \in Unrecorded /\ job[v] = s
            /\ pc[w] \in Unrecorded /\ job[w] = s
            => v = w
       /\ msg[s].st = "queued" => ~HeldUnrecorded(Workers, s)

\* An acceptance is in the row, or a worker is about to put it there.
AcceptanceKnown ==
    \A s \in Sends : row[s] # "none" /\ s \notin ambiguous /\ accepted[s] > 0 =>
       \/ Terminal(row[s])
       \/ \E w \in Workers : pc[w] = "recordSent" /\ job[w] = s

\* Past the check, and before the send, SES has accepted nothing.
NotAcceptedYet ==
    \A w \in Workers :
       LET s == job[w]
       IN  pc[w] \in {"acquire", "markSending", "send"} =>
              (row[s] # "none" /\ s \notin ambiguous => accepted[s] = 0)

\* What a worker about to ack, or to record a success, has seen.
VerdictJustified ==
    \A w \in Workers :
       LET s == job[w]
       IN  /\ pc[w] \in {"recordSent", "publishSent"} => accepted[s] > 0
           /\ pc[w] = "publishDLQ" => verdict[w] = "term"
           /\ pc[w] \in {"recordFailed", "publishFailed", "answer"} /\ verdict[w] = "ack"
                => accepted[s] > 0 \/ s \in refused

Inv ==
    /\ TypeOK
    /\ SentMeansAccepted
    /\ OneHolder
    /\ AcceptanceKnown
    /\ NotAcceptedYet
    /\ AcceptedOnce
    /\ VerdictJustified
    /\ AckedMeansDecided
=============================================================================
