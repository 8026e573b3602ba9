-------------------------- MODULE DomainVerification --------------------------
(***************************************************************************)
(* The verification of one sending domain: the domain.verify.poll consumer *)
(* (internal/worker/ses/handler.go), whose message is naked and delivered  *)
(* again, without limit, until SES has decided, and the scheduler that     *)
(* expires domains that stay undecided (cleanup_scheduler.go), while the   *)
(* API deletes the domain or asks for another verification.                *)
(***************************************************************************)
EXTENDS JetStream

CONSTANTS
    Jobs,           \* poll messages of the domain
    Workers,        \* consumer callbacks
    Sweepers,       \* replicas that run the cleanup scheduler
    DkimChanges,    \* pairs of DKIM statuses SES may go through
    ReminderAfterAttempt,
    CountedUpTo,    \* deliveries beyond this one are all counted as this one
    Faults,         \* what may go wrong: "call", "crash"
    NoJob

ASSUME DomainJobsAssumption == NoJob \notin Jobs
ASSUME CountAssumption ==
    /\ ReminderAfterAttempt \in Nat /\ CountedUpTo \in Nat
    /\ 0 < ReminderAfterAttempt /\ ReminderAfterAttempt < CountedUpTo

VARIABLES
    msg,        \* msg[j]: the JetStream message
    malformed,  \* the messages that cannot be parsed or lack a field
    row,        \* domains.status
    stale,      \* verification_started_at is older than staleAfter
    dkim,       \* what SES says of the domain
    calm,       \* nothing goes wrong any more
    events,     \* events published
    pc, job, attempt, verdict,
    seen,       \* seen[w]: what CheckDomainVerification returned
    sweep,      \* sweep[s]: where a sweeper is
    said,       \* history: the statuses SES has reported
    gone,       \* history: the row has been deleted
    expired,    \* history: a sweep expired the row, and it was not asked for again
    falseAlarm  \* history: an 'expired' event for a domain no sweep expired

vars == <<msg, malformed, row, stale, dkim, calm, events, pc, job, attempt, verdict, seen, sweep,
          said, gone, expired, falseAlarm>>
history == <<said, gone, expired, falseAlarm>>
external == <<malformed, stale, dkim, calm>>

Gone == {"deleting", "deleted", "removed"}
Undecided == {"pending", "verifying"}
RowStates == Undecided \cup {"verified", "failed"} \cup Gone
Refusals == {"FAILED", "TEMPORARY_FAILURE"}
DkimStates == {"none", "PENDING", "SUCCESS"} \cup Refusals
Answers == {"Pending", "Verified", "Failed"}
PCs == {"idle", "validate", "status", "check", "update", "publishVerified",
        "publishReminder", "answer"}

TypeOK ==
    /\ msg \in [Jobs -> Msgs]
    /\ malformed \subseteq Jobs
    /\ row \in RowStates
    /\ stale \in BOOLEAN
    /\ dkim \in DkimStates
    /\ calm \in BOOLEAN
    /\ events \subseteq {"verified", "reminder", "expired"}
    /\ pc \in [Workers -> PCs]
    /\ job \in [Workers -> Jobs \cup {NoJob}]
    /\ attempt \in [Workers -> 0 .. CountedUpTo]
    /\ verdict \in [Workers -> Verdicts]
    /\ seen \in [Workers -> Answers]
    /\ sweep \in [Sweepers -> {"idle", "expire", "publish"}]
    /\ said \subseteq DkimStates
    /\ gone \in BOOLEAN /\ expired \in BOOLEAN /\ falseAlarm \in BOOLEAN

Happens(fault) == fault \in Faults /\ ~calm
CallsMayFail == Happens("call")

\* Delivered, with the count of deliveries capped.
Redelivered(m) == IF m.n < CountedUpTo THEN Delivered(m) ELSE [m EXCEPT !.st = "pending"]

\* MaxDeliver is -1: a message is never used up.
Unlimited == CountedUpTo + 1

(***************************************************************************)
(* The statements on domains, as functions of the row's status, and the    *)
(* reading of SES's answer.                                                *)
(***************************************************************************)
\* Mutants: a statement without its guard, others with a misspelt status or with
\* 'failed' for good.
UpdatedMisspelt(r, new)   == IF r \in Gone THEN r ELSE "unverified"
UpdatedUnlessFailed(r, new) == IF r \in Gone \cup {"failed"} THEN r ELSE new
MarkedExpiredUnguarded(r) == IF r \in Gone THEN r ELSE "failed"

\* UpdateDomainVerified, UpdateDomainPending, UpdateDomainFailed.
Updated(r, new) == IF r \in Gone THEN r ELSE new

\* MarkDomainExpired.
MarkedExpired(r) == IF r \in Undecided THEN "failed" ELSE r

\* Mutant: an identity without DKIM attributes counts as verified.
CheckedUnset(d) == IF d \in {"none", "SUCCESS"} THEN "Verified"
                   ELSE IF d = "PENDING" THEN "Pending" ELSE "Failed"

\* CheckDomainVerification.
Checked(d) == CASE d = "SUCCESS" -> "Verified"
                [] d \in Refusals -> "Failed"
                [] OTHER -> "Pending"

NewStatus(answer) == CASE answer = "Verified" -> "verified"
                       [] answer = "Pending"  -> "pending"
                       [] answer = "Failed"   -> "failed"

Goto(w, next) == /\ pc' = [pc EXCEPT ![w] = next]
                 /\ UNCHANGED <<job, attempt, verdict>>

GotoAnswering(w, next, v) == /\ pc' = [pc EXCEPT ![w] = next]
                             /\ verdict' = [verdict EXCEPT ![w] = v]
                             /\ UNCHANGED <<job, attempt>>

Answer(w, v) == GotoAnswering(w, "answer", v)

\* A failed call naks, to be polled again after PollInterval.
PollAgain(w) == CallsMayFail /\ Answer(w, "nak")

ToIdle(w) == /\ pc' = [pc EXCEPT ![w] = "idle"]
             /\ job' = [job EXCEPT ![w] = NoJob]
             /\ attempt' = [attempt EXCEPT ![w] = 0]
             /\ verdict' = [verdict EXCEPT ![w] = "nak"]
             /\ seen' = [seen EXCEPT ![w] = "Pending"]

Init ==
    /\ msg = [j \in Jobs |-> NoMsg]
    /\ malformed \in SUBSET Jobs
    /\ row \in Undecided
    /\ stale = FALSE
    /\ dkim \in {d \in DkimStates : \E c \in DkimChanges : d = c[1]}
    /\ calm \in BOOLEAN
    /\ events = {}
    /\ pc = [w \in Workers |-> "idle"]
    /\ job = [w \in Workers |-> NoJob]
    /\ attempt = [w \in Workers |-> 0]
    /\ verdict = [w \in Workers |-> "nak"]
    /\ seen = [w \in Workers |-> "Pending"]
    /\ sweep = [s \in Sweepers |-> "idle"]
    /\ said = {} /\ gone = FALSE /\ expired = FALSE /\ falseAlarm = FALSE

(***************************************************************************)
(* The handler, one action per call.                                       *)
(***************************************************************************)
Receive(w, j) ==
    /\ pc[w] = "idle"
    /\ Deliverable(msg[j])
    /\ msg' = [msg EXCEPT ![j] = Redelivered(@)]
    /\ pc' = [pc EXCEPT ![w] = "validate"]
    /\ job' = [job EXCEPT ![w] = j]
    /\ attempt' = [attempt EXCEPT ![w] = Redelivered(msg[j]).n]
    /\ UNCHANGED <<row, external, events, verdict, seen, sweep, history>>

Validate(w) ==
    /\ pc[w] = "validate"
    /\ IF job[w] \in malformed THEN Answer(w, "term") ELSE Goto(w, "status")
    /\ UNCHANGED <<msg, row, external, events, seen, sweep, history>>

\* GetDomainStatus: a missing or deleted row ends the polling.
CheckStatus(w) ==
    /\ pc[w] = "status"
    /\ \/ row \in Gone /\ Answer(w, "term")
       \/ row \notin Gone /\ Goto(w, "check")
       \/ PollAgain(w)
    /\ UNCHANGED <<msg, row, external, events, seen, sweep, history>>

AskSES(w) ==
    /\ pc[w] = "check"
    /\ \/ /\ seen' = [seen EXCEPT ![w] = Checked(dkim)]
          /\ said' = said \cup {dkim}
          /\ Goto(w, "update")
       \/ PollAgain(w) /\ UNCHANGED <<seen, said>>
    /\ UNCHANGED <<msg, row, external, events, sweep, gone, expired, falseAlarm>>

\* Mutant: a pending domain is given up as the ninth delivery.
AfterUpdateGivesUp(w) ==
    IF seen[w] = "Pending" /\ attempt[w] < CountedUpTo THEN Answer(w, "nak")
    ELSE Answer(w, "ack")

\* What follows the UPDATE.
AfterUpdate(w) ==
    CASE seen[w] = "Verified" -> GotoAnswering(w, "publishVerified", "ack")
      [] seen[w] = "Failed"   -> Answer(w, "ack")
      [] seen[w] = "Pending"  ->
            GotoAnswering(w, IF attempt[w] = ReminderAfterAttempt
                             THEN "publishReminder" ELSE "answer", "nak")

Update(w) ==
    /\ pc[w] = "update"
    /\ \/ row' = Updated(row, NewStatus(seen[w])) /\ AfterUpdate(w)
       \/ row' \in {row, Updated(row, NewStatus(seen[w]))} /\ PollAgain(w)
    /\ UNCHANGED <<msg, external, events, seen, sweep, history>>

\* A publish that fails is logged.
PublishEvent(w, at, event) ==
    /\ pc[w] = at
    /\ \/ events' = events \cup {event}
       \/ CallsMayFail /\ UNCHANGED events
    /\ Goto(w, "answer")
    /\ UNCHANGED <<msg, row, external, seen, sweep, history>>

PublishVerified(w) == PublishEvent(w, "publishVerified", "verified")
PublishReminder(w) == PublishEvent(w, "publishReminder", "reminder")

AnswerMessage(w) ==
    /\ pc[w] = "answer"
    /\ msg' = [msg EXCEPT ![job[w]] = Answered(@, verdict[w], Unlimited)]
    /\ ToIdle(w)
    /\ UNCHANGED <<row, external, events, sweep, history>>

(***************************************************************************)
(* The cleanup scheduler.                                                  *)
(***************************************************************************)
\* GetStaleVerifyingDomains.
FetchStale(s) ==
    /\ sweep[s] = "idle"
    /\ row \in Undecided /\ stale
    /\ sweep' = [sweep EXCEPT ![s] = "expire"]
    /\ UNCHANGED <<msg, row, external, events, pc, job, attempt, verdict, seen, history>>

\* MarkDomainExpired: that no row matched is not an error.
Expire(s) ==
    /\ sweep[s] = "expire"
    /\ \/ /\ row' = MarkedExpired(row)
          /\ sweep' = [sweep EXCEPT ![s] = "publish"]
       \/ /\ CallsMayFail
          /\ row' \in {row, MarkedExpired(row)}
          /\ sweep' = [sweep EXCEPT ![s] = "idle"]
    /\ expired' = (expired \/ row' # row)
    /\ UNCHANGED <<msg, external, events, pc, job, attempt, verdict, seen, said, gone, falseAlarm>>

\* The event is published whether or not the statement matched, and an error
\* of the publish is ignored.
PublishExpired(s) ==
    /\ sweep[s] = "publish"
    /\ \/ events' = events \cup {"expired"} /\ falseAlarm' = (falseAlarm \/ ~expired)
       \/ CallsMayFail /\ UNCHANGED <<events, falseAlarm>>
    /\ sweep' = [sweep EXCEPT ![s] = "idle"]
    /\ UNCHANGED <<msg, row, external, pc, job, attempt, verdict, seen, said, gone, expired>>

CrashSweeper(s) ==
    /\ Happens("crash")
    /\ sweep[s] # "idle"
    /\ sweep' = [sweep EXCEPT ![s] = "idle"]
    /\ UNCHANGED <<msg, row, external, events, pc, job, attempt, verdict, seen, history>>

(***************************************************************************)
(* What happens around them.                                               *)
(***************************************************************************)
\* The API asks for a verification, the first or another one.  A message that
\* names no domain comes from elsewhere.
Request(j) ==
    /\ msg[j].st = "absent"
    /\ row \notin Gone
    /\ msg' = [msg EXCEPT ![j] = NewMsg]
    /\ IF j \in malformed
       THEN UNCHANGED <<row, stale, expired>>
       ELSE row' \in {row, "pending"} /\ stale' = FALSE /\ expired' = FALSE
    /\ UNCHANGED <<malformed, dkim, calm, events, pc, job, attempt, verdict, seen, sweep, said, gone, falseAlarm>>

\* The API deletes the domain in steps.
Delete ==
    /\ row' \in CASE row \notin Gone   -> {"deleting"}
                  [] row = "deleting"  -> {"deleted"}
                  [] row = "deleted"   -> {"removed"}
                  [] row = "removed"   -> {}
    /\ gone' = TRUE
    /\ UNCHANGED <<msg, external, events, pc, job, attempt, verdict, seen, sweep, said, expired, falseAlarm>>

Age ==
    /\ ~stale /\ row \in Undecided
    /\ stale' = TRUE
    /\ UNCHANGED <<msg, malformed, row, dkim, calm, events, pc, job, attempt, verdict, seen, sweep, history>>

ChangeDkim ==
    /\ <<dkim, dkim'>> \in DkimChanges
    /\ UNCHANGED <<msg, malformed, row, stale, calm, events, pc, job, attempt, verdict, seen, sweep, history>>

CalmDown ==
    /\ ~calm
    /\ calm' = TRUE
    /\ UNCHANGED <<msg, malformed, row, stale, dkim, events, pc, job, attempt, verdict, seen, sweep, history>>

Crash(w) ==
    /\ Happens("crash")
    /\ pc[w] # "idle"
    /\ ToIdle(w)
    /\ UNCHANGED <<msg, row, external, events, sweep, history>>

ExpireAckWait(j) ==
    /\ msg[j].st = "pending"
    /\ msg' = [msg EXCEPT ![j] = Requeued(@, Unlimited)]
    /\ UNCHANGED <<row, external, events, pc, job, attempt, verdict, seen, sweep, history>>

Work(w) ==
    \/ Validate(w)
    \/ CheckStatus(w)
    \/ AskSES(w)
    \/ Update(w)
    \/ PublishVerified(w)
    \/ PublishReminder(w)
    \/ AnswerMessage(w)

Sweep(s) == Expire(s) \/ PublishExpired(s)

Next ==
    \/ \E w \in Workers, j \in Jobs : Receive(w, j)
    \/ \E w \in Workers : Work(w) \/ Crash(w)
    \/ \E s \in Sweepers : FetchStale(s) \/ Sweep(s) \/ CrashSweeper(s)
    \/ \E j \in Jobs : Request(j) \/ ExpireAckWait(j)
    \/ Delete
    \/ Age
    \/ CalmDown
    \/ \E d \in DkimStates : dkim' = d /\ ChangeDkim

Spec == Init /\ [][Next]_vars

Fairness ==
    /\ \A w \in Workers : WF_vars(Work(w))
    /\ \A j \in Jobs : WF_vars(\E w \in Workers : Receive(w, j))
    /\ \A j \in Jobs : WF_vars(ExpireAckWait(j))
    /\ \A s \in Sweepers : WF_vars(Sweep(s))

FairSpec == Spec /\ Fairness

-----------------------------------------------------------------------------
(***************************************************************************)
(* Properties                                                              *)
(***************************************************************************)

\* Only SES's word makes a domain 'verified' (handler.go:144-168).
VerifiedIsTrue == row = "verified" => "SUCCESS" \in said

\* Nobody acts on the row he read: a worker that looked at it before the API
\* deleted the domain does not bring it back, and a sweep that read it undecided
\* does not fail one that was verified in the meantime (client.go:64-100, 146-156).
DecisionsStand ==
    [][/\ row \in Gone => row' \in Gone
       /\ row = "verified" /\ row' = "failed" => said \cap Refusals # {}]_vars

\* The polling of a well-formed message ends only when SES has decided or the
\* domain is gone, however often it is delivered (handler.go:131-199).
PollingGoesOn ==
    \A j \in Jobs \ malformed :
       Closed(msg[j]) => gone \/ said \cap ({"SUCCESS"} \cup Refusals) # {}

\* From a moment on at which nothing fails any more, SES says SUCCESS for good, the
\* API does not ask again and no delivery carries an answer that SES gave before, an
\* open poll makes the domain 'verified' for good, unless it is deleted: whatever
\* went wrong until then, also when a sweep has failed the domain, and however many
\* deliveries overlap (handler.go:131-199).
Verifies ==
    \A j \in Jobs :
       ( /\ [](calm /\ dkim = "SUCCESS")
         /\ j \notin malformed /\ msg[j].st \in {"queued", "pending"}
         /\ {i \in Jobs : msg[i].st = "absent"} \subseteq malformed
         /\ \A w \in Workers : pc[w] \in {"idle", "validate", "status", "check"} )
       ~> [](row \in {"verified"} \cup Gone)
=============================================================================
