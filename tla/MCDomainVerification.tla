------------------------ MODULE MCDomainVerification ------------------------
(***************************************************************************)
(* Instances of DomainVerification for TLC, and what the documents and the *)
(* comments say of it.                                                     *)
(***************************************************************************)
EXTENDS DomainVerification

CONSTANTS w2    \* the second of two workers

VARIABLES overlap   \* whether this behaviour is one of overlapping deliveries

\* A bound: either the first worker takes every delivery and anything may go wrong
\* until it ceases, or both work, so that deliveries overlap, and nothing does.
OverlapOrFaultsInit == overlap \in BOOLEAN /\ calm = overlap /\ Init
OverlapOrFaults ==
    /\ OverlapOrFaultsInit
    /\ [][Next /\ (overlap \/ pc'[w2] = "idle") /\ UNCHANGED overlap]_<<vars, overlap>>
    /\ Fairness

\* SES goes round three answers, or finds the DNS records at last.
AnyChange == {<<"none", "SUCCESS">>, <<"SUCCESS", "TEMPORARY_FAILURE">>, <<"TEMPORARY_FAILURE", "none">>}
ToSuccess == {<<"PENDING", "SUCCESS">>}

\* "publishes a reminder event for each expired domain"
\* (cleanup_scheduler.go:21-22)
ExpiredEventIsTrue == ~falseAlarm

\* "this scheduler is the only thing that ever marks a domain failed due to
\* timeout" (cleanup_scheduler.go:25-26): what it has marked stays marked
\* until SES decides or the API asks again.
ExpiryStays == expired /\ said \subseteq {"none", "PENDING"} => row \notin Undecided

\* "Idempotent SQL. All `UPDATE` statements are conditional on current status."
\* (docs/development.md:74): what was verified stays so until the API asks again.
VerifiedIsKept ==
    [][row = "verified" /\ row' = "pending" =>
          \E j \in Jobs : msg[j].st = "absent" /\ msg'[j].st # "absent"]_vars

\* "After ReminderAfterAttempt checks with no DNS found, nudge the user once."
\* (ses/handler.go:177)
ReminderIsSent ==
    \A j \in Jobs \ malformed : msg[j].st = "queued" /\ msg[j].n > ReminderAfterAttempt =>
        "reminder" \in events

\* "After attempt 9 with no `Success` status, the domain is marked `failed`."
\* (docs/workers/domain-verification.md:33)
FailedAfterNine ==
    \A j \in Jobs \ malformed : msg[j].st = "queued" /\ msg[j].n >= 9 => row # "pending"
=============================================================================
