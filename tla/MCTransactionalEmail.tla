----------------------- MODULE MCTransactionalEmail -----------------------
(***************************************************************************)
(* Small instances of TransactionalEmail for TLC, and the two statements   *)
(* of docs/workers/transactional-email.md that the handler does not keep.  *)
(***************************************************************************)
EXTENDS TransactionalEmail

\* Nobody crashes, panics or is late: the handler alone.
CalmNext == \E w \in Workers : Work(w) \/ \E s \in Sends : Receive(w, s)

CalmSpec == Init /\ [][CalmNext]_vars

\* docs/workers/transactional-email.md:28: "After 6 attempts with transient
\* failures, the message is routed to the DLQ and the send is marked failed".
\* handler.go naks a failed status check, a denied rate limit and a failed
\* UPDATE at the last attempt too: nothing is left but the stuck message.
ExhaustedIsDeadLettered ==
    \A s \in Sends : msg[s].st = "exhausted" => s \in dlq \/ row[s] = "failed"

\* docs/workers/transactional-email.md:77: the check of the row "protects
\* against duplicate delivery".  An email of a workflow has no row to check.
DuplicateDeliveryIsSafe ==
    \A s \in Sends : s \notin ambiguous => accepted[s] <= 1

=============================================================================
