------------------------------ MODULE JetStream ------------------------------
(***************************************************************************)
(* A work-queue message of NATS JetStream as the workers see it: delivered *)
(* at least once, at most MaxDeliver times, and settled by Ack or Term.    *)
(* The server is not part of the repository; the operators say what the   *)
(* consumers registered by internal/queue/consumers/registry.go rely on.   *)
(*                                                                         *)
(*   absent     not published                                              *)
(*   queued     in the stream, waiting to be (re)delivered                 *)
(*   pending    delivered, the server waits for Ack, Nak or Term           *)
(*   acked, termed   settled: it is never delivered again                  *)
(*   exhausted  not settled and delivered MaxDeliver times: it stays in    *)
(*              the stream, but no consumer sees it again                  *)
(***************************************************************************)
EXTENDS Naturals

MsgStates == {"absent", "queued", "pending", "acked", "termed", "exhausted"}

\* n is NumDelivered of the message's metadata.
Msgs == [st : MsgStates, n : Nat]

Verdicts == {"ack", "nak", "term"}

NoMsg  == [st |-> "absent", n |-> 0]
NewMsg == [st |-> "queued", n |-> 0]

Closed(m) == m.st \in {"acked", "termed", "exhausted"}

\* Publish with a message id (Nats-Msg-Id): inside the stream's deduplication
\* window a second message with the same id is dropped.
Published(m) == IF m.st = "absent" THEN NewMsg ELSE m

Deliverable(m) == m.st = "queued"

Delivered(m) == [st |-> "pending", n |-> m.n + 1]

\* Nak, and the expiry of AckWait (or of the BackOff step that replaces it).
\* The server does not compare the Nak with the latest delivery: the Nak of an
\* earlier delivery puts a message back that another worker holds.
Requeued(m, maxDeliver) ==
    IF m.st # "pending" THEN m
    ELSE [m EXCEPT !.st = IF m.n < maxDeliver THEN "queued" ELSE "exhausted"]

\* Ack and Term settle a message that is pending or queued for redelivery,
\* whichever of its deliveries they answer.
Ended(m, st) == IF m.st \in {"pending", "queued"} THEN [m EXCEPT !.st = st] ELSE m

Answered(m, verdict, maxDeliver) ==
    CASE verdict = "ack"  -> Ended(m, "acked")
      [] verdict = "term" -> Ended(m, "termed")
      [] verdict = "nak"  -> Requeued(m, maxDeliver)

=============================================================================
