-------------------------------- MODULE Mailer --------------------------------
(***************************************************************************)
(* What the email workers promise of each email they are given, whatever   *)
(* happens to processes, calls and messages on the way: SES accepts it     *)
(* once at most, unless there is doubt about it; its row says 'sent' only  *)
(* of an accepted email; and 'sent' is taken back by a bounce only.        *)
(*                                                                         *)
(* TransactionalEmail and CampaignChunk implement it, the one for rows of  *)
(* email_sends, the other for rows of campaign_recipients.                 *)
(***************************************************************************)
EXTENDS Naturals

CONSTANTS Emails

VARIABLES
    accepted,  \* how many times SES accepted the email
    status,    \* what its row says; "open" until that is final
    doubtful   \* emails whose acceptance a worker may not know of

vars == <<accepted, status, doubtful>>

Statuses == {"open", "sent", "bounced"}

Init == /\ accepted = [m \in Emails |-> 0]
        /\ status = [m \in Emails |-> "open"]
        /\ doubtful \in SUBSET Emails

Accept(m) == /\ accepted[m] = 0 \/ m \in doubtful
             /\ accepted' = [accepted EXCEPT ![m] = @ + 1]
             /\ UNCHANGED status

Record(m) == /\ accepted[m] > 0
             /\ status[m] = "open"
             /\ status' = [status EXCEPT ![m] = "sent"]
             /\ UNCHANGED accepted

Bounce(m) == /\ accepted[m] > 0
             /\ status' = [status EXCEPT ![m] = "bounced"]
             /\ UNCHANGED accepted

\* Doubt only grows: with any step, and by itself.
Next == /\ doubtful \subseteq doubtful'
        /\ \/ \E m \in Emails : Accept(m) \/ Record(m) \/ Bounce(m)
           \/ UNCHANGED <<accepted, status>>

Spec == Init /\ [][Next]_vars
=============================================================================
