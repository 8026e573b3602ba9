------------------------- MODULE EventEnrichmentProofs -------------------------
(***************************************************************************)
(* Proofs about EventEnrichment, for any events, ids, workflows, workers,  *)
(* faults and number of attempts.                                          *)
(*                                                                         *)
(* What each step of a delivery has seen is carried by the worker: the ids *)
(* its event brings, the contact it found or wrote, and that the enriched  *)
(* event is in the table.  It stays true because no statement takes a      *)
(* contact away or gives it another user, and the sweep leaves an event    *)
(* alone while a worker has it.                                            *)
(***************************************************************************)
EXTENDS EventEnrichment, FiniteSetTheorems, SequenceTheorems, TLAPS

-----------------------------------------------------------------------------
(***************************************************************************)
(* Messages of the stream                                                  *)
(***************************************************************************)
\* A delivery counts up and leaves the message waiting for its answer.
LEMMA DeliveredFacts ==
    ASSUME NEW m \in Msgs
    PROVE  /\ Delivered(m) \in Msgs
           /\ Delivered(m).st = "pending"
           /\ Delivered(m).n = m.n + 1
  BY DEF Delivered, Msgs, MsgStates

\* A message put back keeps its count, is settled only if it was, and becomes
\* 'queued' only from 'pending'.
LEMMA RequeuedFacts ==
    ASSUME NEW m \in Msgs, NEW maxDeliver
    PROVE  /\ Requeued(m, maxDeliver) \in Msgs
           /\ Requeued(m, maxDeliver).n = m.n
           /\ Requeued(m, maxDeliver).st = "acked" <=> m.st = "acked"
           /\ Requeued(m, maxDeliver).st = "termed" <=> m.st = "termed"
           /\ m.st # "pending" => Requeued(m, maxDeliver) = m
  BY DEF Requeued, Msgs, MsgStates

\* A message that comes to wait by being put back is not past its last delivery.
LEMMA RequeuedInTime ==
    ASSUME NEW m \in Msgs, NEW maxDeliver, Requeued(m, maxDeliver).st = "queued"
    PROVE  m.st = "queued" \/ m.n < maxDeliver
  BY DEF Requeued, Msgs

\* Settling a message keeps its count, and its state is either unchanged or
\* the new one.
LEMMA EndedFacts ==
    ASSUME NEW m \in Msgs, NEW st \in {"acked", "termed"}
    PROVE  /\ Ended(m, st) \in Msgs
           /\ Ended(m, st).n = m.n
           /\ Ended(m, st).st \in {m.st, st}
  BY DEF Ended, Msgs, MsgStates

\* An answer keeps the count; only an Ack makes a message 'acked', only a Term
\* 'termed', and only a Nak of a pending message 'queued'.
LEMMA AnsweredFacts ==
    ASSUME NEW m \in Msgs, NEW v \in Verdicts, NEW maxDeliver
    PROVE  /\ Answered(m, v, maxDeliver) \in Msgs
           /\ Answered(m, v, maxDeliver).n = m.n
           /\ Answered(m, v, maxDeliver).st = "acked" => m.st = "acked" \/ v = "ack"
           /\ Answered(m, v, maxDeliver).st = "termed" => m.st = "termed" \/ v = "term"
           /\ Answered(m, v, maxDeliver).st = "queued"
                => m.st = "queued" \/ (v = "nak" /\ m.st = "pending")
  <1>1. CASE v = "ack"
    BY <1>1, EndedFacts DEF Answered, Ended, Msgs, MsgStates
  <1>2. CASE v = "term"
    BY <1>2, EndedFacts DEF Answered, Ended, Msgs, MsgStates
  <1>3. CASE v = "nak"
    <2>1. Answered(m, v, maxDeliver) = Requeued(m, maxDeliver)
      BY <1>3 DEF Answered
    <2> QED
      BY <1>3, <2>1, RequeuedFacts DEF Msgs, MsgStates
  <1> QED
    BY <1>1, <1>2, <1>3 DEF Verdicts

-----------------------------------------------------------------------------
\* A row of contacts; a payload that parses.
Contact == [user : Users \cup {NoId}, anon : Anons \cup {NoId}, traits : Traits]
Parsed == [kind : Kinds, user : Users \cup {NoId}, anon : Anons \cup {NoId},
           traits : {"object", "null"}]

\* The unique keys of contacts, and that each row has an id.
Keyed(rows) ==
    /\ \A i, j \in DOMAIN rows : rows[i].user # NoId /\ rows[i].user = rows[j].user => i = j
    /\ \A i, j \in DOMAIN rows : rows[i].anon # NoId /\ rows[i].anon = rows[j].anon => i = j
    /\ \A i \in DOMAIN rows : rows[i].user # NoId \/ rows[i].anon # NoId

\* No statement deletes a row of contacts or gives it another user.
Kept(old, new) ==
    /\ DOMAIN old \subseteq DOMAIN new
    /\ \A i \in DOMAIN old : new[i].user = old[i].user

\* The types, with the rows of contacts for the bounds on them, and who has an
\* event in hand.
Typed ==
    /\ msg \in [Events -> Msgs]
    /\ \A e \in Events : msg[e].st = "queued" => msg[e].n < MaxAttempts
    /\ payload \in Scenarios
    /\ raw \in [Events -> RawStates]
    /\ contacts \in Seq(Contact)
    /\ enriched \in [Events -> {Nothing, 0} \cup DOMAIN contacts]
    /\ triggers \subseteq [rule : Workflows, event : Events,
                           workflow : Workflows \cup {NoId}, contact : {0} \cup DOMAIN contacts]
    /\ pc \in [Workers -> PCs]
    /\ job \in [Workers -> Events \cup {Nothing}]
    /\ attempt \in [Workers -> 0 .. MaxAttempts]
    /\ verdict \in [Workers -> Verdicts]
    /\ link \in [Workers -> {0} \cup DOMAIN contacts]
    /\ todo \in [Workers -> SUBSET Workflows]
    /\ faults \in 0 .. MaxFaults
    /\ \A w \in Workers : pc[w] # "idle" => job[w] \in Events
    /\ \A w \in Workers : pc[w] \notin {"idle", "answer"} => job[w] \in Valid

\* What the ids of its event and the contact it is linked to are, at each step
\* of a delivery.
Handles(w) ==
    LET p == payload[job[w]]
    IN  /\ pc[w] = "idle" => link[w] = 0
        /\ pc[w] \in {"findUser", "upsertUser"} =>
              p.user # NoId /\ (p.kind = "alias" => p.anon # NoId)
        /\ pc[w] \in {"findAnon", "upsertAnon"} => p.user = NoId /\ p.anon # NoId
        /\ pc[w] \in {"findOther", "merge"} => p.user # NoId /\ p.anon # NoId /\ link[w] # 0
        /\ pc[w] \notin {"idle", "answer"} /\ p.user # NoId /\ link[w] # 0
              => contacts[link[w]].user = p.user

\* What a worker that goes on after the insert, acks, or gives up has seen.
HasSeen(w) ==
    /\ pc[w] # "idle" => attempt[w] <= msg[job[w]].n
    /\ pc[w] = "markFailed" => verdict[w] = "term"
    /\ pc[w] = "markFailed" \/ (pc[w] = "answer" /\ verdict[w] = "term" /\ job[w] \in Valid)
          => attempt[w] >= MaxAttempts
    /\ pc[w] \in {"match", "publish", "markProcessed"} \/ (pc[w] = "answer" /\ verdict[w] = "ack")
          => enriched[job[w]] # Nothing

Handled == \A w \in Workers : Handles(w)
Seen == \A w \in Workers : HasSeen(w)

\* The inductive invariant.
Inv ==
    /\ Typed
    /\ Keyed(contacts)
    /\ Handled
    /\ Seen
    /\ SettledIsJustified
    /\ LinkedToOwnUser
    /\ TriggersAreBacked

-----------------------------------------------------------------------------
(***************************************************************************)
(* The statements on contacts.                                             *)
(***************************************************************************)

\* The rows with a user, or an anonymous id.
LEMMA RowsFacts ==
  /\ \A u : OfUser(u) = {i \in DOMAIN contacts : contacts[i].user = u}
  /\ \A a : OfAnon(a) = {i \in DOMAIN contacts : contacts[i].anon = a}
BY DEF OfUser, OfAnon, Rows

\* The payload of a valid event.
LEMMA ParsedFacts ==
  ASSUME Typed, NEW e \in Valid
  PROVE  e \in Events /\ payload[e] \in Parsed
BY ScenariosAssumption DEF Typed, Valid, Payloads, Parsed

\* A row appended under new ids keeps the keys.
LEMMA AppendFacts ==
  ASSUME contacts \in Seq(Contact), Keyed(contacts), NEW c \in Contact,
         c.user # NoId \/ c.anon # NoId,
         c.user # NoId => OfUser(c.user) = {},
         c.anon # NoId => OfAnon(c.anon) = {}
  PROVE  /\ Append(contacts, c) \in Seq(Contact)
         /\ Keyed(Append(contacts, c))
         /\ Kept(contacts, Append(contacts, c))
         /\ Len(contacts) + 1 \in DOMAIN Append(contacts, c)
         /\ Len(contacts) + 1 # 0
         /\ Append(contacts, c)[Len(contacts) + 1] = c
<1> DEFINE new == Append(contacts, c)
           n == Len(contacts)
<1>1. /\ n \in Nat
      /\ DOMAIN contacts = 1 .. n
      /\ new \in Seq(Contact)
      /\ DOMAIN new = 1 .. n + 1
      /\ \A i \in 1 .. n : new[i] = contacts[i]
      /\ new[n + 1] = c
  BY AppendProperties, LenProperties
<1> HIDE DEF new
<1>2. Kept(contacts, new)
  BY <1>1 DEF Kept
<1>3. \A i \in DOMAIN new : i \in 1 .. n \/ i = n + 1
  BY <1>1
<1>4. \A i \in 1 .. n : /\ c.user # NoId => contacts[i].user # c.user
                        /\ c.anon # NoId => contacts[i].anon # c.anon
  BY <1>1, RowsFacts
<1>5. ASSUME NEW i \in DOMAIN new, NEW j \in DOMAIN new, new[i].user # NoId,
             new[i].user = new[j].user
      PROVE  i = j
  BY <1>1, <1>3, <1>4, <1>5 DEF Keyed
<1>6. ASSUME NEW i \in DOMAIN new, NEW j \in DOMAIN new, new[i].anon # NoId,
             new[i].anon = new[j].anon
      PROVE  i = j
  BY <1>1, <1>3, <1>4, <1>6 DEF Keyed
<1>7. \A i \in DOMAIN new : new[i].user # NoId \/ new[i].anon # NoId
  BY <1>1, <1>3 DEF Keyed
<1>8. Keyed(new)
  BY <1>5, <1>6, <1>7 DEF Keyed
<1> QED
  BY <1>1, <1>2, <1>8 DEF new

\* A row rewritten with its own user, and with an anonymous id no other row has,
\* keeps the keys.
LEMMA RewriteFacts ==
  ASSUME contacts \in Seq(Contact), Keyed(contacts), NEW k \in DOMAIN contacts,
         NEW c \in Contact, c.user = contacts[k].user,
         c.user # NoId \/ c.anon # NoId,
         c.anon # NoId => OfAnon(c.anon) \ {k} = {}
  PROVE  /\ [contacts EXCEPT ![k] = c] \in Seq(Contact)
         /\ Keyed([contacts EXCEPT ![k] = c])
         /\ Kept(contacts, [contacts EXCEPT ![k] = c])
         /\ DOMAIN [contacts EXCEPT ![k] = c] = DOMAIN contacts
         /\ [contacts EXCEPT ![k] = c][k] = c
<1> DEFINE new == [contacts EXCEPT ![k] = c]
<1>1. /\ DOMAIN new = DOMAIN contacts
      /\ \A i \in DOMAIN contacts : new[i] = IF i = k THEN c ELSE contacts[i]
  OBVIOUS
<1>2. new \in Seq(Contact)
  BY ExceptSeq, LenProperties
<1> HIDE DEF new
<1>3. \A i \in DOMAIN contacts : c.anon # NoId /\ contacts[i].anon = c.anon => i = k
  BY RowsFacts
<1>4. Keyed(new)
  <2>1. \A i \in DOMAIN contacts : new[i].user = contacts[i].user
    BY <1>1
  <2>2. \A i, j \in DOMAIN new : new[i].user # NoId /\ new[i].user = new[j].user => i = j
    BY <1>1, <2>1 DEF Keyed
  <2>3. \A i, j \in DOMAIN new : new[i].anon # NoId /\ new[i].anon = new[j].anon => i = j
    BY <1>1, <1>3 DEF Keyed
  <2>4. \A i \in DOMAIN new : new[i].user # NoId \/ new[i].anon # NoId
    BY <1>1 DEF Keyed
  <2> QED
    BY <2>2, <2>3, <2>4 DEF Keyed
<1>5. Kept(contacts, new)
  BY <1>1 DEF Kept
<1> QED
  BY <1>1, <1>2, <1>4, <1>5 DEF new

\* Of a nonempty set of rows one is taken.
LEMMA TheRowFacts == ASSUME NEW ids, ids # {} PROVE TheRow(ids) \in ids
BY DEF TheRow

\* UpsertContact keeps the keys and every row, and answers with the user's row.
LEMMA UpsertedUserFacts ==
  ASSUME contacts \in Seq(Contact), Keyed(contacts), NEW p \in Parsed, p.user # NoId,
         ~AnonTaken(p.anon, OfUser(p.user))
  PROVE  LET new == UpsertedUser(p)
             id  == Written(OfUser(p.user))
         IN  /\ new \in Seq(Contact) /\ Keyed(new) /\ Kept(contacts, new)
             /\ id \in DOMAIN new /\ id # 0
             /\ new[id].user = p.user
<1> DEFINE ids == OfUser(p.user)
<1>1. CASE ids = {}
  <2> DEFINE c == [user |-> p.user, anon |-> p.anon, traits |-> p.traits]
  <2>1. c \in Contact /\ c.user = p.user /\ c.anon = p.anon
    BY DEF Contact, Parsed, Traits
  <2>2. c.anon # NoId => OfAnon(c.anon) = {}
    BY <1>1, <2>1 DEF AnonTaken
  <2>3. UpsertedUser(p) = Append(contacts, c) /\ Written(ids) = Len(contacts) + 1
    BY <1>1 DEF UpsertedUser, Written
  <2> HIDE DEF c
  <2> QED
    BY <1>1, <2>1, <2>2, <2>3, AppendFacts
<1>2. CASE ids # {}
  <2> DEFINE k == TheRow(ids)
             c == [user   |-> contacts[k].user,
                   anon   |-> IF p.anon = NoId THEN contacts[k].anon ELSE p.anon,
                   traits |-> Concatenated(contacts[k].traits, p.traits)]
  <2>1. k \in DOMAIN contacts /\ k \in ids /\ contacts[k].user = p.user
    BY <1>2, TheRowFacts, RowsFacts
  <2>2. k # 0 /\ contacts[k] \in Contact
    BY <2>1, LenProperties
  <2>3. c \in Contact /\ c.user = p.user
    BY <2>1, <2>2 DEF Contact, Parsed, Traits, Concatenated
  <2>4. c.anon # NoId => OfAnon(c.anon) \ {k} = {}
    <3>1. CASE p.anon = NoId
      <4>1. c.anon = contacts[k].anon
        BY <3>1
      <4> HIDE DEF c
      <4> QED
        BY <2>1, <4>1, RowsFacts DEF Keyed
    <3>2. CASE p.anon # NoId
      <4>1. OfAnon(p.anon) \ ids = {} /\ c.anon = p.anon
        BY <3>2 DEF AnonTaken
      <4>2. ids = {k}
        BY <2>1, RowsFacts DEF Keyed
      <4> QED
        BY <4>1, <4>2
    <3> QED
      BY <3>1, <3>2
  <2>5. UpsertedUser(p) = [contacts EXCEPT ![k] = c] /\ Written(ids) = k
    BY <1>2 DEF UpsertedUser, Written
  <2> HIDE DEF c, k
  <2>6. c.user # NoId \/ c.anon # NoId
    BY <2>3
  <2>7. /\ [contacts EXCEPT ![k] = c] \in Seq(Contact)
        /\ Keyed([contacts EXCEPT ![k] = c])
        /\ Kept(contacts, [contacts EXCEPT ![k] = c])
        /\ k \in DOMAIN [contacts EXCEPT ![k] = c]
        /\ [contacts EXCEPT ![k] = c][k] = c
    BY <2>1, <2>3, <2>4, <2>6, RewriteFacts
  <2> QED
    BY <2>2, <2>3, <2>5, <2>7
<1> QED
  BY <1>1, <1>2

\* UpsertAnonymousContact keeps the keys and every row, and answers with a row
\* of the anonymous id.
LEMMA UpsertedAnonFacts ==
  ASSUME contacts \in Seq(Contact), Keyed(contacts), NEW p \in Parsed, p.anon # NoId
  PROVE  LET new == UpsertedAnon(p)
             id  == Written(OfAnon(p.anon))
         IN  /\ new \in Seq(Contact) /\ Keyed(new) /\ Kept(contacts, new)
             /\ id \in DOMAIN new /\ id # 0
<1> DEFINE ids == OfAnon(p.anon)
<1>1. CASE ids = {}
  <2> DEFINE c == [user |-> NoId, anon |-> p.anon, traits |-> p.traits]
  <2>1. c \in Contact /\ c.user = NoId /\ c.anon = p.anon
    BY DEF Contact, Parsed, Traits
  <2>2. UpsertedAnon(p) = Append(contacts, c) /\ Written(ids) = Len(contacts) + 1
    BY <1>1 DEF UpsertedAnon, Written
  <2> HIDE DEF c
  <2> QED
    BY <1>1, <2>1, <2>2, AppendFacts
<1>2. CASE ids # {}
  <2> DEFINE k == TheRow(ids)
             c == [contacts[k] EXCEPT !.traits = Concatenated(@, p.traits)]
  <2>1. k \in DOMAIN contacts /\ k \in ids /\ contacts[k].anon = p.anon
    BY <1>2, TheRowFacts, RowsFacts
  <2>2. k # 0 /\ contacts[k] \in Contact
    BY <2>1, LenProperties
  <2>3. c \in Contact /\ c.user = contacts[k].user /\ c.anon = p.anon
    BY <2>1, <2>2 DEF Contact, Parsed, Traits, Concatenated
  <2>4. ids \ {k} = {}
    BY <2>1, RowsFacts DEF Keyed
  <2>5. UpsertedAnon(p) = [contacts EXCEPT ![k] = c] /\ Written(ids) = k
    BY <1>2 DEF UpsertedAnon, Written
  <2> HIDE DEF c, k
  <2>6. c.user # NoId \/ c.anon # NoId
    BY <2>3
  <2>7. /\ [contacts EXCEPT ![k] = c] \in Seq(Contact)
        /\ Keyed([contacts EXCEPT ![k] = c])
        /\ Kept(contacts, [contacts EXCEPT ![k] = c])
        /\ k \in DOMAIN [contacts EXCEPT ![k] = c]
        /\ [contacts EXCEPT ![k] = c][k] = c
    BY <2>1, <2>3, <2>4, <2>6, RewriteFacts
  <2> QED
    BY <2>2, <2>3, <2>5, <2>7
<1> QED
  BY <1>1, <1>2

\* MergeAnonymousIntoContact keeps the keys and every row.
LEMMA MergedFacts ==
  ASSUME contacts \in Seq(Contact), Keyed(contacts), NEW p \in Parsed, p.anon # NoId,
         NEW k \in DOMAIN contacts, ~AnonTaken(p.anon, {k})
  PROVE  LET new == [contacts EXCEPT ![k].anon = p.anon]
         IN  new \in Seq(Contact) /\ Keyed(new) /\ Kept(contacts, new)
<1> DEFINE c == [contacts[k] EXCEPT !.anon = p.anon]
<1>1. contacts[k] \in Contact
  BY LenProperties
<1>2. c \in Contact /\ c.user = contacts[k].user /\ c.anon = p.anon
  BY <1>1 DEF Contact, Parsed
<1>3. OfAnon(p.anon) \ {k} = {}
  BY DEF AnonTaken
<1>4. [contacts EXCEPT ![k].anon = p.anon] = [contacts EXCEPT ![k] = c]
  OBVIOUS
<1>5. p.anon # NoId => OfAnon(c.anon) \ {k} = {}
  BY <1>2, <1>3
<1> HIDE DEF c
<1>6. /\ [contacts EXCEPT ![k] = c] \in Seq(Contact)
      /\ Keyed([contacts EXCEPT ![k] = c])
      /\ Kept(contacts, [contacts EXCEPT ![k] = c])
  BY <1>2, <1>5, RewriteFacts
<1> QED
  BY <1>4, <1>6

\* Two keys leave room for a row of each user and, besides them, of each
\* anonymous id.
LEMMA RowsAreBounded ==
  ASSUME contacts \in Seq(Contact), Keyed(contacts)
  PROVE  DOMAIN contacts \subseteq ContactIds
<1> DEFINE ofUsers == {i \in DOMAIN contacts : contacts[i].user # NoId}
           ofAnons == DOMAIN contacts \ ofUsers
           user == [i \in ofUsers |-> contacts[i].user]
           anon == [i \in ofAnons |-> contacts[i].anon]
<1>1. /\ Len(contacts) \in Nat /\ DOMAIN contacts = 1 .. Len(contacts)
      /\ \A i \in DOMAIN contacts : contacts[i] \in Contact
  BY LenProperties
<1>2. IsFiniteSet(DOMAIN contacts) /\ Cardinality(DOMAIN contacts) = Len(contacts)
  BY <1>1, FS_Interval
<1>3. IsFiniteSet(ofUsers) /\ IsFiniteSet(ofAnons)
  BY <1>2, FS_Subset
<1>4. /\ Cardinality(ofUsers) \in Nat /\ Cardinality(ofAnons) \in Nat
      /\ Cardinality(Users) \in Nat /\ Cardinality(Anons) \in Nat
  BY <1>3, FiniteIdsAssumption, FS_CardinalityType
<1>5. Cardinality(ofUsers) <= Cardinality(Users)
  <2>1. user \in [ofUsers -> Users]
    BY <1>1 DEF Contact
  <2>2. \A i, j \in ofUsers : user[i] = user[j] => i = j
    BY DEF Keyed
  <2> HIDE DEF user
  <2>3. ~(Cardinality(Users) < Cardinality(ofUsers))
    BY <1>3, <2>1, <2>2, FiniteIdsAssumption, FS_PigeonHole
  <2> QED
    BY <1>4, <2>3
<1>6. Cardinality(ofAnons) <= Cardinality(Anons)
  <2>1. anon \in [ofAnons -> Anons]
    BY <1>1 DEF Contact, Keyed
  <2>2. \A i, j \in ofAnons : anon[i] = anon[j] => i = j
    BY DEF Keyed
  <2> HIDE DEF anon
  <2>3. ~(Cardinality(Anons) < Cardinality(ofAnons))
    BY <1>3, <2>1, <2>2, FiniteIdsAssumption, FS_PigeonHole
  <2> QED
    BY <1>4, <2>3
<1>7. Len(contacts) = Cardinality(ofUsers) + Cardinality(ofAnons)
  <2>1. ofUsers \cup ofAnons = DOMAIN contacts /\ ofUsers \cap ofAnons = {}
    OBVIOUS
  <2>2. Cardinality(ofUsers \cup ofAnons) =
           Cardinality(ofUsers) + Cardinality(ofAnons) - Cardinality(ofUsers \cap ofAnons)
    BY <1>3, FS_Union
  <2>3. Cardinality(ofUsers \cap ofAnons) = 0
    BY <2>1, FS_EmptySet
  <2> QED
    BY <1>2, <1>4, <2>1, <2>2, <2>3
<1> HIDE DEF ofUsers, ofAnons
<1> QED
  BY <1>1, <1>4, <1>5, <1>6, <1>7 DEF ContactIds

-----------------------------------------------------------------------------
(***************************************************************************)
(* What a step may do to the messages and to each table.                   *)
(***************************************************************************)

\* Whoever is between two calls of the handler has a valid event.
LEMMA AtWork ==
  ASSUME Typed, NEW w \in Workers, pc[w] \notin {"idle", "answer"}
  PROVE  job[w] \in Events /\ job[w] \in Valid /\ payload[job[w]] \in Parsed
BY ParsedFacts DEF Typed

\* A panic puts the message back.
LEMMA FindFacts ==
  ASSUME Typed, NEW w \in Workers, FindUser(w) \/ FindAnon(w)
  PROVE  /\ pc[w] \in {"findUser", "findAnon"}
         /\ UNCHANGED <<payload, raw, contacts, enriched, triggers>>
         /\ \/ UNCHANGED msg
            \/ msg' = [msg EXCEPT ![job[w]] = Requeued(@, MaxAttempts)]
BY DEF FindUser, FindAnon, Find, Panic, tables

\* What a step may do to a message.
LEMMA MsgStep ==
  ASSUME Typed, [Next]_vars
  PROVE  \/ UNCHANGED msg
         \/ \E e \in Events : Deliverable(msg[e]) /\ msg' = [msg EXCEPT ![e] = Delivered(@)]
         \/ \E e \in Events : msg' = [msg EXCEPT ![e] = Requeued(@, MaxAttempts)]
         \/ \E w \in Workers : /\ pc[w] = "answer"
                               /\ msg' = [msg EXCEPT ![job[w]] =
                                             Answered(@, verdict[w], MaxAttempts)]
<1>1. ASSUME NEW w \in Workers, FindUser(w) \/ FindAnon(w)
      PROVE  \/ UNCHANGED msg
             \/ \E e \in Events : msg' = [msg EXCEPT ![e] = Requeued(@, MaxAttempts)]
  BY <1>1, FindFacts, AtWork
<1>2. ASSUME NEW w \in Workers, AnswerMessage(w)
      PROVE  \/ UNCHANGED msg
             \/ /\ pc[w] = "answer"
                /\ msg' = [msg EXCEPT ![job[w]] = Answered(@, verdict[w], MaxAttempts)]
  BY <1>2 DEF AnswerMessage
<1>3. ASSUME NEW w \in Workers, Work(w), ~(FindUser(w) \/ FindAnon(w)), ~AnswerMessage(w)
      PROVE  UNCHANGED msg
  BY <1>3 DEF Work, CheckStatus, Mark, UpsertUser, UpsertAnon, Upsert, FindOther, Merge, Insert,
     Match, Publish, MarkProcessed, MarkFailed
<1> QED
  BY <1>1, <1>2, <1>3 DEF Next, Receive, Crash, Expire, Sweep, vars

\* Deliveries are only counted up, a message that waits has one left, and one is
\* settled by a worker's answer only.
LEMMA MsgFacts ==
  ASSUME Typed, [Next]_vars
  PROVE  /\ msg' \in [Events -> Msgs]
         /\ \A e \in Events :
               /\ msg'[e].st = "queued" => msg'[e].n < MaxAttempts
               /\ msg'[e].n >= msg[e].n
               /\ msg'[e].st = "acked" =>
                     \/ msg[e].st = "acked"
                     \/ \E w \in Workers : pc[w] = "answer" /\ verdict[w] = "ack" /\ job[w] = e
               /\ msg'[e].st = "termed" =>
                     \/ msg[e].st = "termed"
                     \/ \E w \in Workers : pc[w] = "answer" /\ verdict[w] = "term" /\ job[w] = e
<1> USE EventLimitsAssumption
<1>1. \A e \in Events : msg[e] \in Msgs /\ msg[e].n \in Nat
  BY DEF Typed, Msgs
<1>2. CASE UNCHANGED msg
  BY <1>1, <1>2 DEF Typed
<1>3. ASSUME NEW e \in Events, Deliverable(msg[e]), msg' = [msg EXCEPT ![e] = Delivered(@)]
      PROVE  /\ msg' \in [Events -> Msgs]
             /\ \A f \in Events : /\ msg'[f].st = "queued" => msg'[f].n < MaxAttempts
                                  /\ msg'[f].n >= msg[f].n
                                  /\ msg'[f].st = "acked" => msg[f].st = "acked"
                                  /\ msg'[f].st = "termed" => msg[f].st = "termed"
  BY <1>1, <1>3, DeliveredFacts DEF Typed
<1>4. ASSUME NEW e \in Events, msg' = [msg EXCEPT ![e] = Requeued(@, MaxAttempts)]
      PROVE  /\ msg' \in [Events -> Msgs]
             /\ \A f \in Events : /\ msg'[f].st = "queued" => msg'[f].n < MaxAttempts
                                  /\ msg'[f].n >= msg[f].n
                                  /\ msg'[f].st = "acked" => msg[f].st = "acked"
                                  /\ msg'[f].st = "termed" => msg[f].st = "termed"
  BY <1>1, <1>4, RequeuedFacts, RequeuedInTime DEF Typed
<1>5. ASSUME NEW w \in Workers, pc[w] = "answer",
             msg' = [msg EXCEPT ![job[w]] = Answered(@, verdict[w], MaxAttempts)]
      PROVE  /\ msg' \in [Events -> Msgs]
             /\ \A f \in Events :
                   /\ msg'[f].st = "queued" => msg'[f].n < MaxAttempts
                   /\ msg'[f].n >= msg[f].n
                   /\ msg'[f].st = "acked" =>
                         msg[f].st = "acked" \/ (verdict[w] = "ack" /\ job[w] = f)
                   /\ msg'[f].st = "termed" =>
                         msg[f].st = "termed" \/ (verdict[w] = "term" /\ job[w] = f)
  <2>1. job[w] \in Events /\ verdict[w] \in Verdicts
    BY <1>5 DEF Typed
  <2> DEFINE new == Answered(msg[job[w]], verdict[w], MaxAttempts)
  <2>2. /\ new \in Msgs /\ new.n = msg[job[w]].n
        /\ new.st = "acked" => msg[job[w]].st = "acked" \/ verdict[w] = "ack"
        /\ new.st = "termed" => msg[job[w]].st = "termed" \/ verdict[w] = "term"
    BY <1>1, <2>1, AnsweredFacts
  <2>3. new.st = "queued" => msg[job[w]].st = "queued" \/ msg[job[w]].n < MaxAttempts
    <3>1. CASE verdict[w] = "nak"
      BY <1>1, <2>1, <3>1, RequeuedInTime DEF Answered
    <3>2. CASE verdict[w] # "nak"
      BY <1>1, <2>1, <3>2, AnsweredFacts
    <3> QED
      BY <3>1, <3>2
  <2>4. msg' = [msg EXCEPT ![job[w]] = new]
    BY <1>5
  <2> HIDE DEF new
  <2> QED
    BY <1>1, <2>1, <2>2, <2>3, <2>4 DEF Typed
<1> QED
  BY <1>2, <1>3, <1>4, <1>5, MsgStep

\* A contact, once there, stays under its user; the keys hold.
LEMMA ContactsFacts ==
  ASSUME Typed, Keyed(contacts), Handled, [Next]_vars
  PROVE  contacts' \in Seq(Contact) /\ Keyed(contacts') /\ Kept(contacts, contacts')
<1>1. CASE UNCHANGED contacts
  BY <1>1 DEF Typed, Kept
<1>2. ASSUME NEW w \in Workers, UpsertUser(w), ~UNCHANGED contacts
      PROVE  contacts' \in Seq(Contact) /\ Keyed(contacts') /\ Kept(contacts, contacts')
  <2> DEFINE p == payload[job[w]]
  <2>1. pc[w] = "upsertUser" /\ contacts' = UpsertedUser(p) /\ ~AnonTaken(p.anon, OfUser(p.user))
    BY <1>2 DEF UpsertUser, Upsert
  <2>2. p \in Parsed /\ p.user # NoId
    BY <2>1, AtWork DEF Handled, Handles
  <2> QED
    BY <2>1, <2>2, UpsertedUserFacts DEF Typed
<1>3. ASSUME NEW w \in Workers, UpsertAnon(w), ~UNCHANGED contacts
      PROVE  contacts' \in Seq(Contact) /\ Keyed(contacts') /\ Kept(contacts, contacts')
  <2> DEFINE p == payload[job[w]]
  <2>1. pc[w] = "upsertAnon" /\ contacts' = UpsertedAnon(p)
    BY <1>3 DEF UpsertAnon, Upsert
  <2>2. p \in Parsed /\ p.anon # NoId
    BY <2>1, AtWork DEF Handled, Handles
  <2> QED
    BY <2>1, <2>2, UpsertedAnonFacts DEF Typed
<1>4. ASSUME NEW w \in Workers, Merge(w), ~UNCHANGED contacts
      PROVE  contacts' \in Seq(Contact) /\ Keyed(contacts') /\ Kept(contacts, contacts')
  <2> DEFINE p == payload[job[w]]
  <2>1. /\ pc[w] = "merge" /\ ~AnonTaken(p.anon, {link[w]})
        /\ contacts' = [contacts EXCEPT ![link[w]].anon = p.anon]
    BY <1>4 DEF Merge
  <2>2. p \in Parsed /\ p.anon # NoId /\ link[w] # 0
    BY <2>1, AtWork DEF Handled, Handles
  <2>3. link[w] \in DOMAIN contacts
    BY <2>2 DEF Typed
  <2> QED
    BY <2>1, <2>2, <2>3, MergedFacts DEF Typed
<1>5. ASSUME NEW w \in Workers, Work(w), ~UNCHANGED contacts
      PROVE  UpsertUser(w) \/ UpsertAnon(w) \/ Merge(w)
  BY <1>5, FindFacts DEF Work, CheckStatus, Mark, FindOther, Insert, Match, Publish,
     MarkProcessed, MarkFailed, AnswerMessage, tables
<1>6. CASE ~UNCHANGED contacts
  <2>1. PICK w \in Workers : Work(w)
    BY <1>6 DEF Next, Receive, Crash, Expire, Sweep, tables, vars
  <2>2. UpsertUser(w) \/ UpsertAnon(w) \/ Merge(w)
    BY <1>5, <1>6, <2>1
  <2> QED
    BY <1>2, <1>3, <1>4, <1>6, <2>2
<1> QED
  BY <1>1, <1>6

\* What an event carries does not change.
LEMMA PayloadStays == ASSUME [Next]_vars PROVE UNCHANGED payload
<1>1. ASSUME NEW w \in Workers, Work(w) PROVE UNCHANGED payload
  <2>1. CASE CheckStatus(w) \/ Mark(w) \/ FindUser(w) \/ FindAnon(w) \/ FindOther(w) \/ Merge(w)
    BY <2>1 DEF CheckStatus, Mark, FindUser, FindAnon, Find, FindOther, Merge
  <2>2. CASE UpsertUser(w) \/ UpsertAnon(w) \/ Insert(w) \/ Match(w)
    BY <2>2 DEF UpsertUser, UpsertAnon, Upsert, Insert, Match
  <2>3. CASE \/ \E wf \in Workflows : Publish(w, wf)
             \/ MarkProcessed(w) \/ MarkFailed(w) \/ AnswerMessage(w)
    BY <2>3 DEF Publish, MarkProcessed, MarkFailed, AnswerMessage
  <2> QED
    BY <1>1, <2>1, <2>2, <2>3 DEF Work
<1>2. CASE \E w \in Workers, e \in Events : Receive(w, e)
  BY <1>2 DEF Receive
<1>3. CASE (\E w \in Workers : Crash(w)) \/ (\E e \in Events : Expire(e) \/ Sweep(e))
  BY <1>3 DEF Crash, Expire, Sweep
<1> QED
  BY <1>1, <1>2, <1>3 DEF Next, vars

\* No statement inserts a row of events_raw, only the sweep deletes one, and the
\* two statements that settle it are the workers' last.
LEMMA RawFacts ==
  ASSUME Typed, [Next]_vars
  PROVE  /\ raw' \in [Events -> RawStates]
         /\ \A e \in Events :
               /\ raw[e] = "none" => raw'[e] = "none"
               /\ raw'[e] = "processed" =>
                     \/ raw[e] = "processed"
                     \/ \E w \in Workers : pc[w] = "markProcessed" /\ job[w] = e
               /\ raw'[e] = "failed" =>
                     \/ raw[e] = "failed"
                     \/ \E w \in Workers : pc[w] = "markFailed" /\ job[w] = e
               /\ raw'[e] = "none" => raw[e] = "none" \/ Sweep(e)
<1> USE DEF RawStates
<1>1. CASE UNCHANGED raw
  BY <1>1 DEF Typed
<1>2. ASSUME NEW w \in Workers, Mark(w), ~UNCHANGED raw
      PROVE  \E e \in Events : raw' = [raw EXCEPT ![e] = MarkedProcessing(@)]
  BY <1>2, AtWork DEF Mark
<1>3. ASSUME NEW w \in Workers, MarkProcessed(w), ~UNCHANGED raw
      PROVE  /\ pc[w] = "markProcessed" /\ job[w] \in Events
             /\ raw' = [raw EXCEPT ![job[w]] = MarkedProcessed(@)]
  BY <1>3, AtWork DEF MarkProcessed
<1>4. ASSUME NEW w \in Workers, MarkFailed(w), ~UNCHANGED raw
      PROVE  /\ pc[w] = "markFailed" /\ job[w] \in Events
             /\ raw' = [raw EXCEPT ![job[w]] = MarkedFailed(@)]
  BY <1>4, AtWork DEF MarkFailed
<1>5. ASSUME NEW w \in Workers, Work(w), ~UNCHANGED raw
      PROVE  Mark(w) \/ MarkProcessed(w) \/ MarkFailed(w)
  BY <1>5, FindFacts DEF Work, CheckStatus, UpsertUser, UpsertAnon, Upsert, FindOther, Merge,
     Insert, Match, Publish, AnswerMessage, tables
<1>6. \/ UNCHANGED raw
      \/ \E e \in Events : raw' = [raw EXCEPT ![e] = MarkedProcessing(@)]
      \/ \E w \in Workers : /\ pc[w] = "markProcessed" /\ job[w] \in Events
                            /\ raw' = [raw EXCEPT ![job[w]] = MarkedProcessed(@)]
      \/ \E w \in Workers : /\ pc[w] = "markFailed" /\ job[w] \in Events
                            /\ raw' = [raw EXCEPT ![job[w]] = MarkedFailed(@)]
      \/ \E e \in Events : Sweep(e)
  BY <1>2, <1>3, <1>4, <1>5 DEF Next, Receive, Crash, Expire, tables, vars
<1>7. ASSUME NEW e \in Events, raw' = [raw EXCEPT ![e] = MarkedProcessing(@)]
      PROVE  /\ raw' \in [Events -> RawStates]
             /\ \A f \in Events : /\ raw[f] = "none" <=> raw'[f] = "none"
                                  /\ raw'[f] = "processed" => raw[f] = "processed"
                                  /\ raw'[f] = "failed" => raw[f] = "failed"
  BY <1>7 DEF Typed, MarkedProcessing
<1>8. ASSUME NEW e \in Events, raw' = [raw EXCEPT ![e] = MarkedProcessed(@)]
      PROVE  /\ raw' \in [Events -> RawStates]
             /\ \A f \in Events : /\ raw[f] = "none" <=> raw'[f] = "none"
                                  /\ raw'[f] = "processed" => raw[f] = "processed" \/ f = e
                                  /\ raw'[f] = "failed" => raw[f] = "failed"
  BY <1>8 DEF Typed, MarkedProcessed
<1>9. ASSUME NEW e \in Events, raw' = [raw EXCEPT ![e] = MarkedFailed(@)]
      PROVE  /\ raw' \in [Events -> RawStates]
             /\ \A f \in Events : /\ raw[f] = "none" <=> raw'[f] = "none"
                                  /\ raw'[f] = "processed" => raw[f] = "processed"
                                  /\ raw'[f] = "failed" => raw[f] = "failed" \/ f = e
  BY <1>9 DEF Typed, MarkedFailed
<1>10. ASSUME NEW e \in Events, Sweep(e)
       PROVE  /\ raw' \in [Events -> RawStates]
              /\ \A f \in Events : /\ raw[f] = "none" => raw'[f] = "none"
                                   /\ raw'[f] = "none" => raw[f] = "none" \/ f = e
                                   /\ raw'[f] # "none" => raw'[f] = raw[f]
  BY <1>10 DEF Typed, Sweep
<1> QED
  BY <1>1, <1>6, <1>7, <1>8, <1>9, <1>10

\* An enriched event stays as it was first inserted, under a row of events_raw,
\* until the sweep takes both.
LEMMA EnrichedFacts ==
  ASSUME Typed, [Next]_vars
  PROVE  \A e \in Events :
            \/ enriched'[e] = enriched[e]
            \/ /\ enriched[e] = Nothing
               /\ \E w \in Workers : pc[w] = "insert" /\ job[w] = e /\ enriched'[e] = link[w]
            \/ Sweep(e) /\ enriched'[e] = Nothing /\ raw'[e] = "none"
<1>1. ASSUME NEW w \in Workers, Insert(w), ~UNCHANGED enriched
      PROVE  /\ pc[w] = "insert" /\ job[w] \in Events
             /\ enriched' = [enriched EXCEPT ![job[w]] = Inserted(@, link[w])]
  BY <1>1, AtWork DEF Insert
<1>2. ASSUME NEW w \in Workers, Work(w), ~UNCHANGED enriched
      PROVE  Insert(w)
  BY <1>2, FindFacts DEF Work, CheckStatus, Mark, UpsertUser, UpsertAnon, Upsert, FindOther, Merge,
     Match, Publish, MarkProcessed, MarkFailed, AnswerMessage, tables
<1>3. \/ UNCHANGED enriched
      \/ \E w \in Workers : /\ pc[w] = "insert" /\ job[w] \in Events
                            /\ enriched' = [enriched EXCEPT ![job[w]] = Inserted(@, link[w])]
      \/ \E e \in Events : Sweep(e)
  BY <1>1, <1>2 DEF Next, Receive, Crash, Expire, tables, vars
<1>4. ASSUME NEW w \in Workers, job[w] \in Events,
             enriched' = [enriched EXCEPT ![job[w]] = Inserted(@, link[w])]
      PROVE  \A e \in Events : \/ enriched'[e] = enriched[e]
                               \/ /\ enriched[e] = Nothing /\ job[w] = e
                                  /\ enriched'[e] = link[w]
  BY <1>4 DEF Typed, Inserted
<1>5. ASSUME NEW e \in Events, Sweep(e)
      PROVE  \A f \in Events : \/ enriched'[f] = enriched[f]
                               \/ f = e /\ enriched'[f] = Nothing /\ raw'[f] = "none"
  BY <1>5 DEF Typed, Sweep
<1> QED
  BY <1>3, <1>4, <1>5

\* Triggers are added only, by a worker that publishes, under its event and with
\* its contact.
LEMMA TriggersFacts ==
  ASSUME Typed, [Next]_vars
  PROVE  \/ UNCHANGED triggers
         \/ \E w \in Workers, wf \in Workflows :
               /\ pc[w] = "publish" /\ job[w] \in Events
               /\ triggers' = triggers \cup {Trigger(wf, job[w], link[w])}
<1>1. ASSUME NEW w \in Workers, NEW wf \in Workflows, Publish(w, wf)
      PROVE  \/ UNCHANGED triggers
             \/ /\ pc[w] = "publish" /\ job[w] \in Events
                /\ triggers' = triggers \cup {Trigger(wf, job[w], link[w])}
  BY <1>1, AtWork DEF Publish
<1>2. ASSUME NEW w \in Workers, Work(w), ~UNCHANGED triggers
      PROVE  \E wf \in Workflows : Publish(w, wf)
  BY <1>2, FindFacts DEF Work, CheckStatus, Mark, UpsertUser, UpsertAnon, Upsert, FindOther, Merge,
     Insert, Match, MarkProcessed, MarkFailed, AnswerMessage
<1> QED
  BY <1>1, <1>2 DEF Next, Receive, Crash, Expire, Sweep, vars

-----------------------------------------------------------------------------
(***************************************************************************)
(* The types.                                                              *)
(***************************************************************************)

\* The types of what the workers hold.
Held ==
    /\ pc \in [Workers -> PCs]
    /\ job \in [Workers -> Events \cup {Nothing}]
    /\ attempt \in [Workers -> 0 .. MaxAttempts]
    /\ verdict \in [Workers -> Verdicts]
    /\ todo \in [Workers -> SUBSET Workflows]
    /\ \A w \in Workers : pc[w] # "idle" => job[w] \in Events
    /\ \A w \in Workers : pc[w] \notin {"idle", "answer"} => job[w] \in Valid

\* A fault is taken from those that are left.
LEMMA FaultsStep == ASSUME Typed, [Next]_vars PROVE faults' \in 0 .. MaxFaults
<1> USE EventLimitsAssumption
<1>1. (Calm \/ \E kind \in FaultKinds : Fault(kind)) \/ faults' = faults => faults' \in 0 .. MaxFaults
  BY DEF Typed, Calm, Fault
<1>2. ASSUME NEW w \in Workers, Work(w) PROVE Calm \/ \E kind \in FaultKinds : Fault(kind)
  BY <1>2 DEF Work, CheckStatus, Mark, FindUser, FindAnon, Find, UpsertUser, UpsertAnon, Upsert,
     FindOther, Merge, Insert, Match, Publish, MarkProcessed, MarkFailed, AnswerMessage, Fault
<1> QED
  BY <1>1, <1>2 DEF Next, Receive, Crash, Expire, Sweep, Fault, vars

\* What an answer, or a change of step, leaves of the types.
LEMMA HeldMoves ==
  ASSUME Typed, UNCHANGED <<payload, todo>>, NEW w \in Workers, pc[w] \notin {"idle", "answer"},
         \/ \E next \in PCs : Goto(w, next)
         \/ \E next \in {"markFailed", "answer"}, v \in Verdicts : GotoAnswering(w, next, v)
  PROVE  Held'
<1>1. job[w] \in Events /\ job[w] \in Valid
  BY AtWork
<1>2. Valid' = Valid
  BY DEF Valid
<1>3. CASE \E next \in PCs : Goto(w, next)
  BY <1>1, <1>2, <1>3 DEF Typed, Held, Goto, locals
<1>4. CASE \E next \in {"markFailed", "answer"}, v \in Verdicts : GotoAnswering(w, next, v)
  BY <1>1, <1>2, <1>4 DEF Typed, Held, GotoAnswering, PCs
<1> QED
  BY <1>3, <1>4

\* An idle worker holds nothing.
LEMMA HeldIdle ==
  ASSUME Typed, UNCHANGED payload, NEW w \in Workers, ToIdle(w)
  PROVE  Held'
<1>1. Valid' = Valid
  BY DEF Valid
<1> QED
  BY <1>1, EventLimitsAssumption DEF Typed, Held, ToIdle, PCs, Verdicts

\* An error goes to the answer, or to the mark of the last attempt.
LEMMA TransientFacts ==
  ASSUME NEW w \in Workers, Transient(w)
  PROVE  \E next \in {"markFailed", "answer"}, v \in Verdicts : GotoAnswering(w, next, v)
BY DEF Transient, Answer, Verdicts

\* Each step keeps the types of what the workers hold.
LEMMA HeldStep == ASSUME Typed, [Next]_vars PROVE Held'
<1> UNCHANGED payload
  BY PayloadStays
<1>0. Valid' = Valid
  BY DEF Valid
<1>1. ASSUME NEW w \in Workers, NEW e \in Events, Receive(w, e) PROVE Held'
  <2>1. msg[e].n + 1 \in 0 .. MaxAttempts
    BY <1>1, EventLimitsAssumption DEF Typed, Receive, Deliverable, Msgs
  <2>2. payload[e] # Garbled => e \in Valid
    BY DEF Valid
  <2> QED
    BY <1>0, <1>1, <2>1, <2>2 DEF Typed, Held, Receive, PCs, Verdicts
<1>2. ASSUME NEW w \in Workers, CheckStatus(w) PROVE Held'
  BY <1>2, HeldMoves DEF CheckStatus, Answer, PCs, Verdicts
<1>3. ASSUME NEW w \in Workers, Mark(w) PROVE Held'
  <2>1. Enriching(payload[job[w]]) \in PCs
    BY DEF Enriching, PCs
  <2> QED
    BY <1>3, <2>1, HeldMoves DEF Mark, Answer, Verdicts
<1>4. ASSUME NEW w \in Workers, FindUser(w) \/ FindAnon(w) PROVE Held'
  <2>1. pc[w] \notin {"idle", "answer"}
    BY <1>4, FindFacts
  <2>2. \/ ToIdle(w)
        \/ UNCHANGED todo /\ \E next \in PCs : Goto(w, next)
        \/ UNCHANGED todo /\ Transient(w)
    BY <1>4 DEF FindUser, FindAnon, Find, Panic, PCs
  <2> QED
    BY <2>1, <2>2, HeldIdle, HeldMoves, TransientFacts
<1>5. ASSUME NEW w \in Workers, UpsertUser(w) \/ UpsertAnon(w) PROVE Held'
  <2>1. AfterUpsert(payload[job[w]]) \in PCs
    BY DEF AfterUpsert, PCs
  <2>2. /\ pc[w] \notin {"idle", "answer"} /\ UNCHANGED todo
        /\ Transient(w) \/ \E next \in PCs : Goto(w, next)
    BY <1>5, <2>1 DEF UpsertUser, UpsertAnon, Upsert, PCs
  <2> QED
    BY <2>2, HeldMoves, TransientFacts
<1>6. ASSUME NEW w \in Workers, FindOther(w) PROVE Held'
  BY <1>6, HeldMoves DEF FindOther, PCs
<1>7. ASSUME NEW w \in Workers, Merge(w) PROVE Held'
  <2>1. /\ pc[w] \notin {"idle", "answer"} /\ UNCHANGED todo
        /\ Transient(w) \/ \E next \in PCs : Goto(w, next)
    BY <1>7 DEF Merge, PCs
  <2> QED
    BY <2>1, HeldMoves, TransientFacts
<1>8. ASSUME NEW w \in Workers, Insert(w) PROVE Held'
  <2>1. /\ pc[w] \notin {"idle", "answer"} /\ UNCHANGED todo
        /\ Transient(w) \/ \E next \in PCs : Goto(w, next)
    BY <1>8 DEF Insert, PCs
  <2> QED
    BY <2>1, HeldMoves, TransientFacts
<1>9. ASSUME NEW w \in Workers, Match(w) \/ \E wf \in Workflows : Publish(w, wf) PROVE Held'
  <2>1. /\ pc[w] \notin {"idle", "answer"}
        /\ todo' \in [Workers -> SUBSET Workflows]
        /\ \E next \in PCs \ {"idle", "answer"} : Goto(w, next)
    BY <1>9 DEF Typed, Match, Publish, PCs
  <2>2. job[w] \in Events /\ job[w] \in Valid
    BY <2>1, AtWork
  <2> QED
    BY <1>0, <2>1, <2>2 DEF Typed, Held, Goto, locals
<1>10. ASSUME NEW w \in Workers, MarkProcessed(w) PROVE Held'
  BY <1>10, HeldMoves DEF MarkProcessed, Answer, Verdicts
<1>11. ASSUME NEW w \in Workers, MarkFailed(w) PROVE Held'
  BY <1>11, HeldMoves DEF MarkFailed, PCs
<1>12. ASSUME NEW w \in Workers, AnswerMessage(w) \/ Crash(w) PROVE Held'
  BY <1>12, HeldIdle DEF AnswerMessage, Crash
<1>13. CASE UNCHANGED <<pc, locals, todo>>
  BY <1>0, <1>13 DEF Typed, Held, locals
<1> QED
  BY <1>1, <1>2, <1>3, <1>4, <1>5, <1>6, <1>7, <1>8, <1>9, <1>10, <1>11, <1>12, <1>13
     DEF Next, Work, Expire, Sweep, vars, locals

-----------------------------------------------------------------------------
(***************************************************************************)
(* The contact a worker is linked to.                                      *)
(***************************************************************************)

\* A worker's step leaves the other workers alone.
LEMMA OthersStay ==
  ASSUME Typed, NEW w \in Workers,
         Work(w) \/ Crash(w) \/ \E e \in Events : Receive(w, e),
         NEW v \in Workers, v # w
  PROVE  /\ pc'[v] = pc[v] /\ job'[v] = job[v] /\ attempt'[v] = attempt[v]
         /\ verdict'[v] = verdict[v] /\ link'[v] = link[v]
<1> USE DEF Typed, locals, tables
<1>1. CASE \E e \in Events : Receive(w, e)
  BY <1>1 DEF Receive
<1>2. CASE Crash(w) \/ AnswerMessage(w)
  BY <1>2 DEF Crash, AnswerMessage, ToIdle
<1>3. CASE FindUser(w) \/ FindAnon(w)
  BY <1>3 DEF FindUser, FindAnon, Find, Panic, ToIdle, Linked, Goto, Transient, Answer,
     GotoAnswering
<1>4. CASE UpsertUser(w) \/ UpsertAnon(w)
  BY <1>4 DEF UpsertUser, UpsertAnon, Upsert, Linked, Goto, Transient, Answer, GotoAnswering
<1>5. CASE CheckStatus(w) \/ Mark(w)
  BY <1>5 DEF CheckStatus, Mark, Goto, Answer, GotoAnswering
<1>6. CASE FindOther(w) \/ Merge(w) \/ Insert(w)
  BY <1>6 DEF FindOther, Merge, Insert, Goto, Transient, Answer, GotoAnswering
<1>7. CASE Match(w) \/ \E wf \in Workflows : Publish(w, wf)
  BY <1>7 DEF Match, Publish, Goto
<1>8. CASE MarkProcessed(w) \/ MarkFailed(w)
  BY <1>8 DEF MarkProcessed, MarkFailed, Goto, Answer, GotoAnswering
<1> QED
  BY <1>1, <1>2, <1>3, <1>4, <1>5, <1>6, <1>7, <1>8 DEF Work

\* The link is a row, or none, and the worker handles its event's contact.
LinksWell(w) == link[w] \in {0} \cup DOMAIN contacts /\ Handles(w)

\* A worker that stays where it is, answers, or goes on past the contact keeps
\* its link.
LEMMA LinkKept ==
  ASSUME Typed, Handled, UNCHANGED payload, Kept(contacts, contacts'), NEW w \in Workers,
         job'[w] = job[w], link'[w] = link[w],
         \/ pc'[w] = pc[w]
         \/ pc'[w] = "answer"
         \/ /\ pc[w] \notin {"idle", "answer"}
            /\ pc'[w] \in {"insert", "match", "publish", "markProcessed", "markFailed"}
  PROVE  LinksWell(w)'
<1>1. link[w] \in {0} \cup DOMAIN contacts /\ Handles(w)
  BY DEF Typed, Handled
<1>2. \A i \in DOMAIN contacts : i \in DOMAIN contacts' /\ contacts'[i].user = contacts[i].user
  BY DEF Kept
<1>3. link'[w] \in {0} \cup DOMAIN contacts'
  BY <1>1, <1>2
<1>4. Handles(w)'
  BY <1>1, <1>2 DEF Handles
<1> QED
  BY <1>3, <1>4 DEF LinksWell

\* An idle worker is linked to nothing.
LEMMA LinkIdle ==
  ASSUME Typed, NEW w \in Workers, ToIdle(w)
  PROVE  LinksWell(w)'
<1>1. pc'[w] = "idle" /\ link'[w] = 0
  BY DEF Typed, ToIdle
<1> QED
  BY <1>1 DEF LinksWell, Handles

\* So does one whose call failed keep its link.
LEMMA LinkGivenUp ==
  ASSUME Typed, Handled, UNCHANGED <<payload, link>>, Kept(contacts, contacts'), NEW w \in Workers,
         pc[w] \notin {"idle", "answer"}, Transient(w) \/ Goto(w, "insert")
  PROVE  LinksWell(w)'
<1>1. job'[w] = job[w] /\ pc'[w] \in {"answer", "markFailed", "insert"}
  BY DEF Typed, Transient, Answer, GotoAnswering, Goto, locals
<1> QED
  BY <1>1, LinkKept

\* Each step keeps every worker linked to a contact of its event's user.
LEMMA LinksStep ==
  ASSUME Typed, Keyed(contacts), Handled, [Next]_vars
  PROVE  \A v \in Workers : LinksWell(v)'
<1> SUFFICES ASSUME NEW v \in Workers PROVE LinksWell(v)'
  OBVIOUS
<1> UNCHANGED payload
  BY PayloadStays
<1> Kept(contacts, contacts')
  BY ContactsFacts
<1>0. ASSUME NEW w \in Workers, w # v,
             Work(w) \/ Crash(w) \/ \E e \in Events : Receive(w, e)
      PROVE  LinksWell(v)'
  BY <1>0, OthersStay, LinkKept
<1> DEFINE p == payload[job[v]]
<1> Handles(v)
  BY DEF Handled
<1>1. ASSUME NEW e \in Events, Receive(v, e) PROVE LinksWell(v)'
  <2>1. link'[v] = 0 /\ pc'[v] \in {"check", "answer"}
    BY <1>1 DEF Typed, Receive, Handles
  <2> QED
    BY <2>1 DEF LinksWell, Handles
<1>2. ASSUME CheckStatus(v) PROVE LinksWell(v)'
  <2>1. /\ pc[v] = "check" /\ pc'[v] \in {"answer", "mark"}
        /\ job'[v] = job[v] /\ link'[v] = link[v]
    BY <1>2 DEF Typed, CheckStatus, Goto, Answer, GotoAnswering, locals
  <2>2. CASE pc'[v] = "answer"
    BY <2>1, <2>2, LinkKept
  <2>3. CASE pc'[v] = "mark"
    BY <2>1, <2>3 DEF Typed, LinksWell, Handles, Kept
  <2> QED
    BY <2>1, <2>2, <2>3
<1>3. ASSUME Mark(v) PROVE LinksWell(v)'
  <2>1. pc[v] = "mark" /\ job'[v] = job[v] /\ link'[v] = link[v]
    BY <1>3 DEF Mark, Goto, Answer, GotoAnswering, locals
  <2>2. pc'[v] \in {"answer", Enriching(p)}
    BY <1>3 DEF Typed, Mark, Goto, Answer, GotoAnswering
  <2>3. CASE pc'[v] = "answer"
    BY <2>1, <2>3, LinkKept
  <2>4. CASE pc'[v] = Enriching(p)
    <3>1. /\ Enriching(p) \in {"upsertUser", "findUser", "findAnon", "insert"}
          /\ Enriching(p) \in {"upsertUser", "findUser"} =>
                p.user # NoId /\ (p.kind = "alias" => p.anon # NoId)
          /\ Enriching(p) = "findAnon" => p.user = NoId /\ p.anon # NoId
      BY DEF Enriching
    <3>2. link'[v] \in {0} \cup DOMAIN contacts'
      BY <2>1 DEF Typed, Kept
    <3>3. p.user # NoId /\ link[v] # 0 => contacts'[link[v]].user = p.user
      BY <2>1 DEF Typed, Handles, Kept
    <3> HIDE DEF p
    <3>4. payload'[job'[v]] = p
      BY <2>1 DEF p
    <3> QED
      BY <2>1, <2>4, <3>1, <3>2, <3>3, <3>4 DEF LinksWell, Handles
  <2> QED
    BY <2>2, <2>3, <2>4
<1>4. ASSUME FindUser(v) PROVE LinksWell(v)'
  <2>1. /\ pc[v] = "findUser" /\ UNCHANGED contacts
        /\ p.user # NoId /\ (p.kind = "alias" => p.anon # NoId)
    BY <1>4 DEF FindUser, Find, Handles, tables
  <2>2. CASE Goto(v, "upsertUser") /\ UNCHANGED link
    <3>1. pc'[v] = "upsertUser" /\ job'[v] = job[v]
      BY <2>2 DEF Typed, Goto, locals
    <3> QED
      BY <2>1, <2>2, <3>1 DEF Typed, LinksWell, Handles
  <2>3. ASSUME NEW i \in OfUser(p.user), Linked(v, i), Goto(v, "insert") PROVE LinksWell(v)'
    <3>1. pc'[v] = "insert" /\ job'[v] = job[v] /\ link'[v] = i
      BY <2>3 DEF Typed, Goto, Linked, locals
    <3>2. i \in DOMAIN contacts /\ contacts[i].user = p.user
      BY RowsFacts
    <3> QED
      BY <2>1, <3>1, <3>2 DEF LinksWell, Handles
  <2>4. CASE Transient(v) /\ UNCHANGED link
    BY <2>1, <2>4, LinkGivenUp
  <2> QED
    BY <1>4, <2>2, <2>3, <2>4, LinkIdle DEF FindUser, Find, Panic
<1>5. ASSUME FindAnon(v) PROVE LinksWell(v)'
  <2>1. pc[v] = "findAnon" /\ p.user = NoId /\ p.anon # NoId /\ UNCHANGED contacts
    BY <1>5 DEF FindAnon, Find, Handles, tables
  <2>2. CASE Goto(v, "upsertAnon") /\ UNCHANGED link
    <3>1. pc'[v] = "upsertAnon" /\ job'[v] = job[v]
      BY <2>2 DEF Typed, Goto, locals
    <3> QED
      BY <2>1, <2>2, <3>1 DEF Typed, LinksWell, Handles
  <2>3. ASSUME NEW i \in OfAnon(p.anon), Linked(v, i), Goto(v, "insert") PROVE LinksWell(v)'
    <3>1. pc'[v] = "insert" /\ job'[v] = job[v] /\ link'[v] = i
      BY <2>3 DEF Typed, Goto, Linked, locals
    <3>2. i \in DOMAIN contacts
      BY RowsFacts
    <3> QED
      BY <2>1, <3>1, <3>2 DEF LinksWell, Handles
  <2>4. CASE Transient(v) /\ UNCHANGED link
    BY <2>1, <2>4, LinkGivenUp
  <2> QED
    BY <1>5, <2>2, <2>3, <2>4, LinkIdle DEF FindAnon, Find, Panic
<1>6. ASSUME UpsertUser(v) PROVE LinksWell(v)'
  <2> DEFINE id == Written(OfUser(p.user))
  <2>1. /\ pc[v] = "upsertUser" /\ p \in Parsed
        /\ p.user # NoId /\ (p.kind = "alias" => p.anon # NoId)
    BY <1>6, AtWork DEF UpsertUser, Upsert, Handles
  <2>2. CASE Transient(v) /\ UNCHANGED link
    BY <2>1, <2>2, LinkGivenUp
  <2>3. CASE /\ ~AnonTaken(p.anon, OfUser(p.user)) /\ contacts' = UpsertedUser(p)
             /\ Linked(v, id) /\ Goto(v, AfterUpsert(p))
    <3>1. id \in DOMAIN contacts' /\ id # 0 /\ contacts'[id].user = p.user
      BY <2>1, <2>3, UpsertedUserFacts DEF Typed
    <3>2. pc'[v] = AfterUpsert(p) /\ job'[v] = job[v] /\ link'[v] = id
      BY <2>3 DEF Typed, Goto, Linked, locals
    <3>3. /\ AfterUpsert(p) \in {"merge", "findOther", "insert"}
          /\ AfterUpsert(p) \in {"merge", "findOther"} => p.anon # NoId
      BY <2>1 DEF AfterUpsert
    <3>4. payload'[job'[v]] = p
      BY <3>2
    <3> HIDE DEF p, id
    <3> QED
      BY <2>1, <3>1, <3>2, <3>3, <3>4 DEF LinksWell, Handles
  <2>4. CASE contacts' = UpsertedUser(p) /\ Transient(v) /\ UNCHANGED link
    BY <2>1, <2>4, LinkGivenUp
  <2> QED
    BY <1>6, <2>2, <2>3, <2>4 DEF UpsertUser, Upsert
<1>7. ASSUME UpsertAnon(v) PROVE LinksWell(v)'
  <2> DEFINE id == Written(OfAnon(p.anon))
  <2>1. pc[v] = "upsertAnon" /\ p \in Parsed /\ p.user = NoId /\ p.anon # NoId
    BY <1>7, AtWork DEF UpsertAnon, Upsert, Handles
  <2>2. CASE Transient(v) /\ UNCHANGED link
    BY <2>1, <2>2, LinkGivenUp
  <2>3. CASE contacts' = UpsertedAnon(p) /\ Linked(v, id) /\ Goto(v, "insert")
    <3>1. id \in DOMAIN contacts'
      BY <2>1, <2>3, UpsertedAnonFacts DEF Typed
    <3>2. pc'[v] = "insert" /\ job'[v] = job[v] /\ link'[v] = id
      BY <2>3 DEF Typed, Goto, Linked, locals
    <3>3. payload'[job'[v]] = p
      BY <3>2
    <3> HIDE DEF p, id
    <3> QED
      BY <2>1, <3>1, <3>2, <3>3 DEF LinksWell, Handles
  <2> QED
    BY <1>7, <2>2, <2>3 DEF UpsertAnon, Upsert
<1>8. ASSUME FindOther(v) PROVE LinksWell(v)'
  <2>1. /\ pc[v] = "findOther" /\ pc'[v] \in {"insert", "merge"} /\ job'[v] = job[v]
        /\ UNCHANGED <<link, contacts>>
    BY <1>8 DEF Typed, FindOther, Goto, locals, tables
  <2> QED
    BY <2>1 DEF Typed, LinksWell, Handles
<1>9. ASSUME Merge(v) \/ Insert(v) PROVE LinksWell(v)'
  <2>1. CASE Transient(v) \/ Goto(v, "insert")
    BY <1>9, <2>1, LinkGivenUp DEF Merge, Insert
  <2>2. CASE Insert(v) /\ Goto(v, "match")
    <3>1. /\ pc[v] = "insert" /\ pc'[v] = "match" /\ job'[v] = job[v] /\ UNCHANGED link
      BY <2>2 DEF Typed, Insert, Goto, locals
    <3> QED
      BY <3>1, LinkKept
  <2> QED
    BY <1>9, <2>1, <2>2 DEF Merge, Insert
<1>10. ASSUME Match(v) \/ \E wf \in Workflows : Publish(v, wf) PROVE LinksWell(v)'
  <2>1. /\ pc[v] \in {"match", "publish"} /\ pc'[v] \in {"publish", "markProcessed"}
        /\ job'[v] = job[v] /\ UNCHANGED link
    BY <1>10 DEF Typed, Match, Publish, Goto, locals
  <2> QED
    BY <2>1, LinkKept
<1>11. ASSUME MarkProcessed(v) \/ MarkFailed(v) PROVE LinksWell(v)'
  <2>1. /\ pc'[v] = "answer" /\ job'[v] = job[v] /\ UNCHANGED link
    BY <1>11 DEF Typed, MarkProcessed, MarkFailed, Answer, GotoAnswering, Goto, locals
  <2> QED
    BY <2>1, LinkKept
<1>12. ASSUME AnswerMessage(v) \/ Crash(v) PROVE LinksWell(v)'
  BY <1>12, LinkIdle DEF AnswerMessage, Crash
<1>13. CASE UNCHANGED <<pc, job, link>>
  BY <1>13, LinkKept
<1>14. ASSUME Work(v) PROVE LinksWell(v)'
  BY <1>2, <1>3, <1>4, <1>5, <1>6, <1>7, <1>8, <1>9, <1>10, <1>11, <1>12, <1>14 DEF Work
<1> QED
  BY <1>0, <1>1, <1>12, <1>13, <1>14 DEF Next, Expire, Sweep, vars, locals

-----------------------------------------------------------------------------
(***************************************************************************)
(* What a worker has seen when it acks or gives up.                        *)
(***************************************************************************)

\* The sweep leaves an event alone while a worker has it.
LEMMA EnrichedStays ==
  ASSUME Typed, [Next]_vars, NEW v \in Workers, job[v] \in Events, enriched[job[v]] # Nothing
  PROVE  enriched'[job[v]] # Nothing
<1>1. ~Sweep(job[v])
  BY DEF Sweep
<1> QED
  BY <1>1, EnrichedFacts

\* A worker that stays busy keeps its delivery.
LEMMA DeliveryKept ==
  ASSUME Typed, NEW w \in Workers, Work(w), pc'[w] # "idle"
  PROVE  pc[w] # "idle" /\ job'[w] = job[w] /\ attempt'[w] = attempt[w]
<1> USE DEF Typed, locals, tables
<1>1. CASE AnswerMessage(w)
  BY <1>1 DEF AnswerMessage, ToIdle
<1>2. CASE FindUser(w) \/ FindAnon(w)
  BY <1>2 DEF FindUser, FindAnon, Find, Panic, ToIdle, Linked, Goto, Transient, Answer,
     GotoAnswering
<1>3. CASE UpsertUser(w) \/ UpsertAnon(w)
  BY <1>3 DEF UpsertUser, UpsertAnon, Upsert, Linked, Goto, Transient, Answer, GotoAnswering
<1>4. CASE CheckStatus(w) \/ Mark(w)
  BY <1>4 DEF CheckStatus, Mark, Goto, Answer, GotoAnswering
<1>5. CASE FindOther(w) \/ Merge(w) \/ Insert(w)
  BY <1>5 DEF FindOther, Merge, Insert, Goto, Transient, Answer, GotoAnswering
<1>6. CASE Match(w) \/ \E wf \in Workflows : Publish(w, wf)
  BY <1>6 DEF Match, Publish, Goto
<1>7. CASE MarkProcessed(w) \/ MarkFailed(w)
  BY <1>7 DEF MarkProcessed, MarkFailed, Goto, Answer, GotoAnswering
<1> QED
  BY <1>1, <1>2, <1>3, <1>4, <1>5, <1>6, <1>7 DEF Work

\* What must hold of a worker's next step, besides its delivery.
Justified(w) ==
    /\ pc[w] = "markFailed" => verdict[w] = "term"
    /\ pc[w] = "markFailed" \/ (pc[w] = "answer" /\ verdict[w] = "term" /\ job[w] \in Valid)
          => attempt[w] >= MaxAttempts
    /\ pc[w] \in {"match", "publish", "markProcessed"} \/ (pc[w] = "answer" /\ verdict[w] = "ack")
          => enriched[job[w]] # Nothing

\* An error is given up at the last attempt only.
LEMMA JustifiedError ==
  ASSUME Typed, NEW w \in Workers, Transient(w)
  PROVE  Justified(w)'
<1>1. CASE attempt[w] >= MaxAttempts
  <2>1. pc'[w] = "markFailed" /\ verdict'[w] = "term" /\ attempt'[w] = attempt[w]
    BY <1>1 DEF Typed, Transient, GotoAnswering
  <2> QED
    BY <1>1, <2>1 DEF Justified
<1>2. CASE ~(attempt[w] >= MaxAttempts)
  <2>1. pc'[w] = "answer" /\ verdict'[w] = "nak"
    BY <1>2 DEF Typed, Transient, Answer, GotoAnswering
  <2> QED
    BY <2>1 DEF Justified
<1> QED
  BY <1>1, <1>2

\* Nothing is asked of the steps before the insert.
LEMMA JustifiedEarly ==
  ASSUME Typed, NEW w \in Workers,
         NEW next \in PCs \ {"markFailed", "match", "publish", "markProcessed", "answer"},
         pc' = [pc EXCEPT ![w] = next]
  PROVE  Justified(w)'
<1>1. pc'[w] = next
  BY DEF Typed
<1> QED
  BY <1>1 DEF Justified

\* A worker's own step keeps it justified.
LEMMA JustifiedStep ==
  ASSUME Typed, Seen, SettledIsJustified, [Next]_vars, NEW w \in Workers, Work(w)
  PROVE  Justified(w)'
<1> Justified(w)
  BY DEF Seen, HasSeen, Justified
<1>1. CASE CheckStatus(w)
  <2>1. job[w] \in Events /\ job[w] \in Valid /\ job'[w] = job[w]
    BY <1>1, AtWork DEF CheckStatus, Goto, Answer, GotoAnswering, locals
  <2>2. CASE raw[job[w]] = "processed" /\ Answer(w, "ack")
    <3>1. enriched[job[w]] # Nothing
      BY <2>1, <2>2 DEF SettledIsJustified
    <3>2. enriched'[job'[w]] # Nothing
      BY <2>1, <3>1, EnrichedStays
    <3>3. pc'[w] = "answer" /\ verdict'[w] = "ack"
      BY <2>2 DEF Typed, Answer, GotoAnswering
    <3> QED
      BY <3>2, <3>3 DEF Justified
  <2>3. CASE Goto(w, "mark")
    BY <2>3, JustifiedEarly DEF Goto, PCs
  <2>4. CASE Answer(w, "nak")
    <3>1. pc'[w] = "answer" /\ verdict'[w] = "nak"
      BY <2>4 DEF Typed, Answer, GotoAnswering
    <3> QED
      BY <3>1 DEF Justified
  <2> QED
    BY <1>1, <2>2, <2>3, <2>4 DEF CheckStatus
<1>2. CASE Mark(w)
  <2>1. Enriching(payload[job[w]]) \in {"upsertUser", "findUser", "findAnon", "insert"}
    BY DEF Enriching
  <2>2. CASE Answer(w, "nak")
    <3>1. pc'[w] = "answer" /\ verdict'[w] = "nak"
      BY <2>2 DEF Typed, Answer, GotoAnswering
    <3> QED
      BY <3>1 DEF Justified
  <2> QED
    BY <1>2, <2>1, <2>2, JustifiedEarly DEF Mark, Goto, PCs
<1>3. CASE FindUser(w) \/ FindAnon(w)
  <2>1. \/ Transient(w)
        \/ \E next \in {"idle", "upsertUser", "upsertAnon", "insert"} :
              pc' = [pc EXCEPT ![w] = next]
    BY <1>3 DEF FindUser, FindAnon, Find, Panic, ToIdle, Goto
  <2> QED
    BY <2>1, JustifiedError, JustifiedEarly DEF PCs
<1>4. CASE UpsertUser(w) \/ UpsertAnon(w)
  <2>1. AfterUpsert(payload[job[w]]) \in {"merge", "findOther", "insert"}
    BY DEF AfterUpsert
  <2>2. \/ Transient(w)
        \/ \E next \in {"merge", "findOther", "insert"} : pc' = [pc EXCEPT ![w] = next]
    BY <1>4, <2>1 DEF UpsertUser, UpsertAnon, Upsert, Goto
  <2> QED
    BY <2>2, JustifiedError, JustifiedEarly DEF PCs
<1>5. CASE FindOther(w) \/ Merge(w)
  <2>1. \/ Transient(w)
        \/ \E next \in {"merge", "insert"} : pc' = [pc EXCEPT ![w] = next]
    BY <1>5 DEF FindOther, Merge, Goto
  <2> QED
    BY <2>1, JustifiedError, JustifiedEarly DEF PCs
<1>6. CASE Insert(w)
  <2>1. CASE Transient(w)
    BY <2>1, JustifiedError
  <2>2. CASE Goto(w, "match") /\ enriched' = [enriched EXCEPT ![job[w]] = Inserted(@, link[w])]
    <3>1. job[w] \in Events /\ link[w] # Nothing
      <4>1. contacts \in Seq(Contact) /\ link[w] \in {0} \cup DOMAIN contacts
        BY DEF Typed
      <4>2. Len(contacts) \in Nat /\ DOMAIN contacts = 1 .. Len(contacts)
        BY <4>1, LenProperties
      <4>3. link[w] \in Nat
        BY <4>1, <4>2
      <4> QED
        BY <1>6, <4>3, AtWork, EventsAssumption DEF Insert
    <3>2. pc'[w] = "match" /\ job'[w] = job[w] /\ enriched'[job[w]] # Nothing
      BY <2>2, <3>1 DEF Typed, Goto, locals, Inserted
    <3> QED
      BY <3>2 DEF Justified
  <2> QED
    BY <1>6, <2>1, <2>2 DEF Insert
<1>7. CASE Match(w) \/ \E wf \in Workflows : Publish(w, wf)
  <2>1. /\ pc[w] \in {"match", "publish"} /\ pc'[w] \in {"publish", "markProcessed"}
        /\ job'[w] = job[w]
    BY <1>7 DEF Typed, Match, Publish, Goto, locals
  <2>2. job[w] \in Events /\ enriched[job[w]] # Nothing
    BY <2>1, AtWork DEF Justified
  <2>3. enriched'[job'[w]] # Nothing
    BY <2>1, <2>2, EnrichedStays
  <2> QED
    BY <2>1, <2>3 DEF Justified
<1>8. CASE MarkProcessed(w)
  <2>1. /\ pc[w] = "markProcessed" /\ pc'[w] = "answer" /\ verdict'[w] = "ack"
        /\ job'[w] = job[w]
    BY <1>8 DEF Typed, MarkProcessed, Answer, GotoAnswering
  <2>2. job[w] \in Events /\ enriched[job[w]] # Nothing
    BY <2>1, AtWork DEF Justified
  <2>3. enriched'[job'[w]] # Nothing
    BY <2>1, <2>2, EnrichedStays
  <2> QED
    BY <2>1, <2>3 DEF Justified
<1>9. CASE MarkFailed(w)
  <2>1. /\ pc[w] = "markFailed" /\ pc'[w] = "answer" /\ verdict'[w] = verdict[w]
        /\ attempt'[w] = attempt[w]
    BY <1>9 DEF Typed, MarkFailed, Goto, locals
  <2>2. verdict[w] = "term" /\ attempt[w] >= MaxAttempts
    BY <2>1 DEF Justified
  <2> QED
    BY <2>1, <2>2 DEF Justified
<1>10. CASE AnswerMessage(w)
  BY <1>10, JustifiedEarly DEF AnswerMessage, ToIdle, PCs
<1> QED
  BY <1>1, <1>2, <1>3, <1>4, <1>5, <1>6, <1>7, <1>8, <1>9, <1>10 DEF Work

\* Each step keeps what every worker has seen.
LEMMA SeenStep ==
  ASSUME Typed, Seen, SettledIsJustified, [Next]_vars
  PROVE  Seen'
<1> SUFFICES ASSUME NEW v \in Workers PROVE HasSeen(v)'
  BY DEF Seen
<1> HasSeen(v)
  BY DEF Seen
<1> USE EventLimitsAssumption
<1>1. \A e \in Events : msg'[e].n >= msg[e].n /\ msg[e].n \in Nat /\ msg'[e].n \in Nat
  BY MsgFacts DEF Typed, Msgs
<1>2. attempt[v] \in Nat /\ (pc[v] # "idle" => job[v] \in Events)
  BY DEF Typed
<1>3. Valid' = Valid
  BY PayloadStays DEF Valid
<1>4. CASE /\ pc'[v] = pc[v] /\ job'[v] = job[v] /\ attempt'[v] = attempt[v]
           /\ verdict'[v] = verdict[v]
  <2>1. pc[v] # "idle" /\ enriched[job[v]] # Nothing => enriched'[job[v]] # Nothing
    BY <1>2, EnrichedStays
  <2> QED
    BY <1>1, <1>2, <1>3, <1>4, <2>1 DEF HasSeen
<1>5. CASE Work(v)
  <2>1. Justified(v)'
    BY <1>5, JustifiedStep
  <2>2. pc'[v] # "idle" => attempt'[v] <= msg'[job'[v]].n
    BY <1>1, <1>2, <1>5, DeliveryKept DEF HasSeen
  <2> QED
    BY <2>1, <2>2 DEF HasSeen, Justified
<1>6. ASSUME NEW e \in Events, Receive(v, e) PROVE HasSeen(v)'
  <2>1. /\ job'[v] = e /\ attempt'[v] = msg[e].n + 1
        /\ \/ pc'[v] = "check"
           \/ pc'[v] = "answer" /\ verdict'[v] = "term" /\ e \notin Valid
    BY <1>6 DEF Typed, Receive, Valid
  <2>2. msg'[e].n = msg[e].n + 1
    BY <1>6, DeliveredFacts DEF Typed, Receive
  <2> QED
    BY <1>1, <1>3, <2>1, <2>2 DEF HasSeen
<1>7. CASE Crash(v)
  <2>1. pc'[v] = "idle"
    BY <1>7 DEF Typed, Crash, ToIdle
  <2> QED
    BY <2>1 DEF HasSeen
<1>8. ASSUME NEW w \in Workers, w # v,
             Work(w) \/ Crash(w) \/ \E e \in Events : Receive(w, e)
      PROVE  HasSeen(v)'
  BY <1>4, <1>8, OthersStay
<1>9. CASE UNCHANGED <<pc, job, attempt, verdict>>
  BY <1>4, <1>9
<1> QED
  BY <1>5, <1>6, <1>7, <1>8, <1>9 DEF Next, Expire, Sweep, vars, locals

-----------------------------------------------------------------------------
(***************************************************************************)
(* The inductive invariant.                                                *)
(***************************************************************************)

\* Each step keeps the types.
LEMMA TypedStep ==
  ASSUME Typed, Keyed(contacts), Handled, [Next]_vars
  PROVE  Typed'
<1>1. /\ msg' \in [Events -> Msgs]
      /\ \A e \in Events : msg'[e].st = "queued" => msg'[e].n < MaxAttempts
  BY MsgFacts
<1>2. payload' \in Scenarios
  BY PayloadStays DEF Typed
<1>3. raw' \in [Events -> RawStates]
  BY RawFacts
<1>4. contacts' \in Seq(Contact) /\ DOMAIN contacts \subseteq DOMAIN contacts'
  BY ContactsFacts DEF Kept
<1>5. \A w \in Workers : link[w] \in {0} \cup DOMAIN contacts
  BY DEF Typed
<1>6. enriched' \in [Events -> {Nothing, 0} \cup DOMAIN contacts']
  <2>1. enriched' = [e \in Events |-> enriched'[e]]
    <3>1. ASSUME NEW w \in Workers, Work(w)
          PROVE  \/ UNCHANGED enriched
                 \/ enriched' = [enriched EXCEPT ![job[w]] = Inserted(@, link[w])]
      <4>1. CASE Insert(w)
        BY <4>1 DEF Insert
      <4>2. CASE ~Insert(w)
        BY <3>1, <4>2, FindFacts DEF Work, CheckStatus, Mark, UpsertUser, UpsertAnon, Upsert,
           FindOther, Merge, Match, Publish, MarkProcessed, MarkFailed, AnswerMessage, tables
      <4> QED
        BY <4>1, <4>2
    <3> QED
      BY <3>1 DEF Typed, Next, Receive, Crash, Expire, Sweep, tables, vars
  <2>2. \A e \in Events : enriched'[e] \in {Nothing, 0} \cup DOMAIN contacts'
    BY <1>4, <1>5, EnrichedFacts DEF Typed
  <2> QED
    BY <2>1, <2>2
<1>7. triggers' \subseteq [rule : Workflows, event : Events,
                           workflow : Workflows \cup {NoId}, contact : {0} \cup DOMAIN contacts']
  <2>1. triggers \subseteq [rule : Workflows, event : Events,
                            workflow : Workflows \cup {NoId}, contact : {0} \cup DOMAIN contacts']
    BY <1>4 DEF Typed
  <2>2. \A w \in Workers, wf \in Workflows : job[w] \in Events =>
           Trigger(wf, job[w], link[w]) \in
              [rule : Workflows, event : Events,
               workflow : Workflows \cup {NoId}, contact : {0} \cup DOMAIN contacts']
    BY <1>4, <1>5 DEF Trigger
  <2> QED
    BY <2>1, <2>2, TriggersFacts
<1>8. link' \in [Workers -> {0} \cup DOMAIN contacts']
  <2>1. \A w \in Workers : link'[w] \in {0} \cup DOMAIN contacts'
    BY LinksStep DEF LinksWell
  <2>2. link' = [w \in Workers |-> link'[w]]
    <3>1. ASSUME NEW w \in Workers, Work(w)
          PROVE  link' = link \/ \E i : link' = [link EXCEPT ![w] = i]
      BY <3>1 DEF Work, CheckStatus, Mark, FindUser, FindAnon, Find, Panic, UpsertUser, UpsertAnon,
         Upsert, FindOther, Merge, Insert, Match, Publish, MarkProcessed, MarkFailed,
         AnswerMessage, Linked, ToIdle
    <3> QED
      BY <3>1 DEF Typed, Next, Receive, Crash, Expire, Sweep, ToIdle, vars
  <2> QED
    BY <2>1, <2>2
<1>9. faults' \in 0 .. MaxFaults
  BY FaultsStep
<1>10. Held'
  BY HeldStep
<1> QED
  BY <1>1, <1>2, <1>3, <1>4, <1>6, <1>7, <1>8, <1>9, <1>10 DEF Typed, Held

\* An event is settled as what a worker has seen of it says.
LEMMA SettledStep ==
  ASSUME Typed, Seen, SettledIsJustified, [Next]_vars
  PROVE  SettledIsJustified'
<1> SUFFICES ASSUME NEW e \in Valid
             PROVE  /\ raw'[e] # "none" /\ (msg'[e].st = "acked" \/ raw'[e] = "processed")
                          => enriched'[e] # Nothing
                    /\ msg'[e].st = "termed" \/ raw'[e] = "failed" => msg'[e].n >= MaxAttempts
  <2>1. Valid' = Valid
    BY PayloadStays DEF Valid
  <2> QED
    BY <2>1 DEF SettledIsJustified
<1>1. e \in Events
  BY DEF Valid
<1>2. /\ raw[e] # "none" /\ (msg[e].st = "acked" \/ raw[e] = "processed") => enriched[e] # Nothing
      /\ msg[e].st = "termed" \/ raw[e] = "failed" => msg[e].n >= MaxAttempts
  BY DEF SettledIsJustified
<1>3. ASSUME raw'[e] # "none", msg'[e].st = "acked" \/ raw'[e] = "processed"
      PROVE  enriched'[e] # Nothing
  <2>1. raw[e] # "none"
    BY <1>1, <1>3, RawFacts
  <2>2. enriched[e] # Nothing
    <3>1. CASE msg[e].st = "acked" \/ raw[e] = "processed"
      BY <1>2, <2>1, <3>1
    <3>2. ASSUME NEW w \in Workers, job[w] = e,
                 pc[w] = "markProcessed" \/ (pc[w] = "answer" /\ verdict[w] = "ack")
          PROVE  enriched[e] # Nothing
      BY <3>2 DEF Seen, HasSeen
    <3> QED
      BY <1>1, <1>3, <3>1, <3>2, MsgFacts, RawFacts
  <2> QED
    BY <1>1, <1>3, <2>2, EnrichedFacts
<1>4. ASSUME msg'[e].st = "termed" \/ raw'[e] = "failed"
      PROVE  msg'[e].n >= MaxAttempts
  <2>1. msg'[e].n >= msg[e].n /\ msg[e].n \in Nat /\ msg'[e].n \in Nat
    BY <1>1, MsgFacts DEF Typed, Msgs
  <2>2. msg[e].n >= MaxAttempts
    <3>1. CASE msg[e].st = "termed" \/ raw[e] = "failed"
      BY <1>2, <3>1
    <3>2. ASSUME NEW w \in Workers, job[w] = e,
                 pc[w] = "markFailed" \/ (pc[w] = "answer" /\ verdict[w] = "term")
          PROVE  msg[e].n >= MaxAttempts
      <4>1. attempt[w] >= MaxAttempts /\ attempt[w] <= msg[e].n
        BY <3>2 DEF Seen, HasSeen
      <4>2. attempt[w] \in Nat
        BY EventLimitsAssumption DEF Typed
      <4> QED
        BY <2>1, <4>1, <4>2, EventLimitsAssumption
    <3> QED
      BY <1>1, <1>4, <3>1, <3>2, MsgFacts, RawFacts
  <2> QED
    BY <2>1, <2>2, EventLimitsAssumption
<1> QED
  BY <1>3, <1>4

\* A trigger is published under its event's enriched row, and the sweep takes
\* that row with the raw one only.
LEMMA BackedStep ==
  ASSUME Typed, Seen, TriggersAreBacked, [Next]_vars
  PROVE  TriggersAreBacked'
<1> SUFFICES ASSUME NEW t \in triggers'
             PROVE  raw'[t.event] = "none" \/ enriched'[t.event] # Nothing
  BY DEF TriggersAreBacked
<1>1. t.event \in Events /\ (raw[t.event] = "none" \/ enriched[t.event] # Nothing)
  <2>1. CASE t \in triggers
    BY <2>1 DEF Typed, TriggersAreBacked
  <2>2. CASE t \notin triggers
    <3>1. PICK w \in Workers, wf \in Workflows : /\ pc[w] = "publish" /\ job[w] \in Events
                                                 /\ t = Trigger(wf, job[w], link[w])
      BY <2>2, TriggersFacts
    <3> QED
      BY <3>1 DEF Trigger, Seen, HasSeen
  <2> QED
    BY <2>1, <2>2
<1> QED
  BY <1>1, RawFacts, EnrichedFacts

\* A link is put into the tables by a worker that holds it.
LEMMA LinkedStep ==
  ASSUME Typed, Keyed(contacts), Handled, LinkedToOwnUser, [Next]_vars
  PROVE  LinkedToOwnUser'
<1>1. Valid' = Valid /\ payload' = payload
  BY PayloadStays DEF Valid
<1> SUFFICES ASSUME NEW e \in Valid, payload[e].user # NoId,
                    NEW i \in DOMAIN contacts',
                    \/ enriched'[e] = i
                    \/ \E t \in triggers' : t.event = e /\ t.contact = i
             PROVE  contacts'[i].user = payload[e].user
  BY <1>1 DEF LinkedToOwnUser
<1>2. e \in Events
  BY DEF Valid
<1>3. i # 0 /\ i # Nothing
  <2>1. contacts' \in Seq(Contact)
    BY ContactsFacts
  <2>2. Len(contacts') \in Nat /\ DOMAIN contacts' = 1 .. Len(contacts')
    BY <2>1, LenProperties
  <2>3. i \in Nat /\ i # 0
    BY <2>2
  <2> QED
    BY <2>3, EventsAssumption
<1>4. i \in DOMAIN contacts /\ contacts[i].user = payload[e].user
  <2>1. CASE enriched[e] = i \/ \E t \in triggers : t.event = e /\ t.contact = i
    <3>1. i \in DOMAIN contacts
      BY <1>2, <1>3, <2>1 DEF Typed
    <3> QED
      BY <2>1, <3>1 DEF LinkedToOwnUser
  <2>2. ASSUME NEW w \in Workers, pc[w] \in {"insert", "publish"}, job[w] = e, link[w] = i
        PROVE  i \in DOMAIN contacts /\ contacts[i].user = payload[e].user
    BY <1>3, <2>2 DEF Typed, Handled, Handles
  <2>3. \/ enriched[e] = i
        \/ \E t \in triggers : t.event = e /\ t.contact = i
        \/ \E w \in Workers : pc[w] \in {"insert", "publish"} /\ job[w] = e /\ link[w] = i
    <3>1. CASE enriched'[e] = i
      BY <1>2, <1>3, <3>1, EnrichedFacts
    <3>2. CASE \E t \in triggers' : t.event = e /\ t.contact = i
      BY <3>2, TriggersFacts DEF Trigger
    <3> QED
      BY <3>1, <3>2
  <2> QED
    BY <2>1, <2>2, <2>3
<1> QED
  BY <1>4, ContactsFacts DEF Kept

\* The first state.
LEMMA InvInit == Init => Inv
<1> SUFFICES ASSUME Init PROVE Inv
  OBVIOUS
<1> USE EventLimitsAssumption
<1>1. contacts \in Seq(Contact) /\ DOMAIN contacts = {}
  BY DEF Init
<1>2. Typed
  BY <1>1 DEF Init, Typed, NewMsg, Msgs, MsgStates, RawStates, PCs, Verdicts
<1>3. Keyed(contacts)
  BY <1>1 DEF Keyed
<1>4. Handled /\ Seen
  BY DEF Init, Handled, Handles, Seen, HasSeen
<1>5. SettledIsJustified /\ LinkedToOwnUser /\ TriggersAreBacked
  BY <1>1 DEF Init, SettledIsJustified, LinkedToOwnUser, TriggersAreBacked, NewMsg, Valid
<1> QED
  BY <1>2, <1>3, <1>4, <1>5 DEF Inv

\* Each step keeps the inductive invariant.
LEMMA InvStep == Inv /\ [Next]_vars => Inv'
<1> SUFFICES ASSUME Inv, [Next]_vars PROVE Inv'
  OBVIOUS
<1>1. /\ Typed /\ Keyed(contacts) /\ Handled /\ Seen
      /\ SettledIsJustified /\ LinkedToOwnUser /\ TriggersAreBacked
  BY DEF Inv
<1>2. Typed' /\ Keyed(contacts)'
  BY <1>1, TypedStep, ContactsFacts
<1>3. Handled'
  BY <1>1, LinksStep DEF Handled, LinksWell
<1>4. Seen'
  BY <1>1, SeenStep
<1>5. SettledIsJustified' /\ LinkedToOwnUser' /\ TriggersAreBacked'
  BY <1>1, SettledStep, LinkedStep, BackedStep
<1> QED
  BY <1>2, <1>3, <1>4, <1>5 DEF Inv

\* The inductive invariant: the keys of contacts, the contact each worker is
\* linked to, and what each has seen when it answers (handler.go:75-204).
THEOREM Invariance == Spec => []Inv
BY InvInit, InvStep, PTL DEF Spec

\* The state is well-typed; contacts never holds more rows than one of each user
\* and, besides them, one of each anonymous id, however upserts and merges
\* interleave (client.go:615-653).
THEOREM TypeCorrect == Spec => []TypeOK
<1>1. Inv => TypeOK
  <2> SUFFICES ASSUME Inv PROVE TypeOK
    OBVIOUS
  <2>1. Typed /\ Keyed(contacts)
    BY DEF Inv
  <2>2. DOMAIN contacts \subseteq ContactIds
    BY <2>1, RowsAreBounded DEF Typed
  <2>3. \A i \in DOMAIN contacts : contacts[i] \in Contact
    BY <2>1, LenProperties DEF Typed
  <2> QED
    BY <2>1, <2>2, <2>3 DEF Typed, TypeOK, Contact
<1> QED
  BY <1>1, Invariance, PTL

\* What is said of an event is true: an Ack and 'processed' come after the
\* enriched event, a Term and 'failed' at the last delivery
\* (handler.go:139-204).
THEOREM AnswersAreJustified == Spec => []SettledIsJustified
<1>1. Inv => SettledIsJustified
  BY DEF Inv
<1> QED
  BY <1>1, Invariance, PTL

\* What a user did is linked to that user's contact, in the enriched event and
\* in the triggers, whatever other events do to the contacts meanwhile
\* (enricher.go:62-82, 121-142, 159-172).
THEOREM LinksAreTrue == Spec => []LinkedToOwnUser
<1>1. Inv => LinkedToOwnUser
  BY DEF Inv
<1> QED
  BY <1>1, Invariance, PTL

\* A workflow hears only of an event that is enriched (handler.go:166-172).
THEOREM TriggersFollowTheInsert == Spec => []TriggersAreBacked
<1>1. Inv => TriggersAreBacked
  BY DEF Inv
<1> QED
  BY <1>1, Invariance, PTL
=============================================================================
