--------------------------- MODULE TokenBucketProofs ---------------------------
(***************************************************************************)
(* What the token bucket promises while the callers' clocks agree and the  *)
(* script runs at the time it is given: types, and that the rate is kept,  *)
(* for any clients, rate, cost and capacity.                               *)
(*                                                                         *)
(* The argument is a potential: what an observer has seen granted and what *)
(* the bucket may hold now are together no more than a full bucket and     *)
(* what was refilled since.  A grant moves units from the second to the    *)
(* first, a tick adds Rate and the error of one refill at most to the      *)
(* second, and a forgotten bucket was full.                                *)
(***************************************************************************)
EXTENDS TokenBucket, TLAPS

\* Every clock is s ahead of real time, and calls reach Redis at once.
ClocksAgree(s) == s \in Nat /\ CallsLag = FALSE /\ \A c \in Clients : Skew[c] = s

\* A call under way carries the time of this moment.
CallsAreTimely(s) == \A c \in Clients : pc[c] = "call" => clock[c] = now + s

\* The bucket's clock is not ahead, and its key lives TTL from its last use.
BucketIsDated(s) == exists => ts \in s .. now + s /\ expires = ts - s + TTL

\* The most and the least the bucket holds at time t, whatever the error.
Most(t) == Refilled(t, Rounding)
Least(t) == Refilled(t, -Rounding)

\* The most the bucket holds now.
Held(s) == Most(now + s)

Potential(s) == granted * Cost + Held(s) <= Capacity + (Rate + Rounding) * (now - start)

IInv(s) == TypeOK /\ CallsAreTimely(s) /\ BucketIsDated(s) /\ Potential(s)

-----------------------------------------------------------------------------
(***************************************************************************)
(* Arithmetic                                                              *)
(***************************************************************************)
\* Multiplication as the steps below need it: it grows with its first factor.
LEMMA Products ==
    ASSUME NEW r \in Nat, NEW n \in Nat, NEW m \in Nat, n <= m
    PROVE  /\ n * r \in Nat
           /\ r * n \in Nat
           /\ (n + 1) * r = n * r + r
           /\ r * (n + 1) = r * n + r
           /\ n * r <= m * r
           /\ r * n = n * r
  OBVIOUS

\* What an interval can gain is a number.
LEMMA GainIsNat ==
    ASSUME now \in Nat, start \in 0 .. now
    PROVE  (Rate + Rounding) * (now - start) \in Nat
  <1>1. PICK n \in Nat, r \in Nat : n = now - start /\ r = Rate + Rounding
    BY BucketAssumption
  <1> QED
    BY <1>1, Products

\* What is refilled in the time since the last call (token_bucket.go:41-43).
LEMMA Elapsed ==
    ASSUME TypeOK, NEW t \in Nat, ts < t
    PROVE  /\ t - ts \in Nat /\ (t - ts) * Rate \in Nat
           /\ (t - ts) * Rate >= Rate
  <1>1. PICK e \in Nat : e = t - ts /\ 1 <= e
    BY DEF TypeOK
  <1>2. e * Rate \in Nat /\ 1 * Rate <= e * Rate
    BY <1>1, BucketAssumption, Products
  <1> QED
    BY <1>1, <1>2, BucketAssumption

\* The refilled bucket holds between nothing and its capacity, and the larger the
\* error, the more (token_bucket.go:38-43).
LEMMA RefilledBounds ==
    ASSUME TypeOK, NEW t \in Nat, NEW err \in Errors
    PROVE  /\ Refilled(t, err) \in 0 .. Capacity
           /\ Most(t) \in 0 .. Capacity /\ Least(t) \in 0 .. Capacity
           /\ Least(t) <= Refilled(t, err) /\ Refilled(t, err) <= Most(t)
  <1>1. CASE exists /\ ts < t
    <2>1. PICK x \in Nat : x = (t - ts) * Rate /\ x >= Rate
      BY <1>1, Elapsed
    <2>2. ASSUME NEW e \in Int
          PROVE  Refilled(t, e) = MinOf(Capacity, tokens + x + e)
      BY <1>1, <2>1 DEF TypeOK, Refilled
    <2>3. err \in Int /\ -Rounding <= err /\ err <= Rounding
      BY BucketAssumption DEF Errors
    <2>4. /\ Refilled(t, err) = MinOf(Capacity, tokens + x + err)
          /\ Most(t) = MinOf(Capacity, tokens + x + Rounding)
          /\ Least(t) = MinOf(Capacity, tokens + x + (-Rounding))
      BY <2>2, <2>3, BucketAssumption DEF Most, Least
    <2> QED
      BY <2>1, <2>3, <2>4, BucketAssumption DEF TypeOK, MinOf
  <1>2. CASE ~(exists /\ ts < t)
    BY <1>2, BucketAssumption DEF TypeOK, Refilled, Most, Least
  <1> QED
    BY <1>1, <1>2

\* A bucket that is written now holds what was written.
LEMMA HeldIsStored ==
    ASSUME TypeOK, NEW s \in Nat, NEW left \in 0 .. Capacity, Store(left, now + s), now' = now
    PROVE  /\ Held(s)' = left
           /\ BucketIsDated(s)'
           /\ tokens' \in 0 .. Capacity /\ ts' \in Nat /\ expires' \in Nat /\ exists' = TRUE
  <1>1. now \in Nat /\ exists' = TRUE /\ tokens' = left /\ ts' = now + s /\ expires' = now + TTL
    BY DEF TypeOK, Store
  <1>2. Held(s)' = left
    BY <1>1 DEF Held, Most, Refilled
  <1>3. BucketIsDated(s)'
    BY <1>1, BucketAssumption DEF BucketIsDated
  <1> QED
    BY <1>1, <1>2, <1>3, BucketAssumption

\* A key Redis forgets is that of a bucket that was full again
\* (token_bucket.go:47, 54: EXPIRE).
LEMMA ForgottenWasFull ==
    ASSUME TypeOK, NEW s \in Nat, BucketIsDated(s), exists, now >= expires
    PROVE  Held(s) = Capacity
  <1>1. TTL \in Nat /\ now + s - ts \in Nat /\ TTL <= now + s - ts
    BY BucketAssumption DEF TypeOK, BucketIsDated
  <1>2. PICK x \in Nat : x = (now + s - ts) * Rate /\ Capacity <= x
    BY <1>1, BucketAssumption, Products
  <1>3. CASE ts < now + s
    <2>1. Held(s) = MinOf(Capacity, tokens + x + Rounding)
      BY <1>2, <1>3 DEF TypeOK, Held, Most, Refilled
    <2> QED
      BY <1>2, <2>1, BucketAssumption DEF TypeOK, MinOf
  <1>4. CASE ~(ts < now + s)
    <2>1. now + s - ts = 0
      BY <1>1, <1>4 DEF TypeOK
    <2>2. Capacity = 0
      BY <1>2, <2>1, BucketAssumption
    <2>3. Held(s) = tokens
      BY <1>4 DEF TypeOK, Held, Most, Refilled
    <2> QED
      BY <2>2, <2>3 DEF TypeOK
  <1> QED
    BY <1>3, <1>4

\* A tick adds what it refills and one error at most: that of the refill it makes
\* possible.
LEMMA TickRefills ==
    ASSUME TypeOK, NEW s \in Nat, BucketIsDated(s), now' = now + 1, UNCHANGED bucket
    PROVE  /\ Held(s)' <= Held(s) + Rate + Rounding
           /\ Held(s)' \in 0 .. Capacity
  <1> USE BucketAssumption
  <1>0. exists' = exists /\ tokens' = tokens /\ ts' = ts
    BY DEF bucket
  <1>1. CASE exists
    <2>1. PICK age \in Nat : age = now + s - ts /\ now' + s - ts' = age + 1
      BY <1>0, <1>1 DEF TypeOK, BucketIsDated
    <2>2. age * Rate \in Nat /\ (age + 1) * Rate = age * Rate + Rate
      BY <2>1, Products
    <2>3. Held(s)' = MinOf(Capacity, tokens + (age + 1) * Rate + Rounding)
      BY <1>0, <1>1, <2>1 DEF TypeOK, Held, Most, Refilled
    <2>4. CASE age = 0
      <3>1. Held(s) = tokens
        BY <1>1, <2>1, <2>4 DEF TypeOK, Held, Most, Refilled
      <3>2. age * Rate = 0
        BY <2>4
      <3> QED
        BY <2>2, <2>3, <3>1, <3>2 DEF TypeOK, MinOf
    <2>5. CASE age # 0
      <3>1. Held(s) = MinOf(Capacity, tokens + age * Rate + Rounding)
        BY <1>1, <2>1, <2>5 DEF TypeOK, Held, Most, Refilled
      <3> QED
        BY <2>2, <2>3, <3>1 DEF TypeOK, MinOf
    <2> QED
      BY <2>4, <2>5
  <1>2. CASE ~exists
    BY <1>0, <1>2 DEF Held, Most, Refilled
  <1> QED
    BY <1>1, <1>2

-----------------------------------------------------------------------------
(***************************************************************************)
(* Types and the potential are preserved, action by action.                *)
(***************************************************************************)
\* There is no bucket at first, which counts as a full one.
LEMMA InvInit ==
    ASSUME NEW s, ClocksAgree(s), Init
    PROVE  IInv(s)
  <1>1. TypeOK
    <2>1. now \in Nat /\ tokens \in 0 .. Capacity /\ ts \in Nat /\ expires \in Nat
      BY BucketAssumption DEF Init
    <2>2. exists \in BOOLEAN
      BY DEF Init
    <2>3. /\ pc \in [Clients -> {"idle", "ask", "call", "sleep"}]
          /\ clock \in [Clients -> Nat] /\ deadline \in [Clients -> Nat]
          /\ wake \in [Clients -> Nat] /\ waits \in [Clients -> Nat]
      BY DEF Init
    <2>4. start \in 0 .. now /\ granted \in Nat
      BY DEF Init
    <2> QED
      BY <2>1, <2>2, <2>3, <2>4 DEF TypeOK
  <1>2. CallsAreTimely(s) /\ BucketIsDated(s)
    BY DEF Init, CallsAreTimely, BucketIsDated
  <1>3. Held(s) = Capacity
    BY DEF Init, Held, Most, Refilled
  <1>4. Potential(s)
    BY <1>3, BucketAssumption DEF Init, Potential
  <1> QED
    BY <1>1, <1>2, <1>4 DEF IInv

\* What is held now is between nothing and the capacity.
LEMMA HeldBounds ==
    ASSUME TypeOK, NEW s \in Nat
    PROVE  Held(s) \in 0 .. Capacity
  <1>1. PICK t \in Nat : t = now + s
    BY DEF TypeOK
  <1>2. Rounding \in Errors
    BY BucketAssumption DEF Errors
  <1> QED
    BY <1>1, <1>2, RefilledBounds DEF Held

\* A denied call stores what the bucket holds, and its client returns or sleeps.
LEMMA DenyTaken ==
    ASSUME TypeOK, NEW s \in Nat, CallsAreTimely(s), NEW c \in Clients, Deny(c)
    PROVE  \E have \in 0 .. Capacity, wait \in Nat :
             /\ have <= Held(s) /\ Least(now + s) <= have /\ have < Cost
             /\ Store(have, now + s)
             /\ \E off \in Errors : wait >= Wait(have, off) /\ (Wait(have, off) = 1 => wait = 1)
             /\ wait >= 1
             /\ \/ Return(c)
                \/ /\ pc' = [pc EXCEPT ![c] = "sleep"]
                   /\ wake' = [wake EXCEPT ![c] = now + wait]
                   /\ waits' = [waits EXCEPT ![c] = @ + 1]
                   /\ UNCHANGED <<clock, deadline>>
  <1>1. clock[c] = now + s /\ now + s \in Nat
    BY DEF Deny, CallsAreTimely, TypeOK
  <1> DEFINE Waited(have, off) ==
               LET named == Wait(have, off)
                   wait  == IF named <= 0 THEN 1 ELSE named
               IN  IF now + wait > deadline[c]
                   THEN Return(c)
                   ELSE /\ pc' = [pc EXCEPT ![c] = "sleep"]
                        /\ wake' = [wake EXCEPT ![c] = now + wait]
                        /\ waits' = [waits EXCEPT ![c] = @ + 1]
                        /\ UNCHANGED <<clock, deadline>>
  <1>2. PICK err \in Errors, off \in Errors :
             /\ Refilled(now + s, err) < Cost
             /\ Store(Refilled(now + s, err), now + s)
             /\ Waited(Refilled(now + s, err), off)
    BY <1>1 DEF Deny
  <1>3. PICK have \in 0 .. Capacity :
             /\ have <= Held(s) /\ Least(now + s) <= have /\ have < Cost
             /\ Store(have, now + s)
             /\ Waited(have, off)
    BY <1>1, <1>2, RefilledBounds DEF Held
  <1>4. PICK named \in Int : named = Wait(have, off)
    BY BucketAssumption DEF Wait, AtLeast, Errors
  <1>5. PICK wait \in Nat : wait = IF named <= 0 THEN 1 ELSE named
    BY <1>4
  <1>6. wait >= named /\ wait >= 1 /\ (named = 1 => wait = 1)
    BY <1>4, <1>5
  <1>7. \/ Return(c)
        \/ /\ pc' = [pc EXCEPT ![c] = "sleep"]
           /\ wake' = [wake EXCEPT ![c] = now + wait]
           /\ waits' = [waits EXCEPT ![c] = @ + 1]
           /\ UNCHANGED <<clock, deadline>>
    BY <1>3, <1>4, <1>5
  <1> QED
    BY <1>3, <1>4, <1>6, <1>7

\* Actions that leave bucket, time and observer alone keep the potential.
LEMMA PotentialUnmoved ==
    ASSUME NEW s \in Nat, Potential(s), BucketIsDated(s), UNCHANGED <<now, bucket, observer>>
    PROVE  Potential(s)' /\ BucketIsDated(s)'
  BY DEF Potential, BucketIsDated, Held, Most, Refilled, bucket, observer

\* Every step keeps the invariant, action by action.
LEMMA InvNext ==
    ASSUME NEW s, ClocksAgree(s), IInv(s), [Next]_vars
    PROVE  IInv(s)'
  <1> s \in Nat /\ CallsLag = FALSE /\ \A c \in Clients : Skew[c] = s
    BY DEF ClocksAgree
  <1> TypeOK /\ CallsAreTimely(s) /\ BucketIsDated(s) /\ Potential(s)
    BY DEF IInv
  <1> USE BucketAssumption
  <1>1. ASSUME NEW c \in Clients, Begin(c)
        PROVE  IInv(s)'
    <2>1. TypeOK' /\ CallsAreTimely(s)'
      BY <1>1 DEF Begin, TypeOK, CallsAreTimely, bucket, observer
    <2> QED
      BY <1>1, <2>1, PotentialUnmoved DEF Begin, IInv
  <1>2. ASSUME NEW c \in Clients, ReadClock(c)
        PROVE  IInv(s)'
    <2>1. clock' = [clock EXCEPT ![c] = now + s]
      BY <1>2 DEF ReadClock
    <2>2. TypeOK' /\ CallsAreTimely(s)'
      BY <1>2, <2>1 DEF ReadClock, TypeOK, CallsAreTimely, bucket, observer
    <2> QED
      BY <1>2, <2>2, PotentialUnmoved DEF ReadClock, IInv
  <1>3. ASSUME NEW c \in Clients, Grant(c)
        PROVE  IInv(s)'
    <2>1. clock[c] = now + s /\ now \in Nat /\ now' = now
      BY <1>3 DEF Grant, CallsAreTimely, TypeOK
    <2>2. PICK err \in Errors : /\ Refilled(now + s, err) >= Cost
                               /\ Store(Refilled(now + s, err) - Cost, now + s)
      BY <1>3, <2>1 DEF Grant
    <2>3. PICK have \in 0 .. Capacity :
             have <= Held(s) /\ have >= Cost /\ Store(have - Cost, now + s)
      BY <2>1, <2>2, RefilledBounds DEF Held
    <2>4. /\ Held(s)' = have - Cost /\ BucketIsDated(s)'
          /\ tokens' \in 0 .. Capacity /\ ts' \in Nat /\ expires' \in Nat /\ exists' = TRUE
      <3>1. have - Cost \in 0 .. Capacity
        BY <2>3
      <3> QED
        BY <2>1, <2>3, <3>1, HeldIsStored
    <2>5. Held(s) \in 0 .. Capacity
      BY <2>1, <2>2, RefilledBounds DEF Held
    <2>6. granted' = granted + 1 /\ start' = start /\ granted \in Nat /\ start \in 0 .. now
      BY <1>3 DEF Grant, TypeOK
    <2>7. granted' * Cost = granted * Cost + Cost /\ granted * Cost \in Nat
      BY <2>6, Products
    <2>8. (Rate + Rounding) * (now - start) \in Nat
      BY <2>1, <2>6, GainIsNat
    <2>9. Potential(s)'
      BY <2>1, <2>3, <2>6, <2>7, <2>8, <2>4, <2>5 DEF Potential
    <2>10. TypeOK' /\ CallsAreTimely(s)'
      BY <1>3, <2>1, <2>6, <2>4 DEF Grant, Return, TypeOK, CallsAreTimely
    <2> QED
      BY <2>9, <2>10, <2>4 DEF IInv
  <1>4. ASSUME NEW c \in Clients, Deny(c)
        PROVE  IInv(s)'
    <2>1. clock[c] = now + s /\ now \in Nat /\ now' = now
      BY <1>4 DEF Deny, CallsAreTimely, TypeOK
    <2>2. PICK have \in 0 .. Capacity, wait \in Nat :
             /\ have <= Held(s) /\ Store(have, now + s)
             /\ \/ Return(c)
                \/ /\ pc' = [pc EXCEPT ![c] = "sleep"]
                   /\ wake' = [wake EXCEPT ![c] = now + wait]
                   /\ waits' = [waits EXCEPT ![c] = @ + 1]
                   /\ UNCHANGED <<clock, deadline>>
      BY <1>4, DenyTaken
    <2>3. /\ Held(s)' = have /\ BucketIsDated(s)'
          /\ tokens' \in 0 .. Capacity /\ ts' \in Nat /\ expires' \in Nat /\ exists' = TRUE
      BY <2>1, <2>2, HeldIsStored
    <2>4. Potential(s)'
      <3>1. granted' = granted /\ start' = start
        BY <1>4 DEF Deny, observer
      <3>2. granted * Cost \in Nat /\ (Rate + Rounding) * (now - start) \in Nat
        BY Products, GainIsNat DEF TypeOK
      <3>3. Held(s) \in 0 .. Capacity
        BY <2>1, HeldBounds
      <3> QED
        BY <2>1, <2>2, <2>3, <3>1, <3>2, <3>3 DEF Potential
    <2>5. CallsAreTimely(s)'
      BY <2>1, <2>2 DEF Return, CallsAreTimely, TypeOK
    <2>6. TypeOK'
      <3>1. UNCHANGED <<now, start, granted>>
        BY <1>4 DEF Deny, observer
      <3>2. CASE Return(c)
        BY <2>3, <3>1, <3>2 DEF Return, TypeOK
      <3>3. CASE ~Return(c)
        BY <2>1, <2>2, <2>3, <3>1, <3>3 DEF TypeOK
      <3> QED
        BY <3>2, <3>3
    <2> QED
      BY <2>3, <2>4, <2>5, <2>6 DEF IInv
  <1>5. ASSUME NEW c \in Clients, Wake(c)
        PROVE  IInv(s)'
    <2>1. TypeOK' /\ CallsAreTimely(s)'
      BY <1>5 DEF Wake, TypeOK, CallsAreTimely, bucket, observer
    <2> QED
      BY <1>5, <2>1, PotentialUnmoved DEF Wake, IInv
  <1>6. ASSUME NEW c \in Clients, Fail(c)
        PROVE  IInv(s)'
    <2>1. CASE UNCHANGED bucket
      <3>1. TypeOK' /\ CallsAreTimely(s)'
        BY <1>6, <2>1 DEF Fail, Return, TypeOK, CallsAreTimely, bucket, observer
      <3> QED
        BY <1>6, <2>1, <3>1, PotentialUnmoved DEF Fail, IInv
    <2>2. CASE ~UNCHANGED bucket
      <3>1. clock[c] = now + s /\ now \in Nat /\ now' = now /\ start' = start /\ granted' = granted
        BY <1>6, <2>2 DEF Fail, CallsAreTimely, TypeOK, observer
      <3>2. PICK err \in Errors : LET have == Refilled(now + s, err)
                                IN  Store(IF have >= Cost THEN have - Cost ELSE have, now + s)
        BY <1>6, <2>2, <3>1 DEF Fail
      <3>3. PICK left \in 0 .. Capacity : left <= Held(s) /\ Store(left, now + s)
        BY <3>1, <3>2, RefilledBounds DEF Held
      <3>4. /\ Held(s)' = left /\ BucketIsDated(s)'
            /\ tokens' \in 0 .. Capacity /\ ts' \in Nat /\ expires' \in Nat /\ exists' = TRUE
        BY <3>1, <3>3, HeldIsStored
      <3>5. Held(s) \in 0 .. Capacity
        BY HeldBounds
      <3>6. granted * Cost \in Nat /\ (Rate + Rounding) * (now - start) \in Nat
        BY Products, GainIsNat DEF TypeOK
      <3>7. Potential(s)'
        BY <3>1, <3>3, <3>4, <3>6, <3>5 DEF Potential
      <3>8. TypeOK' /\ CallsAreTimely(s)'
        BY <1>6, <3>1, <3>4 DEF Fail, Return, TypeOK, CallsAreTimely
      <3> QED
        BY <3>4, <3>7, <3>8 DEF IInv
    <2> QED
      BY <2>1, <2>2
  <1>7. CASE Tick
    <2>1. now' = now + 1 /\ now \in Nat /\ start' = start /\ granted' = granted /\ UNCHANGED bucket
      BY <1>7 DEF Tick, TypeOK, observer
    <2>2. start \in 0 .. now /\ granted * Cost \in Nat /\ now - start \in Nat
      BY Products DEF TypeOK
    <2>3. PICK n \in Nat, r \in Nat : n = now - start /\ now' - start' = n + 1 /\ r = Rate + Rounding
      BY <2>1, <2>2
    <2>4. r * (n + 1) = r * n + r /\ r * n \in Nat
      BY <2>3, Products
    <2>5. Held(s)' <= Held(s) + r /\ Held(s) \in 0 .. Capacity /\ Held(s)' \in 0 .. Capacity
      BY <2>1, <2>3, HeldBounds, TickRefills
    <2>6. Potential(s)'
      BY <2>1, <2>2, <2>3, <2>4, <2>5 DEF Potential
    <2>7. TypeOK' /\ CallsAreTimely(s)' /\ BucketIsDated(s)'
      BY <1>7 DEF Tick, TypeOK, CallsAreTimely, BucketIsDated, bucket, observer
    <2> QED
      BY <2>6, <2>7 DEF IInv
  <1>8. CASE Forget
    <2>1. Held(s) = Capacity
      BY <1>8, ForgottenWasFull DEF Forget
    <2>2. Held(s)' = Capacity
      BY <1>8 DEF Forget, Held, Most, Refilled
    <2>3. Potential(s)'
      BY <1>8, <2>1, <2>2 DEF Forget, Potential, observer
    <2>4. exists' = FALSE /\ tokens' = 0 /\ ts' = 0 /\ expires' = 0
      BY <1>8 DEF Forget
    <2>5. UNCHANGED <<now, pc, clock, deadline, wake, waits, start, granted>>
      BY <1>8 DEF Forget, observer
    <2>6. TypeOK'
      <3>1. exists' \in BOOLEAN
        BY <2>4
      <3>2. tokens' \in 0 .. Capacity
        BY <2>4
      <3> QED
        BY <2>4, <2>5, <3>1, <3>2 DEF TypeOK
    <2>7. CallsAreTimely(s)' /\ BucketIsDated(s)'
      BY <2>4, <2>5 DEF CallsAreTimely, BucketIsDated
    <2> QED
      BY <2>3, <2>6, <2>7 DEF IInv
  <1>9. CASE Observe
    <2>1. Held(s) \in 0 .. Capacity
      BY HeldBounds
    <2>2. Held(s)' = Held(s) /\ now' = now /\ start' = now /\ granted' = 0 /\ now \in Nat
      BY <1>9 DEF Observe, Held, Most, Refilled, bucket, TypeOK
    <2>3. Potential(s)'
      BY <2>1, <2>2 DEF Potential
    <2>4. TypeOK' /\ CallsAreTimely(s)' /\ BucketIsDated(s)'
      BY <1>9 DEF Observe, TypeOK, CallsAreTimely, BucketIsDated, bucket
    <2> QED
      BY <2>3, <2>4 DEF IInv
  <1>10. CASE UNCHANGED vars
    <2>1. TypeOK' /\ CallsAreTimely(s)'
      BY <1>10 DEF vars, TypeOK, CallsAreTimely, bucket, observer
    <2> QED
      BY <1>10, <2>1, PotentialUnmoved DEF vars, IInv, bucket, observer
  <1> QED
    BY <1>1, <1>2, <1>3, <1>4, <1>5, <1>6, <1>7, <1>8, <1>9, <1>10 DEF Next

\* What was granted is bounded because what is held is not negative.
LEMMA InvImplies ==
    ASSUME NEW s \in Nat, IInv(s)
    PROVE  RateIsKept
  <1>1. Held(s) \in 0 .. Capacity
    BY HeldBounds DEF IInv
  <1>2. granted * Cost \in Nat
    BY BucketAssumption, Products DEF IInv, TypeOK
  <1>3. (Rate + Rounding) * (now - start) \in Nat
    BY GainIsNat DEF IInv, TypeOK
  <1> QED
    BY <1>1, <1>2, <1>3, BucketAssumption DEF IInv, Potential, RateIsKept

-----------------------------------------------------------------------------
(***************************************************************************)
(* The theorem                                                             *)
(***************************************************************************)

\* In any interval the clients are granted no more than a full bucket and what
\* the interval refills, for any clients, rate, cost and capacity, as long as
\* their clocks agree and the script runs at the time it is given
\* (token_bucket.go:26-56).
THEOREM RateKept ==
    ASSUME NEW s, ClocksAgree(s)
    PROVE  Spec => []RateIsKept
  <1>1. Init => IInv(s)
    BY InvInit
  <1>2. IInv(s) /\ [Next]_vars => IInv(s)'
    BY InvNext
  <1>3. IInv(s) => RateIsKept
    BY InvImplies DEF ClocksAgree
  <1> QED
    BY <1>1, <1>2, <1>3, PTL DEF Spec

\* Under the same assumptions the fields of the bucket stay what the script can
\* store, and the callers' clocks and waits numbers (token_bucket.go:38-55).
THEOREM TypeCorrect ==
    ASSUME NEW s, ClocksAgree(s)
    PROVE  Spec => []TypeOK
  <1>1. Init => IInv(s)
    BY InvInit
  <1>2. IInv(s) /\ [Next]_vars => IInv(s)'
    BY InvNext
  <1>3. IInv(s) => TypeOK
    BY DEF IInv
  <1> QED
    BY <1>1, <1>2, <1>3, PTL DEF Spec
-----------------------------------------------------------------------------
(***************************************************************************)
(* A client alone with its bucket waits twice at most.  While it sleeps    *)
(* nobody takes from the bucket.  The first wait leaves it short of two    *)
(* errors at most, that of the wait and that of the refill; then the       *)
(* second is a tick, which refills more than three.                        *)
(***************************************************************************)

\* NewTokenBucket makes the bucket hold a second's rate, at least a token
\* (token_bucket.go:72-80).
BucketHoldsAToken == Cost <= Capacity

\* What the bucket holds at least after the k-th wait.
Due(k) == IF k = 1 THEN Cost - 2 * Rounding ELSE Cost

\* A client that was denied finds what it is due when it asks again.
WaitIsEnough(s) ==
    \A c \in Clients :
       /\ waits[c] \in 0 .. 2
       /\ pc[c] = "idle" => waits[c] = 0
       /\ pc[c] \in {"ask", "call"} /\ waits[c] # 0 => Least(now + s) >= Due(waits[c])
       /\ pc[c] = "sleep" => waits[c] # 0 /\ Least(wake[c] + s) >= Due(waits[c])
       /\ waits[c] = 2 => wake[c] <= now + 1

\* Rounded up, a quotient times its divisor is no less than the dividend, and it
\* is one for a dividend up to the divisor.
LEMMA RoundedUp ==
    ASSUME NEW x \in Nat, NEW r \in Nat \ {0}
    PROVE  /\ (x + r - 1) \div r \in Nat
           /\ ((x + r - 1) \div r) * r >= x
           /\ 1 <= x /\ x <= r => (x + r - 1) \div r = 1
  <1> DEFINE y == x + r - 1
             q == y \div r
  <1>1. y \in Nat
    OBVIOUS
  <1>2. ASSUME NEW n \in Nat
        PROVE  n \div r \in Nat /\ n < r * (n \div r) + r /\ r * (n \div r) <= n
    <2>1. n \div r \in Int
      OBVIOUS
    <2>2. n < r * (n \div r) + r /\ r * (n \div r) <= n
      OBVIOUS
    <2>3. n \div r >= 0
      OBVIOUS
    <2> QED
      BY <2>1, <2>2, <2>3
  <1>3. q \in Nat /\ y < r * q + r /\ r * q <= y
    BY <1>1, <1>2
  <1> HIDE DEF q
  <1>4. q * r = r * q /\ r * q \in Nat
    BY <1>3, Products
  <1>5. q \in Nat /\ q * r >= x
    BY <1>3, <1>4
  <1>6. ASSUME 1 <= x, x <= r PROVE q = 1
    <2>1. q # 0
      <3>1. q = 0 => r * q = 0
        OBVIOUS
      <3> QED
        BY <1>3, <1>6, <3>1
    <2>2. ~(2 <= q)
      <3>1. 2 <= q => r * 2 <= r * q
        BY <1>3, Products
      <3> QED
        BY <1>3, <1>6, <3>1
    <2> QED
      BY <1>3, <2>1, <2>2
  <1> QED
    BY <1>5, <1>6 DEF q

\* Clocks that are equally ahead keep the order of the times they are read.
LEMMA SameAhead ==
    ASSUME NEW n \in Nat, NEW m \in Nat, NEW k \in Nat, n <= m
    PROVE  n + k \in Nat /\ m + k \in Nat /\ n + k <= m + k
  OBVIOUS

\* What a bucket holds at least is a number between nothing and its capacity.
LEMMA LeastBounds ==
    ASSUME TypeOK, NEW t \in Nat
    PROVE  Least(t) \in 0 .. Capacity
  <1>1. Rounding \in Errors
    BY BucketAssumption DEF Errors
  <1> QED
    BY <1>1, RefilledBounds

\* The longer a bucket is left alone, the more it holds.
LEMMA LeastGrows ==
    ASSUME TypeOK, NEW t \in Nat, NEW u \in Nat, t <= u
    PROVE  Least(t) <= Least(u)
  <1> USE BucketAssumption
  <1>1. CASE exists /\ ts < u
    <2>1. PICK x \in Nat : x = (u - ts) * Rate /\ x >= Rate
      BY <1>1, Elapsed
    <2>2. Least(u) = MinOf(Capacity, tokens + x + (-Rounding))
      BY <1>1, <2>1 DEF TypeOK, Least, Refilled
    <2>3. CASE ts < t
      <3>1. PICK y \in Nat : y = (t - ts) * Rate
        BY <2>3, Elapsed
      <3>2. Least(t) = MinOf(Capacity, tokens + y + (-Rounding))
        BY <1>1, <2>3, <3>1 DEF TypeOK, Least, Refilled
      <3>3. y <= x
        <4>1. PICK a \in Nat, b \in Nat : a = t - ts /\ b = u - ts /\ a <= b
          BY <2>3 DEF TypeOK
        <4> QED
          BY <2>1, <3>1, <4>1, Products
      <3> QED
        BY <2>1, <2>2, <3>1, <3>2, <3>3 DEF TypeOK, MinOf
    <2>4. CASE ~(ts < t)
      <3>1. Least(t) = tokens
        BY <1>1, <2>4 DEF TypeOK, Least, Refilled
      <3> QED
        BY <2>1, <2>2, <3>1 DEF TypeOK, MinOf
    <2> QED
      BY <2>3, <2>4
  <1>2. CASE ~(exists /\ ts < u)
    <2>1. ~exists \/ ~(ts < t)
      BY <1>2 DEF TypeOK
    <2> QED
      BY <1>2, <2>1 DEF TypeOK, Least, Refilled
  <1> QED
    BY <1>1, <1>2

\* In the wait that a denied client is told, what it lacked is refilled, but for
\* two errors; and what is short of two errors is refilled in a tick.
LEMMA WaitRefills ==
    ASSUME NEW left \in Nat, left < Cost, BucketHoldsAToken,
           NEW t \in Nat, exists' = TRUE, tokens' = left, ts' = t,
           NEW wait \in Nat, wait >= 1,
           NEW off \in Errors, wait >= Wait(left, off), Wait(left, off) = 1 => wait = 1
    PROVE  /\ Least(t + wait)' >= Due(1)
           /\ left >= Due(1) => wait = 1 /\ Least(t + wait)' >= Cost
  <1> USE BucketAssumption
  <1>0. off \in Int /\ -Rounding <= off /\ off <= Rounding
    BY DEF Errors
  <1>1. PICK x \in Nat : x = AtLeast(1, Cost - left + off)
    <2>1. Cost - left + off \in Int
      BY <1>0
    <2>2. AtLeast(1, Cost - left + off) \in Nat
      BY <2>1 DEF AtLeast
    <2> QED
      BY <2>2
  <1>2. x >= 1 /\ x >= Cost - left - Rounding /\ (left >= Due(1) => x <= Rate)
    BY <1>0, <1>1 DEF AtLeast, Due
  <1>3. PICK named \in Nat : named = Wait(left, off) /\ named * Rate >= x /\ (x <= Rate => named = 1)
    BY <1>1, <1>2, RoundedUp DEF Wait
  <1>4. PICK y \in Nat : y = wait * Rate /\ y >= x /\ y >= Rate
    <2>1. wait * Rate \in Nat /\ named * Rate \in Nat /\ named * Rate <= wait * Rate
      BY <1>3, Products
    <2>2. 1 * Rate <= wait * Rate
      BY Products
    <2> QED
      BY <1>3, <2>1, <2>2
  <1>5. Least(t + wait)' = MinOf(Capacity, left + y + (-Rounding))
    <2>1. t + wait - ts' = wait /\ ~(t + wait <= ts')
      OBVIOUS
    <2> QED
      BY <1>4, <2>1 DEF Least, Refilled
  <1>6. Least(t + wait)' >= Due(1)
    BY <1>2, <1>4, <1>5 DEF MinOf, Due, BucketHoldsAToken
  <1>7. ASSUME left >= Due(1) PROVE wait = 1 /\ Least(t + wait)' >= Cost
    <2>1. wait = 1
      BY <1>2, <1>3, <1>7
    <2>2. Least(t + wait)' >= Cost
      BY <1>4, <1>5, <1>7 DEF MinOf, Due, BucketHoldsAToken
    <2> QED
      BY <2>1, <2>2
  <1> QED
    BY <1>6, <1>7

\* A bucket nobody writes to, or that Redis forgets, holds as much at any time.
LEMMA LeftAlone ==
    ASSUME TypeOK, NEW t \in Nat, UNCHANGED bucket \/ Forget
    PROVE  Least(t)' >= Least(t)
  <1>1. Least(t) \in 0 .. Capacity
    BY LeastBounds
  <1>2. CASE UNCHANGED bucket
    <2>1. Least(t)' = Least(t)
      BY <1>2 DEF bucket, Least, Refilled
    <2> QED
      BY <1>1, <2>1, BucketAssumption
  <1>3. CASE Forget
    <2>1. Least(t)' = Capacity
      BY <1>3 DEF Forget, Least, Refilled
    <2> QED
      BY <1>1, <2>1, BucketAssumption
  <1> QED
    BY <1>2, <1>3

\* Each step of a client alone keeps the wait enough.
LEMMA WaitIsEnoughNext ==
    ASSUME NEW s, ClocksAgree(s), IInv(s), NEW c, Clients = {c}, BucketHoldsAToken,
           WaitIsEnough(s), [Next]_vars
    PROVE  WaitIsEnough(s)'
  <1> USE BucketAssumption
  <1> s \in Nat
    BY DEF ClocksAgree
  <1> TypeOK /\ CallsAreTimely(s) /\ c \in Clients /\ now \in Nat /\ wake[c] \in Nat
    BY DEF IInv, TypeOK
  <1> SUFFICES /\ waits'[c] \in 0 .. 2
               /\ pc'[c] = "idle" => waits'[c] = 0
               /\ pc'[c] \in {"ask", "call"} /\ waits'[c] # 0 => Least(now + s)' >= Due(waits'[c])
               /\ pc'[c] = "sleep" => waits'[c] # 0 /\ Least(wake[c] + s)' >= Due(waits'[c])
               /\ waits'[c] = 2 => wake'[c] <= now' + 1
    BY DEF WaitIsEnough, Due
  <1>0. /\ waits[c] \in 0 .. 2
        /\ pc[c] = "idle" => waits[c] = 0
        /\ pc[c] \in {"ask", "call"} /\ waits[c] # 0 => Least(now + s) >= Due(waits[c])
        /\ pc[c] = "sleep" => waits[c] # 0 /\ Least(wake[c] + s) >= Due(waits[c])
        /\ waits[c] = 2 => wake[c] <= now + 1
    BY DEF WaitIsEnough
  <1>1. CASE Begin(c)
    BY <1>0, <1>1 DEF Begin, TypeOK
  <1>2. CASE ReadClock(c)
    <2>1. Least(now + s)' = Least(now + s)
      BY <1>2 DEF ReadClock, Least, Refilled, bucket
    <2> QED
      BY <1>0, <1>2, <2>1 DEF ReadClock, TypeOK
  <1>3. CASE Return(c)
    BY <1>3 DEF Return, TypeOK
  <1>4. CASE Deny(c) /\ ~Return(c)
    <2>1. pc[c] = "call" /\ now' = now
      BY <1>4 DEF Deny
    <2>2. PICK have \in 0 .. Capacity, wait \in Nat :
             /\ Least(now + s) <= have /\ have < Cost
             /\ Store(have, now + s)
             /\ \E off \in Errors : wait >= Wait(have, off) /\ (Wait(have, off) = 1 => wait = 1)
             /\ wait >= 1
             /\ pc' = [pc EXCEPT ![c] = "sleep"]
             /\ wake' = [wake EXCEPT ![c] = now + wait]
             /\ waits' = [waits EXCEPT ![c] = @ + 1]
      BY <1>4, DenyTaken
    <2>3. PICK off \in Errors : wait >= Wait(have, off) /\ (Wait(have, off) = 1 => wait = 1)
      BY <2>2
    <2>4. PICK t \in Nat : t = now + s
      OBVIOUS
    <2>5. exists' = TRUE /\ tokens' = have /\ ts' = t
      BY <2>2, <2>4 DEF Store
    <2>6. /\ Least(t + wait)' >= Due(1)
          /\ have >= Due(1) => wait = 1 /\ Least(t + wait)' >= Cost
      BY <2>2, <2>3, <2>5, WaitRefills
    <2>7. pc'[c] = "sleep" /\ waits'[c] = waits[c] + 1 /\ wake'[c] = now + wait
      BY <2>2 DEF TypeOK
    <2>8. Least(t + wait)' = Least(wake[c] + s)'
      <3>1. wake'[c] + s = t + wait
        BY <2>4, <2>7
      <3> QED
        BY <3>1 DEF Least, Refilled
    <2>9. Least(now + s) \in 0 .. Capacity
      BY <2>4, LeastBounds
    <2>10. waits[c] # 2
      BY <1>0, <2>1, <2>2, <2>9 DEF Due
    <2>11. CASE waits[c] = 0
      BY <2>6, <2>7, <2>8, <2>11
    <2>12. CASE waits[c] = 1
      <3>1. have >= Due(1)
        BY <1>0, <2>1, <2>2, <2>9, <2>12 DEF Due
      <3>2. waits'[c] = 2 /\ wake'[c] <= now' + 1
        BY <2>1, <2>6, <2>7, <2>12, <3>1
      <3> QED
        BY <2>6, <2>7, <2>8, <3>1, <3>2 DEF Due
    <2> QED
      BY <1>0, <2>10, <2>11, <2>12
  <1>5. CASE Wake(c)
    <2>1. pc[c] = "sleep" /\ now >= wake[c] /\ UNCHANGED <<now, bucket, waits, wake>> /\ pc'[c] = "ask"
      BY <1>5 DEF Wake, TypeOK
    <2>2. PICK t \in Nat, u \in Nat : t = wake[c] + s /\ u = now + s /\ t <= u
      BY <2>1, SameAhead
    <2>3. Least(u) >= Due(waits[c])
      <3>1. Least(t) <= Least(u) /\ Least(t) \in 0 .. Capacity /\ Least(u) \in 0 .. Capacity
        BY <2>2, LeastGrows, LeastBounds
      <3>2. Due(waits[c]) \in Int
        BY DEF Due
      <3> QED
        BY <1>0, <2>1, <2>2, <3>1, <3>2
    <2>4. Least(now + s)' = Least(u)
      BY <2>1, <2>2 DEF Least, Refilled, bucket
    <2> QED
      BY <1>0, <2>1, <2>3, <2>4
  <1>6. CASE Tick \/ Forget \/ Observe \/ UNCHANGED vars
    <2>1. /\ UNCHANGED <<pc, waits, wake>>
          /\ UNCHANGED bucket \/ Forget
      BY <1>6 DEF Tick, Forget, Observe, vars, bucket
    <2>2. now' \in Nat /\ now' >= now
      <3>1. now' = now + 1 \/ now' = now
        BY <1>6 DEF Tick, Forget, Observe, vars
      <3> QED
        BY <3>1
    <2>3. ASSUME NEW t \in Nat, NEW u \in Nat, t <= u, NEW k \in 1 .. 2, Least(t) >= Due(k)
          PROVE  Least(u)' >= Due(k)
      <3>1. Least(t) <= Least(u) /\ Least(t) \in 0 .. Capacity /\ Least(u) \in 0 .. Capacity
        BY <2>3, LeastGrows, LeastBounds
      <3>2. Least(u)' >= Least(u)
        BY <2>1, LeftAlone
      <3>3. Least(u)' \in Int
        <4>1. CASE UNCHANGED bucket
          <5>1. Least(u)' = Least(u)
            BY <4>1 DEF bucket, Least, Refilled
          <5> QED
            BY <3>1, <5>1
        <4>2. CASE Forget
          BY <4>2 DEF Forget, Least, Refilled
        <4> QED
          BY <2>1, <4>1, <4>2
      <3>4. Due(k) \in Int
        BY DEF Due
      <3> QED
        BY <2>3, <3>1, <3>2, <3>3, <3>4
    <2>4. ASSUME waits[c] # 0, Least(now + s) >= Due(waits[c])
          PROVE  Least(now + s)' >= Due(waits[c])
      <3>1. PICK t \in Nat, u \in Nat : t = now + s /\ u = now' + s /\ t <= u
        <4>1. PICK n \in Nat, m \in Nat, k \in Nat : n = now /\ m = now' /\ k = s /\ n <= m
          BY <2>2 DEF ClocksAgree
        <4>2. n + k \in Nat /\ m + k \in Nat /\ n + k <= m + k
          BY <4>1, SameAhead
        <4> QED
          BY <4>1, <4>2
      <3>2. waits[c] \in 1 .. 2
        BY <1>0, <2>4
      <3>3. Least(now + s)' = Least(u)'
        BY <3>1 DEF Least, Refilled
      <3> QED
        BY <2>3, <2>4, <3>1, <3>2, <3>3
    <2>5. ASSUME waits[c] # 0, Least(wake[c] + s) >= Due(waits[c])
          PROVE  Least(wake[c] + s)' >= Due(waits[c])
      <3>1. PICK u \in Nat : u = wake[c] + s /\ u <= u
        OBVIOUS
      <3>2. waits[c] \in 1 .. 2
        BY <1>0, <2>5
      <3>3. Least(wake[c] + s)' = Least(u)'
        BY <2>1, <3>1 DEF Least, Refilled
      <3> QED
        BY <2>3, <2>5, <3>1, <3>2, <3>3
    <2>6. waits[c] = 2 => wake[c] <= now' + 1
      BY <1>0, <2>2
    <2> QED
      BY <1>0, <2>1, <2>4, <2>5, <2>6
  <1> QED
    BY <1>1, <1>2, <1>3, <1>4, <1>5, <1>6 DEF Next, Grant, Fail

\* A client that is alone with its bucket is granted its token after two waits at
\* most, and the second is a single tick, for any rate, cost and capacity that
\* holds a token: the wait the script names falls short by no more than the
\* rounding of its doubles (token_bucket.go:41-48, 112-124).
THEOREM WaitsTwice ==
    ASSUME NEW s, ClocksAgree(s), NEW c, Clients = {c}, BucketHoldsAToken
    PROVE  Spec => []TwoWaitsSuffice
  <1> DEFINE Both == IInv(s) /\ WaitIsEnough(s)
  <1>1. Init => Both
    <2>1. ASSUME Init, NEW d \in Clients PROVE pc[d] = "idle" /\ waits[d] = 0
      BY <2>1 DEF Init
    <2> QED
      BY <2>1, InvInit DEF WaitIsEnough
  <1>2. Both /\ [Next]_vars => Both'
    BY InvNext, WaitIsEnoughNext
  <1>3. Both => TwoWaitsSuffice
    BY DEF TwoWaitsSuffice, WaitIsEnough
  <1> QED
    BY <1>1, <1>2, <1>3, PTL DEF Spec
=============================================================================
