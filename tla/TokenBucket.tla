----------------------------- MODULE TokenBucket -----------------------------
(***************************************************************************)
(* The token bucket of internal/ratelimit/token_bucket.go: the Lua script  *)
(* that refills and charges one workspace's bucket in Redis, and the       *)
(* Acquire loops of the handlers that share it.  Time is counted in ticks, *)
(* tokens in units: one tick refills Rate units and a send costs Cost.     *)
(* The script is given the caller's clock, read before the call is sent.   *)
(*                                                                         *)
(* The script computes with doubles: a time in epoch seconds is off by up  *)
(* to 1.2e-7 s, and with it the time between two calls and what it refills *)
(* (a tick is a millisecond: 2.4e-4 of what a tick refills).  Rounding is  *)
(* that much in units, and each refill and each wait is off by an error of *)
(* its own.  The difference of a time to itself, and of tokens to the cost *)
(* that they cover, is exact.                                              *)
(***************************************************************************)
EXTENDS Integers

CONSTANTS
    Clients,    \* the handlers that share the bucket
    Rate,       \* units refilled per tick
    Cost,       \* units of one token
    Capacity,   \* units of a full bucket
    Rounding,   \* units by which the doubles of the script may be off
    MaxWait,    \* rateLimitWaitBudget, in ticks
    TTL,        \* EXPIRE of the bucket's key, in ticks
    Skew,       \* Skew[c]: how far c's clock is ahead of real time
    CallsLag,   \* time may pass between the reading of the clock and the script
    MaxNow      \* bound on the real time explored

ASSUME BucketAssumption ==
    /\ Rate \in Nat \ {0} /\ Cost \in Nat \ {0} /\ Capacity \in Nat
    /\ MaxWait \in Nat /\ TTL \in Nat
    /\ Rounding \in Nat /\ 3 * Rounding <= Rate
    /\ Rate * TTL >= Capacity       \* a forgotten bucket was full again
ASSUME ClockAssumption == Skew \in [Clients -> Nat] /\ CallsLag \in BOOLEAN

VARIABLES
    now,        \* real time
    exists,     \* the key is in Redis
    tokens, ts, \* its fields
    expires,    \* when Redis forgets it
    pc,         \* pc[c]: where client c is in Acquire
    clock,      \* clock[c]: the time TryAcquire sends
    deadline,   \* deadline[c]: when Acquire stops waiting
    wake,       \* wake[c]: when its timer fires
    waits,      \* waits[c]: how often this Acquire has waited
    start,      \* history: an observer began to count at this time
    granted     \* history: tokens granted since

vars == <<now, exists, tokens, ts, expires, pc, clock, deadline, wake, waits, start, granted>>
bucket == <<exists, tokens, ts, expires>>
observer == <<start, granted>>

TypeOK ==
    /\ now \in Nat /\ exists \in BOOLEAN /\ tokens \in 0 .. Capacity
    /\ ts \in Nat /\ expires \in Nat
    /\ pc \in [Clients -> {"idle", "ask", "call", "sleep"}]
    /\ clock \in [Clients -> Nat] /\ deadline \in [Clients -> Nat]
    /\ wake \in [Clients -> Nat] /\ waits \in [Clients -> Nat]
    /\ start \in 0 .. now /\ granted \in Nat

MinOf(a, b) == IF a <= b THEN a ELSE b
AtLeast(least, a) == IF a < least THEN least ELSE a

\* How far a result of the script may be from the exact one.
Errors == -Rounding .. Rounding

Init ==
    /\ now = 0
    /\ exists = FALSE /\ tokens = 0 /\ ts = 0 /\ expires = 0
    /\ pc = [c \in Clients |-> "idle"]
    /\ clock = [c \in Clients |-> 0]
    /\ deadline = [c \in Clients |-> 0]
    /\ wake = [c \in Clients |-> 0]
    /\ waits = [c \in Clients |-> 0]
    /\ start = 0 /\ granted = 0

(***************************************************************************)
(* The script.                                                             *)
(***************************************************************************)
\* Mutants: the refill is not capped; the wait is rounded down.
RefilledUncapped(t, err) ==
    IF ~exists THEN Capacity ELSE IF t <= ts THEN tokens ELSE tokens + (t - ts) * Rate + err
WaitRoundedDown(have, err) == AtLeast(1, Cost - have + err) \div Rate

\* The bucket at time t of the caller's clock.  Nothing is refilled when no time
\* has passed, or when the bucket was written by a clock that was ahead.
Refilled(t, err) ==
    IF ~exists THEN Capacity
    ELSE IF t <= ts THEN tokens
    ELSE MinOf(Capacity, tokens + (t - ts) * Rate + err)

\* wait_ms: how long until the missing units are refilled, rounded up.  Something
\* is missing, however little.
Wait(have, err) == (AtLeast(1, Cost - have + err) + Rate - 1) \div Rate

Store(left, t) == /\ exists' = TRUE
                  /\ tokens' = left
                  /\ ts' = t
                  /\ expires' = now + TTL

(***************************************************************************)
(* Acquire.                                                                *)
(***************************************************************************)
Return(c) == /\ pc' = [pc EXCEPT ![c] = "idle"]
             /\ clock' = [clock EXCEPT ![c] = 0]
             /\ deadline' = [deadline EXCEPT ![c] = 0]
             /\ wake' = [wake EXCEPT ![c] = 0]
             /\ waits' = [waits EXCEPT ![c] = 0]

Begin(c) ==
    /\ pc[c] = "idle"
    /\ pc' = [pc EXCEPT ![c] = "ask"]
    /\ deadline' = [deadline EXCEPT ![c] = now + MaxWait]
    /\ UNCHANGED <<now, bucket, clock, wake, waits, observer>>

\* TryAcquire reads the clock ...
ReadClock(c) ==
    /\ pc[c] = "ask"
    /\ clock' = [clock EXCEPT ![c] = now + Skew[c]]
    /\ pc' = [pc EXCEPT ![c] = "call"]
    /\ UNCHANGED <<now, bucket, deadline, wake, waits, observer>>

\* ... and runs the script, which grants a token,
Grant(c) ==
    /\ pc[c] = "call"
    /\ \E err \in Errors :
          LET have == Refilled(clock[c], err)
          IN  have >= Cost /\ Store(have - Cost, clock[c])
    /\ granted' = granted + 1
    /\ Return(c)
    /\ UNCHANGED <<now, start>>

\* or names a wait (at least ten milliseconds, here a tick), which Acquire
\* sits out or which is beyond its budget.
Deny(c) ==
    /\ pc[c] = "call"
    /\ \E err, off \in Errors :
          LET have  == Refilled(clock[c], err)
              named == Wait(have, off)
              wait  == IF named <= 0 THEN 1 ELSE named
          IN  /\ have < Cost
              /\ Store(have, clock[c])
              /\ IF now + wait > deadline[c]
                 THEN Return(c)
                 ELSE /\ pc' = [pc EXCEPT ![c] = "sleep"]
                      /\ wake' = [wake EXCEPT ![c] = now + wait]
                      /\ waits' = [waits EXCEPT ![c] = @ + 1]
                      /\ UNCHANGED <<clock, deadline>>
    /\ UNCHANGED <<now, observer>>

Wake(c) ==
    /\ pc[c] = "sleep"
    /\ now >= wake[c]
    /\ pc' = [pc EXCEPT ![c] = "ask"]
    /\ UNCHANGED <<now, bucket, clock, deadline, wake, waits, observer>>

\* Redis fails, or the handler's context ends: Acquire returns the error.  The
\* script of a lost call may have run.
Fail(c) ==
    /\ pc[c] \in {"call", "sleep"}
    /\ \/ UNCHANGED bucket
       \/ /\ pc[c] = "call"
          /\ \E err \in Errors :
                LET have == Refilled(clock[c], err)
                IN  Store(IF have >= Cost THEN have - Cost ELSE have, clock[c])
    /\ Return(c)
    /\ UNCHANGED <<now, observer>>

(***************************************************************************)
(* Time.                                                                   *)
(***************************************************************************)
Tick ==
    /\ now < MaxNow
    /\ CallsLag \/ \A c \in Clients : pc[c] # "call"
    /\ now' = now + 1
    /\ UNCHANGED <<bucket, pc, clock, deadline, wake, waits, observer>>

\* Redis forgets the key an hour after its last use.
Forget ==
    /\ exists /\ now >= expires
    /\ exists' = FALSE /\ tokens' = 0 /\ ts' = 0 /\ expires' = 0
    /\ UNCHANGED <<now, pc, clock, deadline, wake, waits, observer>>

\* SES begins to count, at any time.
Observe ==
    /\ start' = now /\ granted' = 0
    /\ UNCHANGED <<now, bucket, pc, clock, deadline, wake, waits>>

Next ==
    \/ \E c \in Clients : Begin(c) \/ ReadClock(c) \/ Grant(c) \/ Deny(c) \/ Wake(c) \/ Fail(c)
    \/ Tick
    \/ Forget
    \/ Observe

Spec == Init /\ [][Next]_vars

-----------------------------------------------------------------------------
(***************************************************************************)
(* Properties                                                              *)
(***************************************************************************)

\* In any interval the clients get no more than the full bucket and what the
\* interval refills, but for one rounding of the script a tick, whatever they ask
\* and when, as long as their clocks agree and the script runs at the time it is
\* given (token_bucket.go:26-56).
RateIsKept == granted * Cost <= Capacity + (Rate + Rounding) * (now - start)

\* A client alone is granted its token after two waits at most, and the second is
\* a single tick: the wait the script names falls short of the token by no more
\* than the rounding of its doubles (token_bucket.go:41-48, 112-124).
TwoWaitsSuffice ==
    \A c \in Clients : waits[c] <= 2 /\ (waits[c] = 2 => wake[c] <= now + 1)
=============================================================================
