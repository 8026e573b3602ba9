---------------------------- MODULE MCTokenBucket ----------------------------
(***************************************************************************)
(* Instances of TokenBucket for TLC: several clients whose clocks agree,   *)
(* and one that is alone with its bucket for longer.                       *)
(***************************************************************************)
EXTENDS TokenBucket

CONSTANTS c1

NoSkew == [c \in Clients |-> 0]

Alone == INSTANCE TokenBucket
            WITH Clients <- {c1}, Skew <- [c \in {c1} |-> 0], MaxNow <- 2 * MaxNow

alone == DOMAIN pc = {c1}

AloneOrSharedInit == Init \/ Alone!Init
AloneOrSharedNext == IF alone THEN Alone!Next ELSE Next
AloneOrShared == AloneOrSharedInit /\ [][AloneOrSharedNext]_vars

\* TwoWaitsSuffice (token_bucket.go:41-48, 112-124) of the client that is alone.
AloneWaitsTwice == alone => Alone!TwoWaitsSuffice

\* "The Lua script runs atomically on the Redis server - no race conditions
\* between worker replicas" (docs/rate-limiting.md:17): the rate is kept also
\* when a call reaches Redis after a later one.
RateIsKeptByLateCalls == RateIsKept

\* "the suggested wait time (in ms) until enough tokens accumulate is returned"
\* (token_bucket.go:24-25): nobody else takes a token, and yet the wait is not
\* long enough.
OneWaitSuffices == alone => waits[c1] <= 1
=============================================================================
