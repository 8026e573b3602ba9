--------------------------- MODULE MCSegmentRefresh ---------------------------
(***************************************************************************)
(* Instances of SegmentRefresh for TLC, and what the documents and the     *)
(* comments say of it.                                                     *)
(***************************************************************************)
EXTENDS SegmentRefresh

\* "Acquire distributed lock to prevent concurrent recomputes."
\* (segments/handler.go:136)
NoConcurrentRecomputes ==
    \A v, w \in Workers : pc[v] \in Computing /\ pc[w] \in Computing => v = w

\* "another worker is handling it" (segments/handler.go:142): a request acked
\* for a held lock is covered by a recomputation by the time all work is done.
AllAtRest ==
    /\ \A j \in Jobs : msg[j].st = "acked"
    /\ \A w \in Workers : pc[w] = "idle"

SkippedIsHandled == AllAtRest => skipped \subseteq done

\* "If a worker crashes while holding the lock, the lock expires after 10
\* minutes and the next delivery will acquire it."
\* (docs/workers/segment-computation.md:59): a crash leaves no segment without
\* a delivery that takes its recomputation up.
CrashIsTakenUp == AllAtRest => status # "processing"
=============================================================================
