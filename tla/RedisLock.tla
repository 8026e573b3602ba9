------------------------------ MODULE RedisLock ------------------------------
(***************************************************************************)
(* The lock of internal/infra/redis/client.go: one key, set if absent with *)
(* a time to live, deleted by whoever knows its value.  A lock is NoLock,  *)
(* the value its holder set, or Orphan: a value nobody is left to release  *)
(* (the holder died, or never learnt that its SET succeeded), so that only *)
(* the time to live frees it.                                              *)
(***************************************************************************)
NoLock == "free"
Orphan == "orphan"

\* SET key value NX EX ttl.
Free(lock) == lock = NoLock

\* The script compares the value before it deletes the key.
Released(lock, value) == IF lock = value THEN NoLock ELSE lock

\* The holder of a value goes away without releasing.
Abandoned(lock, value) == IF lock = value THEN Orphan ELSE lock
=============================================================================
