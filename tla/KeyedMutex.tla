----------------------------- MODULE KeyedMutex -----------------------------
(***************************************************************************)
(* What lockResource (server/crawl_loop.go) promises its callers: a named  *)
(* mutex per resource key.  A thread asks for a key, is eventually granted *)
(* it while nobody else owns it, and gives it back.  How the mutexes are   *)
(* created, counted and thrown away is the business of LockTable.          *)
(***************************************************************************)
CONSTANTS Thread,      \* goroutines that crawl, serve or evict
          Key,         \* resource keys and archive-root keys
          None         \* no thread

VARIABLES owner,       \* owner[k]: the thread inside the key's critical section
          queue        \* queue[k]: the threads that asked and are not served yet

mutexVars == <<owner, queue>>

MutexInit ==
    /\ owner = [k \in Key |-> None]
    /\ queue = [k \in Key |-> {}]

Ask(t, k) ==
    /\ t \notin queue[k]
    /\ owner[k] # t
    /\ queue' = [queue EXCEPT ![k] = @ \cup {t}]
    /\ UNCHANGED owner

Grant(t, k) ==
    /\ t \in queue[k]
    /\ owner[k] = None
    /\ owner' = [owner EXCEPT ![k] = t]
    /\ queue' = [queue EXCEPT ![k] = @ \ {t}]

GiveBack(t, k) ==
    /\ owner[k] = t
    /\ owner' = [owner EXCEPT ![k] = None]
    /\ UNCHANGED queue

MutexNext ==
    \E t \in Thread, k \in Key : Ask(t, k) \/ Grant(t, k) \/ GiveBack(t, k)

MutexSpec == MutexInit /\ [][MutexNext]_mutexVars
=============================================================================
