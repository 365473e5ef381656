------------------------------ MODULE LockTable ------------------------------
(***************************************************************************)
(* The reference-counted lock table of server/crawl_loop.go: lockMu guards *)
(* a map from resource key to *resourceLock; lockResource finds or creates *)
(* the entry and counts itself in (Lookup), blocks on the entry's own      *)
(* mutex (Acquire), and its unlock closure releases that mutex (Unlock)    *)
(* and then counts itself out, dropping the entry at zero (Unref).  Each   *)
(* of the four is one critical section of a mutex, so one atomic step.     *)
(*                                                                         *)
(* What could go wrong: an entry dropped while a thread still holds a      *)
(* pointer to it lets the next caller create a second mutex for the same   *)
(* key, and two crawls enter the same tree.                                *)
(***************************************************************************)
EXTENDS Integers, FiniteSets

CONSTANTS Thread,      \* goroutines calling lockResource
          Key,         \* the keys they lock
          Lock,        \* addresses at which a resourceLock can be allocated
          None         \* the nil pointer, and "nobody"

ASSUME LockTableAssumption ==
    /\ IsFiniteSet(Thread)
    /\ None \notin Thread
    /\ None \notin Lock

VARIABLES locks,       \* locks[k]: the table, None where the key is absent
          refs,        \* refs[l]: resourceLock.refs
          mu,          \* mu[l]: the thread holding resourceLock.mu
          entry,       \* entry[t][k]: the pointer l of t's call for key k
          at           \* at[t][k]: where t's call for key k stands

lockVars == <<locks, refs, mu, entry, at>>

Place == {"out", "waiting", "holding", "released"}

LockTypeOK ==
    /\ locks \in [Key -> Lock \cup {None}]
    /\ refs \in [Lock -> Nat]
    /\ mu \in [Lock -> Thread \cup {None}]
    /\ entry \in [Thread -> [Key -> Lock \cup {None}]]
    /\ at \in [Thread -> [Key -> Place]]

LockInit ==
    /\ locks = [k \in Key |-> None]
    /\ refs = [l \in Lock |-> 0]
    /\ mu = [l \in Lock |-> None]
    /\ entry = [t \in Thread |-> [k \in Key |-> None]]
    /\ at = [t \in Thread |-> [k \in Key |-> "out"]]

-----------------------------------------------------------------------------
\* An address the garbage collector may hand out: neither the table nor a
\* running call points at it.
Unreferenced(l) ==
    /\ \A k \in Key : locks[k] # l
    /\ \A t \in Thread, k \in Key : entry[t][k] # l

\* &resourceLock{} at a fresh address, entered into the table and counted in.
LookupNew(t, k) ==
    /\ at[t][k] = "out"
    /\ locks[k] = None
    /\ \E l \in Lock : Unreferenced(l)
    /\ LET l == CHOOSE x \in Lock : Unreferenced(x)
       IN  /\ locks' = [locks EXCEPT ![k] = l]
           /\ refs' = [refs EXCEPT ![l] = 1]
           /\ mu' = [mu EXCEPT ![l] = None]
           /\ entry' = [entry EXCEPT ![t][k] = l]
    /\ at' = [at EXCEPT ![t][k] = "waiting"]

LookupOld(t, k) ==
    /\ at[t][k] = "out"
    /\ locks[k] # None
    /\ refs' = [refs EXCEPT ![locks[k]] = @ + 1]
    /\ entry' = [entry EXCEPT ![t][k] = locks[k]]
    /\ at' = [at EXCEPT ![t][k] = "waiting"]
    /\ UNCHANGED <<locks, mu>>

Lookup(t, k) == LookupNew(t, k) \/ LookupOld(t, k)

\* Mutant: the entry's mutex is not taken.
AcquireUnguarded(t, k) ==
    /\ at[t][k] = "waiting"
    /\ mu' = [mu EXCEPT ![entry[t][k]] = t]
    /\ at' = [at EXCEPT ![t][k] = "holding"]
    /\ UNCHANGED <<locks, refs, entry>>

Acquire(t, k) ==
    /\ at[t][k] = "waiting"
    /\ mu[entry[t][k]] = None
    /\ mu' = [mu EXCEPT ![entry[t][k]] = t]
    /\ at' = [at EXCEPT ![t][k] = "holding"]
    /\ UNCHANGED <<locks, refs, entry>>

Unlock(t, k) ==
    /\ at[t][k] = "holding"
    /\ mu' = [mu EXCEPT ![entry[t][k]] = None]
    /\ at' = [at EXCEPT ![t][k] = "released"]
    /\ UNCHANGED <<locks, refs, entry>>

\* Mutant: the entry goes with whoever finishes first.
UnrefEvict(t, k) ==
    /\ at[t][k] = "released"
    /\ refs' = [refs EXCEPT ![entry[t][k]] = @ - 1]
    /\ locks' = [locks EXCEPT ![k] = None]
    /\ entry' = [entry EXCEPT ![t][k] = None]
    /\ at' = [at EXCEPT ![t][k] = "out"]
    /\ UNCHANGED mu

\* Mutant: the last reference is never seen, so the entry stays.
UnrefKeep(t, k) ==
    /\ at[t][k] = "released"
    /\ refs' = [refs EXCEPT ![entry[t][k]] = @ - 1]
    /\ entry' = [entry EXCEPT ![t][k] = None]
    /\ at' = [at EXCEPT ![t][k] = "out"]
    /\ UNCHANGED <<mu, locks>>

\* delete(locks, key) when the last reference goes.
Unref(t, k) ==
    /\ at[t][k] = "released"
    /\ refs' = [refs EXCEPT ![entry[t][k]] = @ - 1]
    /\ locks' = IF refs[entry[t][k]] = 1 THEN [locks EXCEPT ![k] = None] ELSE locks
    /\ entry' = [entry EXCEPT ![t][k] = None]
    /\ at' = [at EXCEPT ![t][k] = "out"]
    /\ UNCHANGED mu

LockNext ==
    \E t \in Thread, k \in Key :
        Lookup(t, k) \/ Acquire(t, k) \/ Unlock(t, k) \/ Unref(t, k)

LockSpec == LockInit /\ [][LockNext]_lockVars

-----------------------------------------------------------------------------
\* Holders and waiters, the calls the reference count stands for.
Users(k) == {t \in Thread : at[t][k] # "out"}

\* No two goroutines are inside the same key's critical section, however
\* often the key's table entry was dropped and created again (crawl_loop.go
\* "locks serializes crawls of the same resource").
MutualExclusion ==
    \A k \in Key : \A s, t \in Thread :
        at[s][k] = "holding" /\ at[t][k] = "holding" => s = t

\* The count of an entry in the table is exactly its holders and waiters, and
\* the table has an entry just when there is one: nothing accumulates, and
\* nothing is dropped too early ("refs counts holders and waiters so the
\* entry can be dropped once nobody references it").
RefsExact ==
    \A k \in Key :
        /\ locks[k] = None <=> Users(k) = {}
        /\ locks[k] # None => refs[locks[k]] = Cardinality(Users(k))

\* Every call works on the entry that is in the table now, never on one that
\* was dropped and replaced behind its back.
SameEntry ==
    \A t \in Thread, k \in Key :
        IF at[t][k] = "out" THEN entry[t][k] = None
                            ELSE entry[t][k] # None /\ entry[t][k] = locks[k]

\* Entries of different keys are different mutexes.
EntriesDistinct ==
    \A j, k \in Key : locks[j] # None /\ locks[j] = locks[k] => j = k

\* An entry's mutex is held by exactly the call that is past Acquire and not
\* yet past Unlock.
HolderExact ==
    \A t \in Thread, k \in Key :
        at[t][k] = "holding" <=> locks[k] # None /\ mu[locks[k]] = t

LockInv ==
    LockTypeOK /\ RefsExact /\ SameEntry /\ EntriesDistinct /\ HolderExact

-----------------------------------------------------------------------------
\* The table implements one plain mutex per key: the mutex a key has is that
\* of its current entry, and creating and dropping entries is invisible.
Abstract == INSTANCE KeyedMutex WITH
    owner <- [k \in Key |-> IF locks[k] = None THEN None ELSE mu[locks[k]]],
    queue <- [k \in Key |-> {t \in Thread : at[t][k] = "waiting"}]

ImplementsMutex == Abstract!MutexSpec
=============================================================================
