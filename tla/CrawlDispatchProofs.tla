-------------------------- MODULE CrawlDispatchProofs --------------------------
(***************************************************************************)
(* Proofs about CrawlDispatch for every set of goroutines, resources and   *)
(* archive roots and every limit: crawls exclude one another, the counts   *)
(* of slots and crawls and the in-flight marks are exact, sleepers are     *)
(* woken, and a stop leaves nothing behind.                                *)
(*                                                                         *)
(* First come proofs about the table of locks alone, LockTable: LockInv is *)
(* inductive, it gives mutual exclusion, and under it each step of the     *)
(* table is a step of the plain mutexes of KeyedMutex or a stutter.  What  *)
(* goroutines do to the table is a behaviour of LockTable, so that all that*)
(* is proved of the table holds for them.                                  *)
(***************************************************************************)
EXTENDS CrawlDispatch, FiniteSetTheorems, TLAPS

-----------------------------------------------------------------------------
(* The set of users is finite, so counting it is sound. *)
LEMMA UsersFinite ==
    ASSUME NEW k \in Key
    PROVE  IsFiniteSet(Users(k)) /\ Cardinality(Users(k)) \in Nat
BY FS_Subset, FS_CardinalityType, LockTableAssumption DEF Users

(* A call that begins adds one user to its key and touches no other key. *)
LEMMA UsersEnter ==
    ASSUME LockTypeOK, NEW t \in Thread, NEW k \in Key,
           at[t][k] = "out",
           at' = [at EXCEPT ![t][k] = "waiting"]
    PROVE  /\ Cardinality(Users(k)') = Cardinality(Users(k)) + 1
           /\ Users(k)' # {}
           /\ \A j \in Key : j # k => Users(j)' = Users(j)
<1>1. Users(k)' = Users(k) \cup {t} /\ t \notin Users(k)
    BY DEF Users, LockTypeOK
<1>2. \A j \in Key : j # k => Users(j)' = Users(j)
    BY DEF Users, LockTypeOK
<1>. QED
    BY <1>1, <1>2, UsersFinite, FS_AddElement

(* A call that returns takes one user away from its key. *)
LEMMA UsersLeave ==
    ASSUME LockTypeOK, NEW t \in Thread, NEW k \in Key,
           at[t][k] = "released",
           at' = [at EXCEPT ![t][k] = "out"]
    PROVE  /\ Cardinality(Users(k)') = Cardinality(Users(k)) - 1
           /\ Users(k)' = {} <=> Cardinality(Users(k)) = 1
           /\ \A j \in Key : j # k => Users(j)' = Users(j)
<1>1. Users(k)' = Users(k) \ {t} /\ t \in Users(k)
    BY DEF Users, LockTypeOK
<1>2. \A j \in Key : j # k => Users(j)' = Users(j)
    BY DEF Users, LockTypeOK
<1>3. /\ IsFiniteSet(Users(k)')
      /\ Cardinality(Users(k)') = Cardinality(Users(k)) - 1
    BY <1>1, UsersFinite, FS_RemoveElement
<1>4. Users(k)' = {} <=> Cardinality(Users(k)') = 0
    BY <1>3, FS_EmptySet
<1>. QED
    BY <1>2, <1>3, <1>4, UsersFinite

(* Moving on inside a call changes the users of no key. *)
LEMMA UsersStay ==
    ASSUME LockTypeOK, NEW t \in Thread, NEW k \in Key, NEW p \in Place,
           at[t][k] # "out", p # "out",
           at' = [at EXCEPT ![t][k] = p]
    PROVE  \A j \in Key : Users(j)' = Users(j)
BY DEF Users, LockTypeOK

-----------------------------------------------------------------------------
LEMMA LockInvInit == LockInit => LockInv
<1>. SUFFICES ASSUME LockInit PROVE LockInv
    OBVIOUS
<1>1. LockTypeOK
    BY DEF LockInit, LockTypeOK, Place
<1>2. RefsExact
    BY DEF LockInit, RefsExact, Users
<1>3. SameEntry /\ EntriesDistinct /\ HolderExact
    BY LockTableAssumption DEF LockInit, SameEntry, EntriesDistinct, HolderExact
<1>. QED
    BY <1>1, <1>2, <1>3 DEF LockInv

LEMMA LookupNewInv ==
    ASSUME LockInv, NEW t \in Thread, NEW k \in Key, LookupNew(t, k)
    PROVE  LockInv'
<1>. USE LockTableAssumption
<1>. DEFINE l == CHOOSE x \in Lock : Unreferenced(x)
<1>1. l \in Lock /\ Unreferenced(l)
    BY DEF LookupNew
<1>2. /\ at[t][k] = "out"
      /\ locks[k] = None
      /\ locks' = [locks EXCEPT ![k] = l]
      /\ refs' = [refs EXCEPT ![l] = 1]
      /\ mu' = [mu EXCEPT ![l] = None]
      /\ entry' = [entry EXCEPT ![t][k] = l]
      /\ at' = [at EXCEPT ![t][k] = "waiting"]
    BY DEF LookupNew
<1>. HIDE DEF l
<1>3. LockTypeOK /\ LockTypeOK'
    BY <1>1, <1>2 DEF LockInv, LockTypeOK, Place
<1>4. /\ Cardinality(Users(k)') = Cardinality(Users(k)) + 1
      /\ Users(k)' # {}
      /\ \A j \in Key : j # k => Users(j)' = Users(j)
    BY <1>2, <1>3, UsersEnter
<1>5. Cardinality(Users(k)) = 0
    BY <1>2, FS_EmptySet DEF LockInv, RefsExact
<1>6. \A j \in Key : j # k => locks[j] # l /\ locks'[j] = locks[j]
    BY <1>1, <1>2, <1>3 DEF Unreferenced, LockTypeOK
<1>7. locks'[k] = l /\ refs'[l] = 1
    BY <1>1, <1>2, <1>3 DEF LockTypeOK
<1>8. RefsExact'
  <2>. SUFFICES ASSUME NEW j \in Key
                PROVE  /\ locks'[j] = None <=> Users(j)' = {}
                       /\ locks'[j] # None => refs'[locks'[j]] = Cardinality(Users(j)')
    BY DEF RefsExact
  <2>1. CASE j = k
    BY <2>1, <1>1, <1>4, <1>5, <1>7
  <2>2. CASE j # k
    BY <2>2, <1>1, <1>2, <1>3, <1>4, <1>6 DEF LockInv, RefsExact, LockTypeOK
  <2>. QED
    BY <2>1, <2>2
<1>9. SameEntry'
    BY <1>1, <1>2, <1>3, <1>6, <1>7 DEF LockInv, SameEntry, LockTypeOK
<1>10. EntriesDistinct'
    BY <1>1, <1>6, <1>7 DEF LockInv, EntriesDistinct
<1>11. HolderExact'
    BY <1>1, <1>2, <1>3, <1>6, <1>7 DEF LockInv, HolderExact, LockTypeOK
<1>. QED
    BY <1>3, <1>8, <1>9, <1>10, <1>11 DEF LockInv

LEMMA LookupOldInv ==
    ASSUME LockInv, NEW t \in Thread, NEW k \in Key, LookupOld(t, k)
    PROVE  LockInv'
<1>. USE LockTableAssumption
<1>1. LockTypeOK /\ LockTypeOK'
    BY DEF LockInv, LockTypeOK, LookupOld, Place
<1>2. /\ Cardinality(Users(k)') = Cardinality(Users(k)) + 1
      /\ Users(k)' # {}
      /\ \A j \in Key : j # k => Users(j)' = Users(j)
    BY <1>1, UsersEnter DEF LookupOld
<1>3. RefsExact'
  <2>. SUFFICES ASSUME NEW j \in Key
                PROVE  /\ locks'[j] = None <=> Users(j)' = {}
                       /\ locks'[j] # None => refs'[locks'[j]] = Cardinality(Users(j)')
    BY DEF RefsExact
  <2>1. CASE j = k
    BY <2>1, <1>1, <1>2 DEF LookupOld, LockInv, RefsExact, LockTypeOK
  <2>2. CASE j # k
    BY <2>2, <1>1, <1>2 DEF LookupOld, LockInv, RefsExact, EntriesDistinct, LockTypeOK
  <2>. QED
    BY <2>1, <2>2
<1>4. SameEntry'
    BY <1>1 DEF LockInv, SameEntry, LookupOld, LockTypeOK
<1>5. EntriesDistinct'
    BY DEF LockInv, EntriesDistinct, LookupOld
<1>6. HolderExact'
    BY <1>1 DEF LockInv, HolderExact, LookupOld, LockTypeOK
<1>. QED
    BY <1>1, <1>3, <1>4, <1>5, <1>6 DEF LockInv

(* Acquire and Unlock change only the mutex of the table's own entry. *)
LEMMA AcquireInv ==
    ASSUME LockInv, NEW t \in Thread, NEW k \in Key, Acquire(t, k)
    PROVE  LockInv'
<1>. USE LockTableAssumption
<1>1. entry[t][k] \in Lock /\ entry[t][k] = locks[k] /\ mu[locks[k]] = None
    BY DEF LockInv, SameEntry, Acquire, LockTypeOK
<1>2. LockTypeOK /\ LockTypeOK'
    BY <1>1 DEF LockInv, LockTypeOK, Acquire, Place
<1>3. \A j \in Key : Users(j)' = Users(j)
    BY <1>2, UsersStay DEF Acquire, Place
<1>4. RefsExact'
    BY <1>3 DEF LockInv, RefsExact, Acquire
<1>5. SameEntry' /\ EntriesDistinct'
    BY <1>2 DEF LockInv, SameEntry, EntriesDistinct, Acquire, LockTypeOK
<1>6. HolderExact'
    BY <1>1, <1>2 DEF LockInv, HolderExact, EntriesDistinct, Acquire, LockTypeOK
<1>. QED
    BY <1>2, <1>4, <1>5, <1>6 DEF LockInv

LEMMA UnlockInv ==
    ASSUME LockInv, NEW t \in Thread, NEW k \in Key, Unlock(t, k)
    PROVE  LockInv'
<1>. USE LockTableAssumption
<1>1. entry[t][k] \in Lock /\ entry[t][k] = locks[k] /\ mu[locks[k]] = t
    BY DEF LockInv, SameEntry, HolderExact, Unlock, LockTypeOK
<1>2. LockTypeOK /\ LockTypeOK'
    BY <1>1 DEF LockInv, LockTypeOK, Unlock, Place
<1>3. \A j \in Key : Users(j)' = Users(j)
    BY <1>2, UsersStay DEF Unlock, Place
<1>4. RefsExact'
    BY <1>3 DEF LockInv, RefsExact, Unlock
<1>5. SameEntry' /\ EntriesDistinct'
    BY <1>2 DEF LockInv, SameEntry, EntriesDistinct, Unlock, LockTypeOK
<1>6. HolderExact'
    BY <1>1, <1>2 DEF LockInv, HolderExact, EntriesDistinct, Unlock, LockTypeOK
<1>. QED
    BY <1>2, <1>4, <1>5, <1>6 DEF LockInv

(* The step the count exists for: the entry goes only with its last user. *)
LEMMA UnrefInv ==
    ASSUME LockInv, NEW t \in Thread, NEW k \in Key, Unref(t, k)
    PROVE  LockInv'
<1>. USE LockTableAssumption
<1>1. /\ entry[t][k] \in Lock
      /\ entry[t][k] = locks[k]
      /\ refs[locks[k]] = Cardinality(Users(k))
    BY DEF LockInv, SameEntry, RefsExact, Unref, LockTypeOK
<1>2. /\ Cardinality(Users(k)') = Cardinality(Users(k)) - 1
      /\ Users(k)' = {} <=> Cardinality(Users(k)) = 1
      /\ \A j \in Key : j # k => Users(j)' = Users(j)
    BY UsersLeave DEF LockInv, Unref
<1>3. t \in Users(k)
    BY DEF Users, Unref
<1>4. Cardinality(Users(k)) \in Nat /\ Cardinality(Users(k)) # 0
    BY <1>3, UsersFinite, FS_EmptySet
<1>5. LockTypeOK /\ LockTypeOK'
  <2>1. refs' = [refs EXCEPT ![locks[k]] = Cardinality(Users(k)) - 1]
    BY <1>1 DEF Unref
  <2>2. Cardinality(Users(k)) - 1 \in Nat
    BY <1>4
  <2>3. refs' \in [Lock -> Nat]
    BY <2>1, <2>2 DEF LockInv, LockTypeOK
  <2>. QED
    BY <2>3 DEF LockInv, LockTypeOK, Unref, Place
<1>6. \A j \in Key : j # k => locks'[j] = locks[j]
    BY <1>5 DEF Unref, LockTypeOK
<1>7. locks'[k] = IF Cardinality(Users(k)) = 1 THEN None ELSE locks[k]
    BY <1>1, <1>5 DEF Unref, LockTypeOK
<1>8. RefsExact'
  <2>. SUFFICES ASSUME NEW j \in Key
                PROVE  /\ locks'[j] = None <=> Users(j)' = {}
                       /\ locks'[j] # None => refs'[locks'[j]] = Cardinality(Users(j)')
    BY DEF RefsExact
  <2>1. CASE j = k
    BY <2>1, <1>1, <1>2, <1>5, <1>7 DEF Unref, LockTypeOK
  <2>2. CASE j # k
    BY <2>2, <1>1, <1>2, <1>5, <1>6 DEF Unref, LockInv, RefsExact, EntriesDistinct, LockTypeOK
  <2>. QED
    BY <2>1, <2>2
<1>9. SameEntry'
  <2>. SUFFICES ASSUME NEW s \in Thread, NEW j \in Key
                PROVE  IF at'[s][j] = "out" THEN entry'[s][j] = None
                       ELSE entry'[s][j] # None /\ entry'[s][j] = locks'[j]
    BY DEF SameEntry
  <2>1. CASE s = t /\ j = k
    BY <2>1, <1>5 DEF Unref, LockTypeOK
  <2>2. CASE j # k
    BY <2>2, <1>5, <1>6 DEF Unref, LockInv, SameEntry, LockTypeOK
  <2>3. CASE s # t /\ j = k
    <3>1. at'[s][j] = at[s][j] /\ entry'[s][j] = entry[s][j]
        BY <2>3, <1>5 DEF Unref, LockTypeOK
    <3>2. at[s][k] # "out" => locks'[k] = locks[k]
        BY <2>3, <3>1, <1>2, <1>7 DEF Users
    <3>. QED
        BY <2>3, <3>1, <3>2 DEF LockInv, SameEntry
  <2>. QED
    BY <2>1, <2>2, <2>3
<1>10. EntriesDistinct'
    BY <1>6, <1>7 DEF LockInv, EntriesDistinct
<1>11. HolderExact'
  <2>. SUFFICES ASSUME NEW s \in Thread, NEW j \in Key
                PROVE  at'[s][j] = "holding" <=> locks'[j] # None /\ mu'[locks'[j]] = s
    BY DEF HolderExact
  <2>1. CASE j # k
    BY <2>1, <1>5, <1>6 DEF Unref, LockInv, HolderExact, LockTypeOK
  <2>2. CASE j = k /\ Cardinality(Users(k)) # 1
    BY <2>2, <1>5, <1>7 DEF Unref, LockInv, HolderExact, LockTypeOK
  <2>3. CASE j = k /\ Cardinality(Users(k)) = 1
    BY <2>3, <1>2, <1>7 DEF Users
  <2>. QED
    BY <2>1, <2>2, <2>3
<1>. QED
    BY <1>5, <1>8, <1>9, <1>10, <1>11 DEF LockInv

LEMMA LockInvNext == LockInv /\ [LockNext]_lockVars => LockInv'
<1>. SUFFICES ASSUME LockInv, [LockNext]_lockVars PROVE LockInv'
    OBVIOUS
<1>1. ASSUME NEW t \in Thread, NEW k \in Key, Lookup(t, k) PROVE LockInv'
    BY <1>1, LookupNewInv, LookupOldInv DEF Lookup
<1>2. ASSUME NEW t \in Thread, NEW k \in Key, Acquire(t, k) PROVE LockInv'
    BY <1>2, AcquireInv
<1>3. ASSUME NEW t \in Thread, NEW k \in Key, Unlock(t, k) PROVE LockInv'
    BY <1>3, UnlockInv
<1>4. ASSUME NEW t \in Thread, NEW k \in Key, Unref(t, k) PROVE LockInv'
    BY <1>4, UnrefInv
<1>5. CASE UNCHANGED lockVars
  <2>1. \A k \in Key : Users(k)' = Users(k)
    BY <1>5 DEF lockVars, Users
  <2>. QED
    BY <1>5, <2>1 DEF lockVars, LockInv, LockTypeOK, RefsExact, SameEntry,
                      EntriesDistinct, HolderExact
<1>. QED
    BY <1>1, <1>2, <1>3, <1>4, <1>5 DEF LockNext

(* In every reachable state the reference counts are exact and every call   *)
(* works on the entry the table has now (lockResource).                     *)
THEOREM LockTableInvariant == LockSpec => []LockInv
<1>. QED
    BY LockInvInit, LockInvNext, PTL DEF LockSpec

(* A mutex has one holder and a key one mutex. *)
LEMMA LockInvExcludes == LockInv => MutualExclusion
BY DEF LockInv, HolderExact, MutualExclusion

(* No two goroutines ever hold the same resource key at once, for any       *)
(* number of goroutines and keys, although entries come and go.             *)
THEOREM LockTableMutualExclusion == LockSpec => []MutualExclusion
<1>. QED
    BY LockTableInvariant, LockInvExcludes, PTL

-----------------------------------------------------------------------------
LEMMA AbstractInit == LockInit => Abstract!MutexInit
BY DEF LockInit, Abstract!MutexInit

(* Every step of the table is one step of the plain mutex of that key, or   *)
(* invisible: creating, counting and dropping entries never shows.          *)
LEMMA AbstractStep ==
    ASSUME LockInv, LockInv', [LockNext]_lockVars
    PROVE  [Abstract!MutexNext]_Abstract!mutexVars
<1>. USE LockTableAssumption
<1>. DEFINE own == [k \in Key |-> IF locks[k] = None THEN None ELSE mu[locks[k]]]
            que == [k \in Key |-> {t \in Thread : at[t][k] = "waiting"}]
<1>0. LockTypeOK /\ LockTypeOK'
    BY DEF LockInv
<1>1. ASSUME NEW t \in Thread, NEW k \in Key, Lookup(t, k)
      PROVE  Abstract!Ask(t, k)
  <2>1. at[t][k] = "out" /\ at' = [at EXCEPT ![t][k] = "waiting"]
    BY <1>1 DEF Lookup, LookupNew, LookupOld
  <2>2. que' = [que EXCEPT ![k] = @ \cup {t}] /\ t \notin que[k]
    <3>1. \A j \in Key : que'[j] = IF j = k THEN que[k] \cup {t} ELSE que[j]
        BY <1>0, <2>1 DEF LockTypeOK
    <3>. QED
        BY <3>1, <2>1
  <2>3. own[k] # t
    BY <2>1 DEF LockInv, HolderExact
  <2>4. own' = own
    <3>1. CASE LookupOld(t, k)
        BY <3>1 DEF LookupOld
    <3>2. CASE LookupNew(t, k)
      <4>. DEFINE l == CHOOSE x \in Lock : Unreferenced(x)
      <4>1. l \in Lock /\ Unreferenced(l)
        BY <3>2 DEF LookupNew
      <4>2. /\ locks[k] = None
            /\ locks' = [locks EXCEPT ![k] = l]
            /\ mu' = [mu EXCEPT ![l] = None]
        BY <3>2 DEF LookupNew
      <4>. HIDE DEF l
      <4>. QED
        BY <4>1, <4>2, <1>0 DEF Unreferenced, LockTypeOK
    <3>. QED
        BY <1>1, <3>1, <3>2 DEF Lookup
  <2>. QED
    BY <2>2, <2>3, <2>4 DEF Abstract!Ask
<1>2. ASSUME NEW t \in Thread, NEW k \in Key, Acquire(t, k)
      PROVE  Abstract!Grant(t, k)
  <2>a. at[t][k] = "waiting" /\ at' = [at EXCEPT ![t][k] = "holding"]
    BY <1>2 DEF Acquire
  <2>b. entry[t][k] = locks[k] /\ locks[k] \in Lock
    BY <2>a, <1>0 DEF LockInv, SameEntry, LockTypeOK
  <2>1. /\ mu[locks[k]] = None
        /\ mu' = [mu EXCEPT ![locks[k]] = t]
        /\ locks' = locks
    BY <1>2, <2>b DEF Acquire
  <2>2. own' = [own EXCEPT ![k] = t] /\ own[k] = None
    <3>1. \A j \in Key : j # k => own'[j] = own[j]
        BY <2>1, <2>b, <1>0 DEF LockInv, EntriesDistinct, LockTypeOK
    <3>2. own'[k] = t /\ own[k] = None
        BY <2>1, <2>b, <1>0 DEF LockTypeOK
    <3>. QED
        BY <3>1, <3>2
  <2>3. que' = [que EXCEPT ![k] = @ \ {t}] /\ t \in que[k]
    <3>1. \A j \in Key : que'[j] = IF j = k THEN que[k] \ {t} ELSE que[j]
        BY <2>a, <1>0 DEF LockTypeOK
    <3>. QED
        BY <3>1, <2>a
  <2>. QED
    BY <2>2, <2>3 DEF Abstract!Grant
<1>3. ASSUME NEW t \in Thread, NEW k \in Key, Unlock(t, k)
      PROVE  Abstract!GiveBack(t, k)
  <2>a. at[t][k] = "holding" /\ at' = [at EXCEPT ![t][k] = "released"]
    BY <1>3 DEF Unlock
  <2>b. entry[t][k] = locks[k] /\ locks[k] \in Lock
    BY <2>a, <1>0 DEF LockInv, SameEntry, LockTypeOK
  <2>1. /\ mu[locks[k]] = t
        /\ mu' = [mu EXCEPT ![locks[k]] = None]
        /\ locks' = locks
    BY <1>3, <2>a, <2>b DEF Unlock, LockInv, HolderExact
  <2>2. own' = [own EXCEPT ![k] = None] /\ own[k] = t
    <3>1. \A j \in Key : j # k => own'[j] = own[j]
        BY <2>1, <2>b, <1>0 DEF LockInv, EntriesDistinct, LockTypeOK
    <3>2. own'[k] = None /\ own[k] = t
        BY <2>1, <2>b, <1>0 DEF LockTypeOK
    <3>. QED
        BY <3>1, <3>2
  <2>3. que' = que
    BY <2>a, <1>0 DEF LockTypeOK
  <2>. QED
    BY <2>2, <2>3 DEF Abstract!GiveBack
<1>4. ASSUME NEW t \in Thread, NEW k \in Key, Unref(t, k)
      PROVE  UNCHANGED Abstract!mutexVars
  <2>1. que' = que
    BY <1>4, <1>0 DEF Unref, LockTypeOK
  <2>2. mu' = mu /\ \A j \in Key : j # k => locks'[j] = locks[j]
    BY <1>4, <1>0 DEF Unref, LockTypeOK
  <2>3. locks'[k] = locks[k] \/ (locks'[k] = None /\ own[k] = None)
    <3>1. CASE locks'[k] = None
      <4>1. \A s \in Thread : at'[s][k] = "out"
        BY <3>1 DEF LockInv, RefsExact, Users
      <4>2. \A s \in Thread : at[s][k] # "holding"
        BY <4>1, <1>4, <1>0 DEF Unref, LockTypeOK
      <4>3. own[k] \in Thread \cup {None}
        BY <1>0 DEF LockTypeOK
      <4>. QED
        BY <3>1, <4>2, <4>3 DEF LockInv, HolderExact
    <3>2. CASE locks'[k] # None
        BY <3>2, <1>4, <1>0 DEF Unref, LockTypeOK
    <3>. QED
        BY <3>1, <3>2
  <2>4. own' = own
    BY <2>2, <2>3
  <2>. QED
    BY <2>1, <2>4 DEF Abstract!mutexVars
<1>5. CASE UNCHANGED lockVars
    BY <1>5 DEF lockVars, Abstract!mutexVars
<1>. QED
    BY <1>1, <1>2, <1>3, <1>4, <1>5 DEF LockNext, Abstract!MutexNext

(* The reference-counted table behaves as one plain mutex per key.          *)
THEOREM LockTableImplementsMutex == LockSpec => ImplementsMutex
<1>1. LockInv /\ LockInv' /\ [LockNext]_lockVars
        => [Abstract!MutexNext]_Abstract!mutexVars
    BY AbstractStep
<1>. QED
    BY <1>1, AbstractInit, LockTableInvariant, PTL
    DEF LockSpec, ImplementsMutex, Abstract!MutexSpec

-----------------------------------------------------------------------------
(* The dispatch of crawls *)
CrawlerPlace == {"idle", "slot", "asleep", "start", "lock", "crawl", "unlock", "release",
                 "wake", "leave", "done"}
HandlerPlace == {"idle", "request", "spawn", "slot", "asleep", "lock", "crawl", "unlock",
                 "release", "wake"}
LoopPlace == {"idle", "entry", "spawn", "lock", "crawl", "unlock", "returned"}

\* A goroutine here works on no resource.
Unemployed == {"idle", "request", "entry", "returned"}

\* Where goroutines of each kind can stand.
WhereInv ==
    /\ \A g \in Crawler : pc[g] \in CrawlerPlace
    /\ \A h \in Handler : pc[h] \in HandlerPlace
    /\ pc[Scheduler] \in LoopPlace
    /\ \A t \in Thread : pc[t] \notin Unemployed => job[t] \in Resource

\* Which locks a goroutine has or waits for, where it stands: those of its
\* resource only, the archive root's first and last.
LocksAt(t) ==
    LET own == at[t][job[t]]
        root == RootKey[job[t]]
    IN  /\ \A k \in Key :
              pc[t] \notin {"lock", "crawl", "unlock"} \/ k \notin LocksOf(job[t])
                  => at[t][k] = "out"
        /\ pc[t] = "lock" =>
              /\ own \in {"out", "waiting"}
              /\ root # None => IF own = "waiting" THEN at[t][root] = "holding"
                                                   ELSE at[t][root] # "released"
        /\ pc[t] = "crawl" => \A k \in LocksOf(job[t]) : at[t][k] = "holding"
        /\ pc[t] = "unlock" =>
              IF own # "out" THEN own # "waiting" /\ (root # None => at[t][root] = "holding")
              ELSE root # None /\ at[t][root] \in {"holding", "released"}

LocksInv == \A t \in Thread : LocksAt(t)

\* How far a stop has come, when handlers return in time.
Returned ==
    /\ Canceled => \A h \in Handler : pc[h] = "idle"
    /\ phase \in {"waiting", "flush", "saved", "exited"} => pc[Scheduler] = "returned"
    /\ phase \in {"flush", "saved", "exited"} => \A g \in Crawler : ~Underway(g)

StopInv == ~DrainTimeout => Returned /\ (phase \in {"saved", "exited"} => ~dirty)

\* Who has a slot, and the crawls that were dispatched.
Holders == {t \in Thread : HasSlot(t)}
Crawls == {g \in Crawler : Underway(g)}

WaitGroupExact == wg = Cardinality(Crawls)

CrawlInv ==
    /\ TypeOK /\ WhereInv /\ LockInv /\ LocksInv
    /\ SlotsExact /\ SleepersWoken /\ SingleFlight /\ WaitGroupExact
    /\ StopInv
-----------------------------------------------------------------------------
LEMMA ThreadsOf ==
    /\ Crawler \subseteq Thread /\ Handler \subseteq Thread /\ Scheduler \in Thread
    /\ \A t \in Thread : t \in Crawler \/ t \in Handler \/ t = Scheduler
    /\ Crawler \cap Handler = {} /\ Scheduler \notin Crawler /\ Scheduler \notin Handler
BY CrawlDispatchAssumption

(* A resource and its archive root are different keys. *)
LEMMA RootIsKey ==
    ASSUME NEW r \in Resource
    PROVE  /\ r \in Key /\ r # None
           /\ RootKey[r] = None \/ RootKey[r] \in Key
           /\ RootKey[r] # r
           /\ LocksOf(r) = IF RootKey[r] = None THEN {r} ELSE {r, RootKey[r]}
BY CrawlDispatchAssumption DEF LocksOf

\* A step of main or of FlushLoop, or none.
Aside == UNCHANGED <<lockVars, pc, job, inflight, slotsInUse, wg>>

\* The step that a goroutine takes.
Steps ==
    \/ \E t \in Crawler \cup Handler :
          TakeSlot(t) \/ SleepForSlot(t) \/ ReleaseSlot(t) \/ Broadcast(t)
    \/ \E t \in Thread :
          LookupNext(t) \/ AcquireNext(t) \/ Work(t) \/ UnlockLast(t) \/ UnrefLast(t)
    \/ \E t \in Handler \cup {Scheduler} :
          \/ Skip(t)
          \/ \E r \in Resource : StartCrawl(t, r)
          \/ \E g \in Crawler : Spawn(t, g)
    \/ \E h \in Handler : Arrive(h) \/ \E r \in Resource : ProtectedCrawl(h, r)
    \/ \E g \in Crawler : CheckContext(g) \/ LeaveInflight(g) \/ WaitGroupDone(g)
    \/ ConsiderEntry
    \/ \E r \in Resource : Evict(r)

(* Every step is a goroutine's, main's or FlushLoop's. *)
LEMMA NextKinds ==
    ASSUME [Next]_vars
    PROVE  (Steps /\ Alive) \/ Reload \/ Stop \/ MainStep \/ Flush \/ UNCHANGED vars
<1>1. CASE Alive /\ \E g \in Crawler : CrawlerStep(g)
    BY <1>1, ThreadsOf DEF CrawlerStep, SlotStep, LockStep, Steps
<1>2. CASE Alive /\ \E h \in Handler : Arrive(h) \/ HandlerStep(h)
    BY <1>2, ThreadsOf DEF HandlerStep, SlotStep, LockStep, DispatchStep, Steps
<1>3. CASE Alive /\ SchedulerStep
    BY <1>3, ThreadsOf DEF SchedulerStep, LockStep, DispatchStep, Steps
<1>. QED
    BY <1>1, <1>2, <1>3 DEF Next

LEMMA NextIsStepOrAside ==
    ASSUME [Next]_vars
    PROVE  (Steps /\ Alive) \/ Aside
<1>1. Reload \/ Stop \/ MainStep \/ Flush => Aside
    BY DEF Reload, Stop, MainStep, Rebind, ShutdownReturns, CrawlLoopReturned, WaitCrawls,
       FinalSave, Exit, Flush, Aside
<1>2. UNCHANGED vars => Aside
    BY DEF vars, dispatchVars, lockVars, Aside
<1>. QED
    BY <1>1, <1>2, NextKinds

(* What goroutines do to the lock table is what the table expects of them. *)
LEMMA TableStep ==
    ASSUME TypeOK, WhereInv, LocksInv, [Next]_vars
    PROVE  [LockNext]_lockVars
<1>1. ASSUME NEW t \in Thread, pc[t] \in {"lock", "unlock"}
      PROVE  job[t] \in Resource
    BY <1>1 DEF WhereInv, Unemployed
<1>2. ASSUME NEW t \in Thread, LookupNext(t) \/ AcquireNext(t)
      PROVE  \E k \in Key : Lookup(t, k) \/ Acquire(t, k)
  <2>1. NextLock(t) \in Key
    BY <1>1, <1>2, RootIsKey DEF LookupNext, AcquireNext, NextLock
  <2>. QED
    BY <1>2, <2>1 DEF LookupNext, AcquireNext
<1>3. ASSUME NEW t \in Thread, UnlockLast(t) \/ UnrefLast(t)
      PROVE  \E k \in Key : Unlock(t, k) \/ Unref(t, k)
  <2>1. LastLock(t) \in Key
    BY <1>1, <1>3, RootIsKey DEF UnlockLast, UnrefLast, LastLock, LocksInv, LocksAt
  <2>. QED
    BY <1>3, <2>1 DEF UnlockLast, UnrefLast
<1>4. Steps => (\E t \in Thread : \/ LookupNext(t) \/ AcquireNext(t)
                                   \/ UnlockLast(t) \/ UnrefLast(t))
               \/ UNCHANGED lockVars
    BY DEF Steps, TakeSlot, SleepForSlot, ReleaseSlot, Broadcast, Work, Skip, StartCrawl, Spawn,
       Arrive, ProtectedCrawl, CheckContext, LeaveInflight, WaitGroupDone, ConsiderEntry, Evict
<1>. QED
    BY <1>2, <1>3, <1>4, NextIsStepOrAside DEF LockNext, Aside

LEMMA TableInv ==
    ASSUME TypeOK, WhereInv, LockInv, LocksInv, [Next]_vars
    PROVE  LockInv' /\ LockTypeOK'
BY TableStep, LockInvNext DEF LockInv

(* The places of each kind of goroutine, and what it is there for. *)
LEMMA WhereStep ==
    ASSUME TypeOK, WhereInv, [Next]_vars
    PROVE  WhereInv'
<1>. USE ThreadsOf DEF TypeOK, WhereInv, CrawlerPlace, HandlerPlace, LoopPlace, Unemployed
<1>1. ASSUME NEW t \in Crawler \cup Handler, TakeSlot(t) PROVE WhereInv'
    BY <1>1 DEF TakeSlot, Goto
<1>2. ASSUME NEW t \in Crawler \cup Handler, SleepForSlot(t) PROVE WhereInv'
    BY <1>2 DEF SleepForSlot, Goto
<1>3. ASSUME NEW t \in Crawler \cup Handler, ReleaseSlot(t) PROVE WhereInv'
    BY <1>3 DEF ReleaseSlot, Goto
<1>4. ASSUME NEW t \in Crawler \cup Handler, Broadcast(t) PROVE WhereInv'
    BY <1>4 DEF Broadcast
<1>5. ASSUME NEW t \in Thread, LookupNext(t) PROVE WhereInv'
    BY <1>5 DEF LookupNext, dispatchVars
<1>6. ASSUME NEW t \in Thread, AcquireNext(t) PROVE WhereInv'
    BY <1>6 DEF AcquireNext, Goto
<1>7. ASSUME NEW t \in Thread, Work(t) PROVE WhereInv'
    BY <1>7 DEF Work, Goto
<1>8. ASSUME NEW t \in Thread, UnlockLast(t) PROVE WhereInv'
    BY <1>8 DEF UnlockLast, dispatchVars
<1>9. ASSUME NEW t \in Thread, UnrefLast(t) PROVE WhereInv'
    BY <1>9 DEF UnrefLast, Goto
<1>10. ASSUME NEW t \in Handler \cup {Scheduler}, Skip(t) PROVE WhereInv'
    BY <1>10 DEF Skip, Goto
<1>11. ASSUME NEW t \in Handler \cup {Scheduler}, NEW r \in Resource, StartCrawl(t, r)
      PROVE WhereInv'
    BY <1>11 DEF StartCrawl, Goto
<1>12. ASSUME NEW t \in Handler \cup {Scheduler}, NEW g \in Crawler, Spawn(t, g) PROVE WhereInv'
    BY <1>12 DEF Spawn, Goto
<1>13. ASSUME NEW h \in Handler, Arrive(h) PROVE WhereInv'
    BY <1>13 DEF Arrive, Goto
<1>14. ASSUME NEW h \in Handler, NEW r \in Resource, ProtectedCrawl(h, r) PROVE WhereInv'
    BY <1>14 DEF ProtectedCrawl, Goto
<1>15. ASSUME NEW g \in Crawler, CheckContext(g) PROVE WhereInv'
    BY <1>15 DEF CheckContext, Goto
<1>16. ASSUME NEW g \in Crawler, LeaveInflight(g) PROVE WhereInv'
    BY <1>16 DEF LeaveInflight, Goto
<1>17. ASSUME NEW g \in Crawler, WaitGroupDone(g) PROVE WhereInv'
    BY <1>17 DEF WaitGroupDone, Goto
<1>18. CASE ConsiderEntry
    BY <1>18 DEF ConsiderEntry, Goto
<1>19. ASSUME NEW r \in Resource, Evict(r) PROVE WhereInv'
    BY <1>19 DEF Evict, Goto
<1>20. CASE Aside
    BY <1>20 DEF Aside
<1>. QED
    BY <1>1, <1>2, <1>3, <1>4, <1>5, <1>6, <1>7, <1>8, <1>9, <1>10, <1>11, <1>12, <1>13, <1>14,
       <1>15, <1>16, <1>17, <1>18, <1>19, <1>20, NextIsStepOrAside DEF Steps

(* Outside the places between lock and unlock a goroutine has none ...          *)
LEMMA LocksAtRest ==
    ASSUME NEW t \in Thread, LocksAt(t), pc[t] \notin {"lock", "crawl", "unlock"},
           pc'[t] \notin {"lock", "crawl", "unlock"}, at' = at
    PROVE  LocksAt(t)'
BY DEF LocksAt

(* ... and where it stays, it keeps those it has. *)
LEMMA LocksStay ==
    ASSUME NEW t \in Thread, LocksAt(t), pc'[t] = pc[t], job'[t] = job[t], at' = at
    PROVE  LocksAt(t)'
BY DEF LocksAt, LocksOf

(* The locks, each where its goroutine stands. *)
LEMMA LocksStep ==
    ASSUME TypeOK, WhereInv, LocksInv, [Next]_vars
    PROVE  LocksInv'
<1>. USE ThreadsOf, RootIsKey DEF TypeOK, LockTypeOK, LocksInv, Unemployed, WhereInv
<1>1. ASSUME NEW t \in Crawler \cup Handler, TakeSlot(t) PROVE LocksInv'
  <2>1. \A u \in Thread \ {t} : LocksAt(u)'
    BY <1>1 DEF TakeSlot, Goto, lockVars, LocksAt, LocksOf
  <2>2. LocksAt(t)'
    BY <1>1 DEF TakeSlot, Goto, lockVars, LocksAt, LocksOf
  <2>. QED
    BY <2>1, <2>2
<1>2. ASSUME NEW t \in Crawler \cup Handler, SleepForSlot(t) PROVE LocksInv'
    BY <1>2 DEF Goto, lockVars, LocksAt, SleepForSlot
<1>3. ASSUME NEW t \in Crawler \cup Handler, ReleaseSlot(t) PROVE LocksInv'
    BY <1>3 DEF Goto, lockVars, LocksAt, ReleaseSlot
<1>4. ASSUME NEW t \in Crawler \cup Handler, Broadcast(t) PROVE LocksInv'
    BY <1>4 DEF Broadcast, lockVars, LocksAt
<1>5. ASSUME NEW t \in Thread, LookupNext(t) PROVE LocksInv'
  <2>1. /\ job[t] \in Resource /\ pc[t] = "lock" /\ pc' = pc /\ job' = job
        /\ NextLock(t) \in Key /\ at[t][NextLock(t)] = "out"
        /\ at' = [at EXCEPT ![t][NextLock(t)] = "waiting"]
    BY <1>5 DEF LookupNext, dispatchVars, Lookup, LookupNew, LookupOld, NextLock
  <2>2. \A u \in Thread \ {t} : at'[u] = at[u]
    BY <2>1
  <2>3. /\ at'[t][NextLock(t)] = "waiting"
        /\ \A k \in Key \ {NextLock(t)} : at'[t][k] = at[t][k]
    BY <2>1
  <2>4. CASE NextLock(t) = job[t]
    BY <2>1, <2>3, <2>4 DEF NextLock, LocksAt, LocksOf
  <2>5. CASE NextLock(t) # job[t]
    <3>1. NextLock(t) = RootKey[job[t]] /\ RootKey[job[t]] # None
      BY <2>5 DEF NextLock
    <3>. QED
      BY <2>1, <2>2, <2>3, <3>1 DEF LocksAt, LocksOf
  <2>. QED
    BY <2>4, <2>5
<1>6. ASSUME NEW t \in Thread, AcquireNext(t) PROVE LocksInv'
  <2>1. /\ job[t] \in Resource /\ pc[t] = "lock" /\ job' = job
        /\ pc' = [pc EXCEPT ![t] = IF NextLock(t) = job[t] THEN "crawl" ELSE "lock"]
        /\ NextLock(t) \in Key /\ at[t][NextLock(t)] = "waiting"
        /\ at' = [at EXCEPT ![t][NextLock(t)] = "holding"]
    BY <1>6 DEF AcquireNext, Goto, Acquire, NextLock
  <2>2. \A u \in Thread \ {t} : at'[u] = at[u] /\ pc'[u] = pc[u]
    BY <2>1
  <2>3. /\ at'[t][NextLock(t)] = "holding"
        /\ \A k \in Key \ {NextLock(t)} : at'[t][k] = at[t][k]
    BY <2>1
  <2>4. CASE NextLock(t) = job[t]
    <3>1. pc'[t] = "crawl"
      BY <2>1, <2>4
    <3>2. RootKey[job[t]] # None => at[t][RootKey[job[t]]] = "holding"
      BY <2>4 DEF NextLock
    <3>. QED
      BY <2>1, <2>2, <2>3, <2>4, <3>1, <3>2 DEF LocksAt, LocksOf
  <2>5. CASE NextLock(t) # job[t]
    <3>1. NextLock(t) = RootKey[job[t]] /\ RootKey[job[t]] # None /\ pc'[t] = "lock"
      BY <2>1, <2>5 DEF NextLock
    <3>. QED
      BY <2>1, <2>2, <2>3, <3>1 DEF LocksAt, LocksOf
  <2>. QED
    BY <2>4, <2>5
<1>7. ASSUME NEW t \in Thread, Work(t) PROVE LocksInv'
  <2>1. \A u \in Thread \ {t} : LocksAt(u)'
    BY <1>7 DEF Work, Goto, lockVars, LocksAt, LocksOf
  <2>2. LocksAt(t)'
    BY <1>7 DEF Work, Goto, lockVars, LocksAt, LocksOf
  <2>. QED
    BY <2>1, <2>2
<1>8. ASSUME NEW t \in Thread, UnlockLast(t) PROVE LocksInv'
  <2>1. \A u \in Thread \ {t} : LocksAt(u)'
    BY <1>8 DEF UnlockLast, dispatchVars, Unlock, LastLock, LocksAt, LocksOf
  <2>2. LocksAt(t)'
    BY <1>8 DEF UnlockLast, dispatchVars, Unlock, LastLock, LocksAt, LocksOf
  <2>. QED
    BY <2>1, <2>2
<1>9. ASSUME NEW t \in Thread, UnrefLast(t) PROVE LocksInv'
  <2>1. \A u \in Thread \ {t} : LocksAt(u)'
    BY <1>9 DEF UnrefLast, Goto, Unref, LastLock, OutermostLock, LocksAt, LocksOf
  <2>2. LocksAt(t)'
    BY <1>9 DEF UnrefLast, Goto, Unref, LastLock, OutermostLock, LocksAt, LocksOf
  <2>. QED
    BY <2>1, <2>2
<1>10. ASSUME NEW t \in Handler \cup {Scheduler}, Skip(t) PROVE LocksInv'
    BY <1>10 DEF Goto, lockVars, LocksAt, Skip
<1>11. ASSUME NEW t \in Handler \cup {Scheduler}, NEW r \in Resource, StartCrawl(t, r)
      PROVE LocksInv'
    BY <1>11 DEF Goto, lockVars, LocksAt, StartCrawl
<1>12. ASSUME NEW t \in Handler \cup {Scheduler}, NEW g \in Crawler, Spawn(t, g) PROVE LocksInv'
  <2>1. /\ \A u \in Thread \ {t, g} : pc'[u] = pc[u] /\ job'[u] = job[u]
        /\ pc'[t] = "idle" /\ pc'[g] = "slot"
    BY <1>12 DEF Spawn
  <2>2. at' = at
    BY <1>12 DEF Spawn, lockVars
  <2>3. pc[t] = "spawn" /\ pc[g] = "idle" /\ t \in Thread /\ g \in Thread
    BY <1>12 DEF Spawn
  <2>4. LocksAt(t)' /\ LocksAt(g)'
    BY <2>1, <2>2, <2>3, LocksAtRest
  <2>5. ASSUME NEW u \in Thread \ {t, g} PROVE LocksAt(u)'
    BY <2>1, <2>2, LocksStay
  <2>. QED
    BY <2>4, <2>5
<1>13. ASSUME NEW h \in Handler, Arrive(h) PROVE LocksInv'
    BY <1>13 DEF Goto, lockVars, LocksAt, Arrive
<1>14. ASSUME NEW h \in Handler, NEW r \in Resource, ProtectedCrawl(h, r) PROVE LocksInv'
    BY <1>14 DEF ProtectedCrawl, Goto, lockVars, LocksAt
<1>15. ASSUME NEW g \in Crawler, CheckContext(g) PROVE LocksInv'
  <2>1. /\ pc[g] = "start" /\ pc'[g] \in {"release", "lock"} /\ job[g] \in Resource
        /\ \A u \in Thread \ {g} : pc'[u] = pc[u]
    BY <1>15 DEF CheckContext, Goto
  <2>2. job' = job /\ at' = at
    BY <1>15 DEF CheckContext, lockVars
  <2>3. \A k \in Key : at[g][k] = "out"
    BY <2>1 DEF LocksAt
  <2>. QED
    BY <2>1, <2>2, <2>3 DEF LocksAt, LocksOf
<1>16. ASSUME NEW g \in Crawler, LeaveInflight(g) PROVE LocksInv'
    BY <1>16 DEF Goto, lockVars, LocksAt, LeaveInflight
<1>17. ASSUME NEW g \in Crawler, WaitGroupDone(g) PROVE LocksInv'
    BY <1>17 DEF Goto, lockVars, LocksAt, WaitGroupDone
<1>18. CASE ConsiderEntry
    BY <1>18 DEF Goto, lockVars, LocksAt, ConsiderEntry
<1>19. ASSUME NEW r \in Resource, Evict(r) PROVE LocksInv'
  <2>1. \A u \in Thread \ {Scheduler} : LocksAt(u)'
    BY <1>19 DEF Evict, Goto, lockVars, LocksAt, LocksOf
  <2>2. LocksAt(Scheduler)'
    BY <1>19 DEF Evict, Goto, lockVars, LocksAt, LocksOf
  <2>. QED
    BY <2>1, <2>2
<1>20. CASE Aside
    BY <1>20 DEF Aside, lockVars, LocksAt, LocksOf
<1>. QED
    BY <1>1, <1>2, <1>3, <1>4, <1>5, <1>6, <1>7, <1>8, <1>9, <1>10, <1>11, <1>12, <1>13, <1>14,
       <1>15, <1>16, <1>17, <1>18, <1>19, <1>20, NextIsStepOrAside DEF Steps

(* Slots and the crawls underway are counted in finite sets. *)
LEMMA CountsFinite ==
    /\ IsFiniteSet(Holders) /\ Cardinality(Holders) \in Nat
    /\ IsFiniteSet(Crawls) /\ Cardinality(Crawls) \in Nat
<1>1. Holders \subseteq Thread /\ Crawls \subseteq Thread
    BY ThreadsOf DEF Holders, Crawls
<1>. QED
    BY <1>1, FS_Subset, FS_CardinalityType, LockTableAssumption

(* A slot is counted from the step that takes it to the step that gives it back. *)
LEMMA SlotsStep ==
    ASSUME TypeOK, WhereInv, SlotsExact, [Next]_vars
    PROVE  SlotsExact'
<1>. USE ThreadsOf DEF TypeOK, WhereInv, CrawlerPlace, HandlerPlace, LoopPlace, SlotsExact
<1>1. ASSUME NEW t \in Crawler \cup Handler, TakeSlot(t) PROVE SlotsExact'
  <2>1. Holders' = Holders \cup {t} /\ t \notin Holders
    BY <1>1 DEF TakeSlot, Goto, HasSlot, Holders
  <2>2. Cardinality(Holders') = Cardinality(Holders) + 1
    BY <2>1, CountsFinite, FS_AddElement
  <2>3. slotsInUse' = slotsInUse + 1
    BY <1>1 DEF TakeSlot
  <2>4. slotsInUse + 1 <= limit
    <3>1. slotsInUse < limit /\ limit \in Nat
      BY <1>1, CrawlDispatchAssumption DEF TakeSlot
    <3>. QED
      BY <3>1
  <2>5. slotsInUse = Cardinality(Holders)
    BY DEF Holders
  <2>6. slotsInUse' = Cardinality(Holders')
    BY <2>2, <2>3, <2>5
  <2>. QED
    BY <2>3, <2>4, <2>6 DEF Holders
<1>2. ASSUME NEW t \in Crawler \cup Handler, SleepForSlot(t) PROVE SlotsExact'
    BY <1>2 DEF HasSlot, Goto, SleepForSlot
<1>3. ASSUME NEW t \in Crawler \cup Handler, ReleaseSlot(t) PROVE SlotsExact'
  <2>1. Holders' = Holders \ {t} /\ t \in Holders
    BY <1>3 DEF ReleaseSlot, Goto, HasSlot, Holders
  <2>2. Cardinality(Holders') = Cardinality(Holders) - 1
    BY <2>1, CountsFinite, FS_RemoveElement
  <2>3. slotsInUse' = slotsInUse - 1
    BY <1>3 DEF ReleaseSlot
  <2>4. PICK n \in Limits : slotsInUse <= n
    OBVIOUS
  <2>5. slotsInUse - 1 <= n
    BY <2>4, CrawlDispatchAssumption
  <2>6. slotsInUse = Cardinality(Holders)
    BY DEF Holders
  <2>7. slotsInUse' = Cardinality(Holders')
    BY <2>2, <2>3, <2>6
  <2>. QED
    BY <2>3, <2>5, <2>7 DEF Holders
<1>4. ASSUME NEW t \in Crawler \cup Handler, Broadcast(t) PROVE SlotsExact'
    BY <1>4 DEF Broadcast, HasSlot
<1>5. ASSUME NEW t \in Thread, LookupNext(t) PROVE SlotsExact'
    BY <1>5 DEF LookupNext, dispatchVars, HasSlot
<1>6. ASSUME NEW t \in Thread, AcquireNext(t) PROVE SlotsExact'
    BY <1>6 DEF HasSlot, Goto, AcquireNext
<1>7. ASSUME NEW t \in Thread, Work(t) PROVE SlotsExact'
    BY <1>7 DEF HasSlot, Goto, Work
<1>8. ASSUME NEW t \in Thread, UnlockLast(t) PROVE SlotsExact'
    BY <1>8 DEF UnlockLast, dispatchVars, HasSlot
<1>9. ASSUME NEW t \in Thread, UnrefLast(t) PROVE SlotsExact'
    BY <1>9 DEF HasSlot, Goto, UnrefLast
<1>10. ASSUME NEW t \in Handler \cup {Scheduler}, Skip(t) PROVE SlotsExact'
    BY <1>10 DEF HasSlot, Goto, Skip
<1>11. ASSUME NEW t \in Handler \cup {Scheduler}, NEW r \in Resource, StartCrawl(t, r)
      PROVE SlotsExact'
    BY <1>11 DEF HasSlot, Goto, StartCrawl
<1>12. ASSUME NEW t \in Handler \cup {Scheduler}, NEW g \in Crawler, Spawn(t, g)
      PROVE SlotsExact'
    BY <1>12 DEF HasSlot, Goto, Spawn
<1>13. ASSUME NEW h \in Handler, Arrive(h) PROVE SlotsExact'
    BY <1>13 DEF HasSlot, Goto, Arrive
<1>14. ASSUME NEW h \in Handler, NEW r \in Resource, ProtectedCrawl(h, r) PROVE SlotsExact'
    BY <1>14 DEF HasSlot, Goto, ProtectedCrawl
<1>15. ASSUME NEW g \in Crawler, CheckContext(g) PROVE SlotsExact'
    BY <1>15 DEF HasSlot, Goto, CheckContext
<1>16. ASSUME NEW g \in Crawler, LeaveInflight(g) PROVE SlotsExact'
    BY <1>16 DEF HasSlot, Goto, LeaveInflight
<1>17. ASSUME NEW g \in Crawler, WaitGroupDone(g) PROVE SlotsExact'
    BY <1>17 DEF HasSlot, Goto, WaitGroupDone
<1>18. CASE ConsiderEntry
    BY <1>18 DEF HasSlot, Goto, ConsiderEntry
<1>19. ASSUME NEW r \in Resource, Evict(r) PROVE SlotsExact'
    BY <1>19 DEF HasSlot, Goto, Evict
<1>20. CASE Aside
    BY <1>20 DEF Aside, HasSlot
<1>. QED
    BY <1>1, <1>2, <1>3, <1>4, <1>5, <1>6, <1>7, <1>8, <1>9, <1>10, <1>11, <1>12, <1>13, <1>14,
       <1>15, <1>16, <1>17, <1>18, <1>19, <1>20, NextIsStepOrAside DEF Steps

LEMMA SetsOfThreads ==
    ASSUME NEW S, S \subseteq Thread
    PROVE  IsFiniteSet(S) /\ Cardinality(S) \in Nat
BY FS_Subset, FS_CardinalityType, LockTableAssumption

(* Whoever falls asleep saw every slot taken, and whoever gives one back wakes the sleepers. *)
LEMMA SleepersStep ==
    ASSUME TypeOK, WhereInv, SlotsExact, SleepersWoken, [Next]_vars
    PROVE  SleepersWoken'
<1>. USE ThreadsOf DEF TypeOK, WhereInv, CrawlerPlace, HandlerPlace, LoopPlace, Unemployed,
        SleepersWoken
<1>1. ASSUME NEW t \in Crawler \cup Handler, TakeSlot(t) PROVE SleepersWoken'
    BY <1>1 DEF HasSlot, Goto, TakeSlot
<1>2. ASSUME NEW t \in Crawler \cup Handler, SleepForSlot(t) PROVE SleepersWoken'
  <2>1. slotsInUse = Cardinality(Holders) /\ slotsInUse >= limit /\ limit \in Nat \ {0}
    BY <1>2, CrawlDispatchAssumption DEF SleepForSlot, SlotsExact, Holders
  <2>2. PICK u \in Thread : HasSlot(u)
    <3>1. Cardinality(Holders) # 0
      BY <2>1
    <3>. QED
      BY <3>1, FS_EmptySet DEF Holders
  <2>3. HasSlot(u)'
    BY <1>2, <2>2 DEF SleepForSlot, Goto, HasSlot
  <2>. QED
    BY <2>3
<1>3. ASSUME NEW t \in Crawler \cup Handler, ReleaseSlot(t) PROVE SleepersWoken'
    BY <1>3 DEF HasSlot, Goto, ReleaseSlot
<1>4. ASSUME NEW t \in Crawler \cup Handler, Broadcast(t) PROVE SleepersWoken'
    BY <1>4 DEF HasSlot, Broadcast
<1>5. ASSUME NEW t \in Thread, LookupNext(t) PROVE SleepersWoken'
    BY <1>5 DEF HasSlot, dispatchVars, LookupNext
<1>6. ASSUME NEW t \in Thread, AcquireNext(t) PROVE SleepersWoken'
    BY <1>6 DEF HasSlot, Goto, AcquireNext
<1>7. ASSUME NEW t \in Thread, Work(t) PROVE SleepersWoken'
    BY <1>7 DEF HasSlot, Goto, Work
<1>8. ASSUME NEW t \in Thread, UnlockLast(t) PROVE SleepersWoken'
    BY <1>8 DEF HasSlot, dispatchVars, UnlockLast
<1>9. ASSUME NEW t \in Thread, UnrefLast(t) PROVE SleepersWoken'
    BY <1>9 DEF HasSlot, Goto, UnrefLast
<1>10. ASSUME NEW t \in Handler \cup {Scheduler}, Skip(t) PROVE SleepersWoken'
    BY <1>10 DEF HasSlot, Goto, Skip
<1>11. ASSUME NEW t \in Handler \cup {Scheduler}, NEW r \in Resource, StartCrawl(t, r)
      PROVE SleepersWoken'
    BY <1>11 DEF HasSlot, Goto, StartCrawl
<1>12. ASSUME NEW t \in Handler \cup {Scheduler}, NEW g \in Crawler, Spawn(t, g)
      PROVE SleepersWoken'
    BY <1>12 DEF HasSlot, Goto, Spawn
<1>13. ASSUME NEW h \in Handler, Arrive(h) PROVE SleepersWoken'
    BY <1>13 DEF HasSlot, Goto, Arrive
<1>14. ASSUME NEW h \in Handler, NEW r \in Resource, ProtectedCrawl(h, r) PROVE SleepersWoken'
    BY <1>14 DEF HasSlot, Goto, ProtectedCrawl
<1>15. ASSUME NEW g \in Crawler, CheckContext(g) PROVE SleepersWoken'
    BY <1>15 DEF HasSlot, Goto, CheckContext
<1>16. ASSUME NEW g \in Crawler, LeaveInflight(g) PROVE SleepersWoken'
    BY <1>16 DEF HasSlot, Goto, LeaveInflight
<1>17. ASSUME NEW g \in Crawler, WaitGroupDone(g) PROVE SleepersWoken'
    BY <1>17 DEF HasSlot, Goto, WaitGroupDone
<1>18. CASE ConsiderEntry
    BY <1>18 DEF HasSlot, Goto, ConsiderEntry
<1>19. ASSUME NEW r \in Resource, Evict(r) PROVE SleepersWoken'
    BY <1>19 DEF HasSlot, Goto, Evict
<1>20. CASE Aside
    BY <1>20 DEF HasSlot, Aside
<1>. QED
    BY <1>1, <1>2, <1>3, <1>4, <1>5, <1>6, <1>7, <1>8, <1>9, <1>10, <1>11, <1>12, <1>13, <1>14,
       <1>15, <1>16, <1>17, <1>18, <1>19, <1>20, NextIsStepOrAside DEF Steps

\* The goroutines a mark of the in-flight set stands for.
Flying(t) == \/ pc[t] = "spawn"
             \/ t \in Crawler /\ pc[t] \notin {"idle", "done"}

LEMMA FlightFrame ==
    ASSUME SingleFlight, inflight' = inflight,
           \A t \in Thread : Flying(t)' = Flying(t) /\ (Flying(t) => job'[t] = job[t])
    PROVE  SingleFlight'
BY DEF SingleFlight, Flying

(* A key is marked by its dispatcher and unmarked by the crawl it started. *)
LEMMA FlightStep ==
    ASSUME TypeOK, WhereInv, SingleFlight, [Next]_vars
    PROVE  SingleFlight'
<1>. USE ThreadsOf DEF TypeOK, WhereInv, CrawlerPlace, HandlerPlace, LoopPlace, Unemployed
<1>1. ASSUME NEW t \in Crawler \cup Handler, TakeSlot(t) PROVE SingleFlight'
  <2>1. \A u \in Thread : Flying(u)' = Flying(u) /\ (Flying(u) => job'[u] = job[u])
    BY <1>1 DEF Flying, Goto, TakeSlot
  <2>2. inflight' = inflight
    BY <1>1 DEF TakeSlot
  <2>. QED
    BY <2>1, <2>2, FlightFrame
<1>2. ASSUME NEW t \in Crawler \cup Handler, SleepForSlot(t) PROVE SingleFlight'
  <2>1. \A u \in Thread : Flying(u)' = Flying(u) /\ (Flying(u) => job'[u] = job[u])
    BY <1>2 DEF Flying, Goto, SleepForSlot
  <2>2. inflight' = inflight
    BY <1>2 DEF SleepForSlot
  <2>. QED
    BY <2>1, <2>2, FlightFrame
<1>3. ASSUME NEW t \in Crawler \cup Handler, ReleaseSlot(t) PROVE SingleFlight'
  <2>1. \A u \in Thread : Flying(u)' = Flying(u) /\ (Flying(u) => job'[u] = job[u])
    BY <1>3 DEF Flying, Goto, ReleaseSlot
  <2>2. inflight' = inflight
    BY <1>3 DEF ReleaseSlot
  <2>. QED
    BY <2>1, <2>2, FlightFrame
<1>4. ASSUME NEW t \in Crawler \cup Handler, Broadcast(t) PROVE SingleFlight'
  <2>1. \A u \in Thread : Flying(u)' = Flying(u) /\ (Flying(u) => job'[u] = job[u])
    BY <1>4 DEF Flying, Broadcast
  <2>2. inflight' = inflight
    BY <1>4 DEF Broadcast
  <2>. QED
    BY <2>1, <2>2, FlightFrame
<1>5. ASSUME NEW t \in Thread, LookupNext(t) PROVE SingleFlight'
  <2>1. \A u \in Thread : Flying(u)' = Flying(u) /\ (Flying(u) => job'[u] = job[u])
    BY <1>5 DEF Flying, dispatchVars, LookupNext
  <2>2. inflight' = inflight
    BY <1>5 DEF dispatchVars, LookupNext
  <2>. QED
    BY <2>1, <2>2, FlightFrame
<1>6. ASSUME NEW t \in Thread, AcquireNext(t) PROVE SingleFlight'
  <2>1. \A u \in Thread : Flying(u)' = Flying(u) /\ (Flying(u) => job'[u] = job[u])
    BY <1>6 DEF Flying, Goto, AcquireNext
  <2>2. inflight' = inflight
    BY <1>6 DEF AcquireNext
  <2>. QED
    BY <2>1, <2>2, FlightFrame
<1>7. ASSUME NEW t \in Thread, Work(t) PROVE SingleFlight'
  <2>1. \A u \in Thread : Flying(u)' = Flying(u) /\ (Flying(u) => job'[u] = job[u])
    BY <1>7 DEF Flying, Goto, Work
  <2>2. inflight' = inflight
    BY <1>7 DEF Work
  <2>. QED
    BY <2>1, <2>2, FlightFrame
<1>8. ASSUME NEW t \in Thread, UnlockLast(t) PROVE SingleFlight'
  <2>1. \A u \in Thread : Flying(u)' = Flying(u) /\ (Flying(u) => job'[u] = job[u])
    BY <1>8 DEF Flying, dispatchVars, UnlockLast
  <2>2. inflight' = inflight
    BY <1>8 DEF dispatchVars, UnlockLast
  <2>. QED
    BY <2>1, <2>2, FlightFrame
<1>9. ASSUME NEW t \in Thread, UnrefLast(t) PROVE SingleFlight'
  <2>1. \A u \in Thread : Flying(u)' = Flying(u) /\ (Flying(u) => job'[u] = job[u])
    BY <1>9 DEF Flying, Goto, UnrefLast
  <2>2. inflight' = inflight
    BY <1>9 DEF UnrefLast
  <2>. QED
    BY <2>1, <2>2, FlightFrame
<1>10. ASSUME NEW t \in Handler \cup {Scheduler}, Skip(t) PROVE SingleFlight'
  <2>1. \A u \in Thread : Flying(u)' = Flying(u) /\ (Flying(u) => job'[u] = job[u])
    BY <1>10 DEF Flying, Goto, Skip
  <2>2. inflight' = inflight
    BY <1>10 DEF Skip
  <2>. QED
    BY <2>1, <2>2, FlightFrame
<1>11. ASSUME NEW t \in Handler \cup {Scheduler}, NEW r \in Resource, StartCrawl(t, r)
      PROVE SingleFlight'
  <2>1. CASE r \in inflight
    <3>1. \A u \in Thread : Flying(u)' = Flying(u) /\ (Flying(u) => job'[u] = job[u])
      BY <1>11, <2>1 DEF StartCrawl, Goto, Flying
    <3>. QED
      BY <1>11, <2>1, <3>1, FlightFrame DEF StartCrawl
  <2>2. CASE r \notin inflight
    <3>1. /\ inflight' = inflight \cup {r} /\ job'[t] = r /\ Flying(t)' /\ ~Flying(t)
          /\ \A u \in Thread \ {t} : Flying(u)' = Flying(u) /\ job'[u] = job[u]
      BY <1>11, <2>2 DEF StartCrawl, Goto, Flying
    <3>. QED
      BY <2>2, <3>1 DEF SingleFlight, Flying
  <2>. QED
    BY <2>1, <2>2
<1>12. ASSUME NEW t \in Handler \cup {Scheduler}, NEW g \in Crawler, Spawn(t, g)
      PROVE SingleFlight'
  <2>1. /\ Flying(t) /\ ~Flying(g) /\ ~Flying(t)' /\ Flying(g)'
        /\ inflight' = inflight /\ job'[g] = job[t]
        /\ \A u \in Thread \ {t, g} : Flying(u)' = Flying(u) /\ job'[u] = job[u]
    BY <1>12 DEF Spawn, Flying
  <2>. QED
    BY <2>1 DEF SingleFlight, Flying
<1>13. ASSUME NEW h \in Handler, Arrive(h) PROVE SingleFlight'
  <2>1. \A u \in Thread : Flying(u)' = Flying(u) /\ (Flying(u) => job'[u] = job[u])
    BY <1>13 DEF Flying, Goto, Arrive
  <2>2. inflight' = inflight
    BY <1>13 DEF Arrive
  <2>. QED
    BY <2>1, <2>2, FlightFrame
<1>14. ASSUME NEW h \in Handler, NEW r \in Resource, ProtectedCrawl(h, r) PROVE SingleFlight'
  <2>1. \A u \in Thread : Flying(u)' = Flying(u) /\ (Flying(u) => job'[u] = job[u])
    BY <1>14 DEF Flying, Goto, ProtectedCrawl
  <2>2. inflight' = inflight
    BY <1>14 DEF ProtectedCrawl
  <2>. QED
    BY <2>1, <2>2, FlightFrame
<1>15. ASSUME NEW g \in Crawler, CheckContext(g) PROVE SingleFlight'
  <2>1. \A u \in Thread : Flying(u)' = Flying(u) /\ (Flying(u) => job'[u] = job[u])
    BY <1>15 DEF Flying, Goto, CheckContext
  <2>2. inflight' = inflight
    BY <1>15 DEF CheckContext
  <2>. QED
    BY <2>1, <2>2, FlightFrame
<1>16. ASSUME NEW g \in Crawler, LeaveInflight(g) PROVE SingleFlight'
  <2>1. /\ Flying(g) /\ ~Flying(g)' /\ inflight' = inflight \ {job[g]} /\ job' = job
        /\ \A u \in Thread \ {g} : Flying(u)' = Flying(u)
    BY <1>16 DEF LeaveInflight, Goto, Flying
  <2>. QED
    BY <2>1 DEF SingleFlight, Flying
<1>17. ASSUME NEW g \in Crawler, WaitGroupDone(g) PROVE SingleFlight'
  <2>1. \A u \in Thread : Flying(u)' = Flying(u) /\ (Flying(u) => job'[u] = job[u])
    BY <1>17 DEF Flying, Goto, WaitGroupDone
  <2>2. inflight' = inflight
    BY <1>17 DEF WaitGroupDone
  <2>. QED
    BY <2>1, <2>2, FlightFrame
<1>18. CASE ConsiderEntry
  <2>1. \A u \in Thread : Flying(u)' = Flying(u) /\ (Flying(u) => job'[u] = job[u])
    BY <1>18 DEF Flying, Goto, ConsiderEntry
  <2>2. inflight' = inflight
    BY <1>18 DEF ConsiderEntry
  <2>. QED
    BY <2>1, <2>2, FlightFrame
<1>19. ASSUME NEW r \in Resource, Evict(r) PROVE SingleFlight'
  <2>1. \A u \in Thread : Flying(u)' = Flying(u) /\ (Flying(u) => job'[u] = job[u])
    BY <1>19 DEF Flying, Goto, Evict
  <2>2. inflight' = inflight
    BY <1>19 DEF Evict
  <2>. QED
    BY <2>1, <2>2, FlightFrame
<1>20. CASE Aside
  <2>1. \A u \in Thread : Flying(u)' = Flying(u) /\ (Flying(u) => job'[u] = job[u])
    BY <1>20 DEF Flying, Aside
  <2>2. inflight' = inflight
    BY <1>20 DEF Aside
  <2>. QED
    BY <2>1, <2>2, FlightFrame
<1>. QED
    BY <1>1, <1>2, <1>3, <1>4, <1>5, <1>6, <1>7, <1>8, <1>9, <1>10, <1>11, <1>12, <1>13, <1>14,
       <1>15, <1>16, <1>17, <1>18, <1>19, <1>20, NextIsStepOrAside DEF Steps

(* The wait group counts a crawl from its go statement to its last step. *)
LEMMA WaitGroupStep ==
    ASSUME TypeOK, WhereInv, WaitGroupExact, [Next]_vars
    PROVE  WaitGroupExact'
<1>. USE ThreadsOf DEF TypeOK, WhereInv, CrawlerPlace, HandlerPlace, LoopPlace, Unemployed,
        WaitGroupExact
<1>1. ASSUME NEW t \in Crawler \cup Handler, TakeSlot(t) PROVE WaitGroupExact'
  <2>1. Crawls' = Crawls
    BY <1>1 DEF Crawls, Underway, Goto, TakeSlot
  <2>. QED
    BY <1>1, <2>1 DEF TakeSlot
<1>2. ASSUME NEW t \in Crawler \cup Handler, SleepForSlot(t) PROVE WaitGroupExact'
  <2>1. Crawls' = Crawls
    BY <1>2 DEF Crawls, Underway, Goto, SleepForSlot
  <2>. QED
    BY <1>2, <2>1 DEF SleepForSlot
<1>3. ASSUME NEW t \in Crawler \cup Handler, ReleaseSlot(t) PROVE WaitGroupExact'
  <2>1. Crawls' = Crawls
    BY <1>3 DEF Crawls, Underway, Goto, ReleaseSlot
  <2>. QED
    BY <1>3, <2>1 DEF ReleaseSlot
<1>4. ASSUME NEW t \in Crawler \cup Handler, Broadcast(t) PROVE WaitGroupExact'
  <2>1. Crawls' = Crawls
    BY <1>4 DEF Crawls, Underway, Broadcast
  <2>. QED
    BY <1>4, <2>1 DEF Broadcast
<1>5. ASSUME NEW t \in Thread, LookupNext(t) PROVE WaitGroupExact'
  <2>1. Crawls' = Crawls
    BY <1>5 DEF Crawls, Underway, dispatchVars, LookupNext
  <2>. QED
    BY <1>5, <2>1 DEF dispatchVars, LookupNext
<1>6. ASSUME NEW t \in Thread, AcquireNext(t) PROVE WaitGroupExact'
  <2>1. Crawls' = Crawls
    BY <1>6 DEF Crawls, Underway, Goto, AcquireNext
  <2>. QED
    BY <1>6, <2>1 DEF AcquireNext
<1>7. ASSUME NEW t \in Thread, Work(t) PROVE WaitGroupExact'
  <2>1. Crawls' = Crawls
    BY <1>7 DEF Crawls, Underway, Goto, Work
  <2>. QED
    BY <1>7, <2>1 DEF Work
<1>8. ASSUME NEW t \in Thread, UnlockLast(t) PROVE WaitGroupExact'
  <2>1. Crawls' = Crawls
    BY <1>8 DEF Crawls, Underway, dispatchVars, UnlockLast
  <2>. QED
    BY <1>8, <2>1 DEF dispatchVars, UnlockLast
<1>9. ASSUME NEW t \in Thread, UnrefLast(t) PROVE WaitGroupExact'
  <2>1. Crawls' = Crawls
    BY <1>9 DEF Crawls, Underway, Goto, UnrefLast
  <2>. QED
    BY <1>9, <2>1 DEF UnrefLast
<1>10. ASSUME NEW t \in Handler \cup {Scheduler}, Skip(t) PROVE WaitGroupExact'
  <2>1. Crawls' = Crawls
    BY <1>10 DEF Crawls, Underway, Goto, Skip
  <2>. QED
    BY <1>10, <2>1 DEF Skip
<1>11. ASSUME NEW t \in Handler \cup {Scheduler}, NEW r \in Resource, StartCrawl(t, r)
      PROVE WaitGroupExact'
  <2>1. Crawls' = Crawls
    BY <1>11 DEF Crawls, Underway, Goto, StartCrawl
  <2>. QED
    BY <1>11, <2>1 DEF StartCrawl
<1>12. ASSUME NEW t \in Handler \cup {Scheduler}, NEW g \in Crawler, Spawn(t, g)
      PROVE WaitGroupExact'
  <2>1. Crawls' = Crawls \cup {g} /\ g \notin Crawls
    BY <1>12 DEF Spawn, Crawls, Underway
  <2>2. Cardinality(Crawls') = Cardinality(Crawls) + 1
    BY <2>1, CountsFinite, FS_AddElement
  <2>. QED
    BY <1>12, <2>2 DEF Spawn
<1>13. ASSUME NEW h \in Handler, Arrive(h) PROVE WaitGroupExact'
  <2>1. Crawls' = Crawls
    BY <1>13 DEF Crawls, Underway, Goto, Arrive
  <2>. QED
    BY <1>13, <2>1 DEF Arrive
<1>14. ASSUME NEW h \in Handler, NEW r \in Resource, ProtectedCrawl(h, r) PROVE WaitGroupExact'
  <2>1. Crawls' = Crawls
    BY <1>14 DEF Crawls, Underway, Goto, ProtectedCrawl
  <2>. QED
    BY <1>14, <2>1 DEF ProtectedCrawl
<1>15. ASSUME NEW g \in Crawler, CheckContext(g) PROVE WaitGroupExact'
  <2>1. Crawls' = Crawls
    BY <1>15 DEF Crawls, Underway, Goto, CheckContext
  <2>. QED
    BY <1>15, <2>1 DEF CheckContext
<1>16. ASSUME NEW g \in Crawler, LeaveInflight(g) PROVE WaitGroupExact'
  <2>1. Crawls' = Crawls
    BY <1>16 DEF Crawls, Underway, Goto, LeaveInflight
  <2>. QED
    BY <1>16, <2>1 DEF LeaveInflight
<1>17. ASSUME NEW g \in Crawler, WaitGroupDone(g) PROVE WaitGroupExact'
  <2>1. Crawls' = Crawls \ {g} /\ g \in Crawls
    BY <1>17 DEF WaitGroupDone, Goto, Crawls, Underway
  <2>2. Cardinality(Crawls') = Cardinality(Crawls) - 1
    BY <2>1, CountsFinite, FS_RemoveElement
  <2>. QED
    BY <1>17, <2>2 DEF WaitGroupDone
<1>18. CASE ConsiderEntry
  <2>1. Crawls' = Crawls
    BY <1>18 DEF Crawls, Underway, Goto, ConsiderEntry
  <2>. QED
    BY <1>18, <2>1 DEF ConsiderEntry
<1>19. ASSUME NEW r \in Resource, Evict(r) PROVE WaitGroupExact'
  <2>1. Crawls' = Crawls
    BY <1>19 DEF Crawls, Underway, Goto, Evict
  <2>. QED
    BY <1>19, <2>1 DEF Evict
<1>20. CASE Aside
  <2>1. Crawls' = Crawls
    BY <1>20 DEF Crawls, Underway, Aside
  <2>. QED
    BY <1>20, <2>1 DEF Aside
<1>. QED
    BY <1>1, <1>2, <1>3, <1>4, <1>5, <1>6, <1>7, <1>8, <1>9, <1>10, <1>11, <1>12, <1>13, <1>14,
       <1>15, <1>16, <1>17, <1>18, <1>19, <1>20, NextIsStepOrAside DEF Steps

\* What main and FlushLoop alone change.
Outside == <<limit, phase, flushing>>

(* A goroutine's step leaves to main what is main's, and dirties the store only in a crawl. *)
LEMMA StepsOutside ==
    ASSUME Steps
    PROVE  UNCHANGED Outside /\ (dirty' # dirty => dirty' /\ \E u \in Thread : pc[u] = "crawl")
<1>. USE ThreadsOf DEF Outside
<1>1. ASSUME NEW t \in Crawler \cup Handler, TakeSlot(t)
      PROVE UNCHANGED Outside /\ (dirty' # dirty => dirty' /\ \E u \in Thread : pc[u] = "crawl")
    BY <1>1 DEF TakeSlot
<1>2. ASSUME NEW t \in Crawler \cup Handler, SleepForSlot(t)
      PROVE UNCHANGED Outside /\ (dirty' # dirty => dirty' /\ \E u \in Thread : pc[u] = "crawl")
    BY <1>2 DEF SleepForSlot
<1>3. ASSUME NEW t \in Crawler \cup Handler, ReleaseSlot(t)
      PROVE UNCHANGED Outside /\ (dirty' # dirty => dirty' /\ \E u \in Thread : pc[u] = "crawl")
    BY <1>3 DEF ReleaseSlot
<1>4. ASSUME NEW t \in Crawler \cup Handler, Broadcast(t)
      PROVE UNCHANGED Outside /\ (dirty' # dirty => dirty' /\ \E u \in Thread : pc[u] = "crawl")
    BY <1>4 DEF Broadcast
<1>5. ASSUME NEW t \in Thread, LookupNext(t)
      PROVE UNCHANGED Outside /\ (dirty' # dirty => dirty' /\ \E u \in Thread : pc[u] = "crawl")
    BY <1>5 DEF dispatchVars, LookupNext
<1>6. ASSUME NEW t \in Thread, AcquireNext(t)
      PROVE UNCHANGED Outside /\ (dirty' # dirty => dirty' /\ \E u \in Thread : pc[u] = "crawl")
    BY <1>6 DEF AcquireNext
<1>7. ASSUME NEW t \in Thread, Work(t)
      PROVE UNCHANGED Outside /\ (dirty' # dirty => dirty' /\ \E u \in Thread : pc[u] = "crawl")
    BY <1>7 DEF Work
<1>8. ASSUME NEW t \in Thread, UnlockLast(t)
      PROVE UNCHANGED Outside /\ (dirty' # dirty => dirty' /\ \E u \in Thread : pc[u] = "crawl")
    BY <1>8 DEF dispatchVars, UnlockLast
<1>9. ASSUME NEW t \in Thread, UnrefLast(t)
      PROVE UNCHANGED Outside /\ (dirty' # dirty => dirty' /\ \E u \in Thread : pc[u] = "crawl")
    BY <1>9 DEF UnrefLast
<1>10. ASSUME NEW t \in Handler \cup {Scheduler}, Skip(t)
      PROVE UNCHANGED Outside /\ (dirty' # dirty => dirty' /\ \E u \in Thread : pc[u] = "crawl")
    BY <1>10 DEF Skip
<1>11. ASSUME NEW t \in Handler \cup {Scheduler}, NEW r \in Resource, StartCrawl(t, r)
      PROVE UNCHANGED Outside /\ (dirty' # dirty => dirty' /\ \E u \in Thread : pc[u] = "crawl")
    BY <1>11 DEF StartCrawl
<1>12. ASSUME NEW t \in Handler \cup {Scheduler}, NEW g \in Crawler, Spawn(t, g)
      PROVE UNCHANGED Outside /\ (dirty' # dirty => dirty' /\ \E u \in Thread : pc[u] = "crawl")
    BY <1>12 DEF Spawn
<1>13. ASSUME NEW h \in Handler, Arrive(h)
      PROVE UNCHANGED Outside /\ (dirty' # dirty => dirty' /\ \E u \in Thread : pc[u] = "crawl")
    BY <1>13 DEF Arrive
<1>14. ASSUME NEW h \in Handler, NEW r \in Resource, ProtectedCrawl(h, r)
      PROVE UNCHANGED Outside /\ (dirty' # dirty => dirty' /\ \E u \in Thread : pc[u] = "crawl")
    BY <1>14 DEF ProtectedCrawl
<1>15. ASSUME NEW g \in Crawler, CheckContext(g)
      PROVE UNCHANGED Outside /\ (dirty' # dirty => dirty' /\ \E u \in Thread : pc[u] = "crawl")
    BY <1>15 DEF CheckContext
<1>16. ASSUME NEW g \in Crawler, LeaveInflight(g)
      PROVE UNCHANGED Outside /\ (dirty' # dirty => dirty' /\ \E u \in Thread : pc[u] = "crawl")
    BY <1>16 DEF LeaveInflight
<1>17. ASSUME NEW g \in Crawler, WaitGroupDone(g)
      PROVE UNCHANGED Outside /\ (dirty' # dirty => dirty' /\ \E u \in Thread : pc[u] = "crawl")
    BY <1>17 DEF WaitGroupDone
<1>18. CASE ConsiderEntry
    BY <1>18 DEF ConsiderEntry
<1>19. ASSUME NEW r \in Resource, Evict(r)
      PROVE UNCHANGED Outside /\ (dirty' # dirty => dirty' /\ \E u \in Thread : pc[u] = "crawl")
    BY <1>19 DEF Evict
<1>. QED
    BY <1>1, <1>2, <1>3, <1>4, <1>5, <1>6, <1>7, <1>8, <1>9, <1>10, <1>11, <1>12, <1>13, <1>14,
       <1>15, <1>16, <1>17, <1>18, <1>19 DEF Steps

LEMMA OutsideTypes ==
    ASSUME TypeOK, [Next]_vars
    PROVE  limit' \in Limits /\ phase' \in Phase /\ dirty' \in BOOLEAN /\ flushing' \in BOOLEAN
<1>. USE DEF TypeOK, Phase
<1>1. CASE Steps
    BY <1>1, StepsOutside DEF Outside
<1>2. CASE Reload \/ Stop \/ MainStep \/ Flush
    BY <1>2 DEF Reload, Stop, MainStep, Rebind, ShutdownReturns, CrawlLoopReturned, WaitCrawls,
       FinalSave, Exit, Flush, PhaseStep, Canceled
<1>3. CASE UNCHANGED vars
    BY <1>3 DEF vars, dispatchVars
<1>. QED
    BY <1>1, <1>2, <1>3, NextKinds

LEMMA PlaceTypes ==
    ASSUME TypeOK, WhereInv, [Next]_vars
    PROVE  pc' \in [Thread -> Place2] /\ job' \in [Thread -> Resource \cup {None}] /\ inflight' \in SUBSET Resource
<1>. USE ThreadsOf DEF TypeOK, WhereInv, CrawlerPlace, HandlerPlace, LoopPlace, Unemployed,
        Place2
<1>1. ASSUME NEW t \in Crawler \cup Handler, TakeSlot(t)
      PROVE pc' \in [Thread -> Place2] /\ job' \in [Thread -> Resource \cup {None}] /\ inflight' \in SUBSET Resource
    BY <1>1 DEF Goto, TakeSlot
<1>2. ASSUME NEW t \in Crawler \cup Handler, SleepForSlot(t)
      PROVE pc' \in [Thread -> Place2] /\ job' \in [Thread -> Resource \cup {None}] /\ inflight' \in SUBSET Resource
    BY <1>2 DEF Goto, SleepForSlot
<1>3. ASSUME NEW t \in Crawler \cup Handler, ReleaseSlot(t)
      PROVE pc' \in [Thread -> Place2] /\ job' \in [Thread -> Resource \cup {None}] /\ inflight' \in SUBSET Resource
    BY <1>3 DEF Goto, ReleaseSlot
<1>4. ASSUME NEW t \in Crawler \cup Handler, Broadcast(t)
      PROVE pc' \in [Thread -> Place2] /\ job' \in [Thread -> Resource \cup {None}] /\ inflight' \in SUBSET Resource
    BY <1>4 DEF Broadcast
<1>5. ASSUME NEW t \in Thread, LookupNext(t)
      PROVE pc' \in [Thread -> Place2] /\ job' \in [Thread -> Resource \cup {None}] /\ inflight' \in SUBSET Resource
    BY <1>5 DEF dispatchVars, LookupNext
<1>6. ASSUME NEW t \in Thread, AcquireNext(t)
      PROVE pc' \in [Thread -> Place2] /\ job' \in [Thread -> Resource \cup {None}] /\ inflight' \in SUBSET Resource
    BY <1>6 DEF Goto, AcquireNext
<1>7. ASSUME NEW t \in Thread, Work(t)
      PROVE pc' \in [Thread -> Place2] /\ job' \in [Thread -> Resource \cup {None}] /\ inflight' \in SUBSET Resource
    BY <1>7 DEF Goto, Work
<1>8. ASSUME NEW t \in Thread, UnlockLast(t)
      PROVE pc' \in [Thread -> Place2] /\ job' \in [Thread -> Resource \cup {None}] /\ inflight' \in SUBSET Resource
    BY <1>8 DEF dispatchVars, UnlockLast
<1>9. ASSUME NEW t \in Thread, UnrefLast(t)
      PROVE pc' \in [Thread -> Place2] /\ job' \in [Thread -> Resource \cup {None}] /\ inflight' \in SUBSET Resource
    BY <1>9 DEF Goto, UnrefLast
<1>10. ASSUME NEW t \in Handler \cup {Scheduler}, Skip(t)
      PROVE pc' \in [Thread -> Place2] /\ job' \in [Thread -> Resource \cup {None}] /\ inflight' \in SUBSET Resource
    BY <1>10 DEF Goto, Skip
<1>11. ASSUME NEW t \in Handler \cup {Scheduler}, NEW r \in Resource, StartCrawl(t, r)
      PROVE pc' \in [Thread -> Place2] /\ job' \in [Thread -> Resource \cup {None}] /\ inflight' \in SUBSET Resource
    BY <1>11 DEF Goto, StartCrawl
<1>12. ASSUME NEW t \in Handler \cup {Scheduler}, NEW g \in Crawler, Spawn(t, g)
      PROVE pc' \in [Thread -> Place2] /\ job' \in [Thread -> Resource \cup {None}] /\ inflight' \in SUBSET Resource
    BY <1>12 DEF Goto, Spawn
<1>13. ASSUME NEW h \in Handler, Arrive(h)
      PROVE pc' \in [Thread -> Place2] /\ job' \in [Thread -> Resource \cup {None}] /\ inflight' \in SUBSET Resource
    BY <1>13 DEF Goto, Arrive
<1>14. ASSUME NEW h \in Handler, NEW r \in Resource, ProtectedCrawl(h, r)
      PROVE pc' \in [Thread -> Place2] /\ job' \in [Thread -> Resource \cup {None}] /\ inflight' \in SUBSET Resource
    BY <1>14 DEF Goto, ProtectedCrawl
<1>15. ASSUME NEW g \in Crawler, CheckContext(g)
      PROVE pc' \in [Thread -> Place2] /\ job' \in [Thread -> Resource \cup {None}] /\ inflight' \in SUBSET Resource
    BY <1>15 DEF Goto, CheckContext
<1>16. ASSUME NEW g \in Crawler, LeaveInflight(g)
      PROVE pc' \in [Thread -> Place2] /\ job' \in [Thread -> Resource \cup {None}] /\ inflight' \in SUBSET Resource
    BY <1>16 DEF Goto, LeaveInflight
<1>17. ASSUME NEW g \in Crawler, WaitGroupDone(g)
      PROVE pc' \in [Thread -> Place2] /\ job' \in [Thread -> Resource \cup {None}] /\ inflight' \in SUBSET Resource
    BY <1>17 DEF Goto, WaitGroupDone
<1>18. CASE ConsiderEntry
    BY <1>18 DEF Goto, ConsiderEntry
<1>19. ASSUME NEW r \in Resource, Evict(r)
      PROVE pc' \in [Thread -> Place2] /\ job' \in [Thread -> Resource \cup {None}] /\ inflight' \in SUBSET Resource
    BY <1>19 DEF Goto, Evict
<1>20. CASE Aside
    BY <1>20 DEF Aside
<1>. QED
    BY <1>1, <1>2, <1>3, <1>4, <1>5, <1>6, <1>7, <1>8, <1>9, <1>10, <1>11, <1>12, <1>13, <1>14,
       <1>15, <1>16, <1>17, <1>18, <1>19, <1>20, NextIsStepOrAside DEF Steps

LEMMA TypeStep ==
    ASSUME TypeOK, WhereInv, LockInv, LocksInv, SlotsExact, WaitGroupExact, [Next]_vars
    PROVE  TypeOK'
<1>1. slotsInUse' \in Nat
  <2>1. slotsInUse' = Cardinality(Holders') /\ Holders' \subseteq Thread
    BY SlotsStep DEF SlotsExact, Holders
  <2>. QED
    BY <2>1, SetsOfThreads
<1>2. wg' \in Nat
  <2>1. wg' = Cardinality(Crawls') /\ Crawls' \subseteq Thread
    BY WaitGroupStep, ThreadsOf DEF WaitGroupExact, Crawls
  <2>. QED
    BY <2>1, SetsOfThreads
<1>. QED
    BY <1>1, <1>2, TableInv, OutsideTypes, PlaceTypes DEF TypeOK

(* While a stop goes on, goroutines move only as far as it lets them. *)
LEMMA StopSteps ==
    ASSUME TypeOK, WhereInv, Returned, Alive, UNCHANGED phase, Steps
    PROVE  Returned'
<1>. USE ThreadsOf DEF TypeOK, WhereInv, CrawlerPlace, HandlerPlace, LoopPlace, Unemployed,
        Alive, Returned, Canceled, Underway
<1>1. ASSUME NEW t \in Crawler \cup Handler, TakeSlot(t) PROVE Returned'
    BY <1>1 DEF Goto, TakeSlot
<1>2. ASSUME NEW t \in Crawler \cup Handler, SleepForSlot(t) PROVE Returned'
    BY <1>2 DEF Goto, SleepForSlot
<1>3. ASSUME NEW t \in Crawler \cup Handler, ReleaseSlot(t) PROVE Returned'
    BY <1>3 DEF Goto, ReleaseSlot
<1>4. ASSUME NEW t \in Crawler \cup Handler, Broadcast(t) PROVE Returned'
    BY <1>4 DEF Broadcast
<1>5. ASSUME NEW t \in Thread, LookupNext(t) PROVE Returned'
    BY <1>5 DEF dispatchVars, LookupNext
<1>6. ASSUME NEW t \in Thread, AcquireNext(t) PROVE Returned'
    BY <1>6 DEF Goto, AcquireNext
<1>7. ASSUME NEW t \in Thread, Work(t) PROVE Returned'
    BY <1>7 DEF Goto, Work
<1>8. ASSUME NEW t \in Thread, UnlockLast(t) PROVE Returned'
    BY <1>8 DEF dispatchVars, UnlockLast
<1>9. ASSUME NEW t \in Thread, UnrefLast(t) PROVE Returned'
    BY <1>9 DEF Goto, UnrefLast
<1>10. ASSUME NEW t \in Handler \cup {Scheduler}, Skip(t) PROVE Returned'
    BY <1>10 DEF Goto, Skip
<1>11. ASSUME NEW t \in Handler \cup {Scheduler}, NEW r \in Resource, StartCrawl(t, r)
      PROVE Returned'
    BY <1>11 DEF Goto, StartCrawl
<1>12. ASSUME NEW t \in Handler \cup {Scheduler}, NEW g \in Crawler, Spawn(t, g) PROVE Returned'
    BY <1>12 DEF Goto, Spawn
<1>13. ASSUME NEW h \in Handler, Arrive(h) PROVE Returned'
    BY <1>13 DEF Goto, Arrive
<1>14. ASSUME NEW h \in Handler, NEW r \in Resource, ProtectedCrawl(h, r) PROVE Returned'
    BY <1>14 DEF Goto, ProtectedCrawl
<1>15. ASSUME NEW g \in Crawler, CheckContext(g) PROVE Returned'
    BY <1>15 DEF Goto, CheckContext
<1>16. ASSUME NEW g \in Crawler, LeaveInflight(g) PROVE Returned'
    BY <1>16 DEF Goto, LeaveInflight
<1>17. ASSUME NEW g \in Crawler, WaitGroupDone(g) PROVE Returned'
    BY <1>17 DEF Goto, WaitGroupDone
<1>18. CASE ConsiderEntry
    BY <1>18 DEF Goto, ConsiderEntry
<1>19. ASSUME NEW r \in Resource, Evict(r) PROVE Returned'
    BY <1>19 DEF Goto, Evict
<1>. QED
    BY <1>1, <1>2, <1>3, <1>4, <1>5, <1>6, <1>7, <1>8, <1>9, <1>10, <1>11, <1>12, <1>13, <1>14,
       <1>15, <1>16, <1>17, <1>18, <1>19 DEF Steps

(* Each step of a stop finds behind it what it waited for. *)
LEMMA StopStep ==
    ASSUME TypeOK, WhereInv, StopInv, WaitGroupExact, [Next]_vars
    PROVE  StopInv'
<1>. SUFFICES ASSUME ~DrainTimeout
              PROVE  Returned' /\ (phase \in {"saved", "exited"} => ~dirty)'
    BY DEF StopInv
<1>. USE DEF TypeOK, StopInv, Canceled
<1>1. CASE Steps /\ Alive
  <2>1. UNCHANGED phase
    BY <1>1, StepsOutside DEF Outside
  <2>2. Returned'
    BY <1>1, <2>1, StopSteps
  <2>3. phase = "saved" => \A t \in Thread : pc[t] # "crawl"
    BY ThreadsOf DEF WhereInv, HandlerPlace, Returned, Underway
  <2>. QED
    BY <1>1, <2>1, <2>2, <2>3, StepsOutside DEF Alive
<1>2. CASE Reload \/ Stop
    BY <1>2 DEF Reload, Stop, PhaseStep, Returned, Underway
<1>3. CASE Rebind \/ ShutdownReturns
    BY <1>3 DEF Rebind, ShutdownReturns, PhaseStep, Drained, Returned, Underway
<1>4. CASE CrawlLoopReturned \/ FinalSave \/ Exit
    BY <1>4 DEF CrawlLoopReturned, FinalSave, Exit, PhaseStep, Returned, Underway
<1>5. CASE WaitCrawls
  <2>1. Crawls = {}
    BY <1>5, CountsFinite, FS_EmptySet DEF WaitCrawls, WaitGroupExact
  <2>. QED
    BY <1>5, <2>1 DEF WaitCrawls, PhaseStep, Returned, Underway, Crawls
<1>6. CASE Flush \/ UNCHANGED vars
    BY <1>6 DEF Flush, vars, dispatchVars, Returned, Underway
<1>. QED
    BY <1>1, <1>2, <1>3, <1>4, <1>5, <1>6, NextKinds DEF MainStep

-----------------------------------------------------------------------------
LEMMA CrawlInvInit == Init => CrawlInv
<1>. SUFFICES ASSUME Init PROVE CrawlInv
    OBVIOUS
<1>. USE DEF Init
<1>1. LockInv
    BY LockInvInit
<1>2. TypeOK
    BY <1>1, CrawlDispatchAssumption DEF LockInv, TypeOK, Place2, Phase
<1>3. WhereInv /\ LocksInv
    BY ThreadsOf DEF WhereInv, CrawlerPlace, HandlerPlace, LoopPlace, Unemployed, LocksInv, LocksAt,
       LockInit
<1>4. Holders = {} /\ Crawls = {}
    BY ThreadsOf DEF Holders, HasSlot, Crawls, Underway
<1>5. SlotsExact
  <2>1. PICK n \in Limits : n \in Nat /\ 0 <= n
    BY CrawlDispatchAssumption
  <2>. QED
    BY <1>4, <2>1, FS_EmptySet DEF SlotsExact, Holders
<1>6. SleepersWoken /\ SingleFlight /\ StopInv
    BY ThreadsOf DEF SleepersWoken, SingleFlight, StopInv, Returned, Canceled
<1>7. WaitGroupExact
    BY <1>4, FS_EmptySet DEF WaitGroupExact
<1>. QED
    BY <1>1, <1>2, <1>3, <1>5, <1>6, <1>7 DEF CrawlInv

LEMMA CrawlInvNext == CrawlInv /\ [Next]_vars => CrawlInv'
<1>. SUFFICES ASSUME CrawlInv, [Next]_vars PROVE CrawlInv'
    OBVIOUS
<1>. USE DEF CrawlInv
<1>1. TypeOK' /\ LockInv'
    BY TypeStep, TableInv
<1>2. WhereInv' /\ LocksInv'
    BY WhereStep, LocksStep
<1>3. SlotsExact' /\ SleepersWoken'
    BY SlotsStep, SleepersStep
<1>4. SingleFlight' /\ WaitGroupExact'
    BY FlightStep, WaitGroupStep
<1>5. StopInv'
    BY StopStep
<1>. QED
    BY <1>1, <1>2, <1>3, <1>4, <1>5

LEMMA CrawlInvariant == Spec => []CrawlInv
<1>. QED
    BY CrawlInvInit, CrawlInvNext, PTL DEF Spec

(* However many goroutines dispatch, crawl, evict and sleep, through reloads  *)
(* and a stop: slotsInUse counts the crawls at work and never exceeds the      *)
(* largest limit, a sleeper has somebody to wake it, a marked resource has one *)
(* crawl, and crawlWG counts the crawls started and not yet returned.          *)
THEOREM DispatchBookkeeping == Spec => []DispatchInv
<1>1. CrawlInv => DispatchInv
    BY DEF CrawlInv, DispatchInv, WaitGroupExact, Crawls
<1>. QED
    BY <1>1, CrawlInvariant, PTL

(* A crawl holds its resource's lock and its archive root's.                  *)
LEMMA CrawlsExclude == CrawlInv => CrawlExclusive
<1>. SUFFICES ASSUME CrawlInv, NEW s \in Thread, NEW t \in Thread, s # t,
                     pc[s] = "crawl", pc[t] = "crawl"
              PROVE  LocksOf(job[s]) \cap LocksOf(job[t]) = {}
    BY DEF CrawlExclusive
<1>1. job[s] \in Resource /\ job[t] \in Resource
    BY DEF CrawlInv, WhereInv, Unemployed
<1>2. /\ \A k \in LocksOf(job[s]) : k \in Key /\ at[s][k] = "holding"
      /\ \A k \in LocksOf(job[t]) : k \in Key /\ at[t][k] = "holding"
    BY <1>1, RootIsKey DEF CrawlInv, LocksInv, LocksAt
<1>3. MutualExclusion
    BY LockInvExcludes DEF CrawlInv
<1>. QED
    BY <1>2, <1>3 DEF MutualExclusion

(* No two goroutines are ever at work on one resource, nor on two suites of   *)
(* one archive root: crawls of crawlResource, crawls of a request for a        *)
(* signature-protected repository, and evictions all exclude one another.      *)
THEOREM CrawlsAreExclusive == Spec => []CrawlExclusive
<1>. QED
    BY CrawlsExclude, CrawlInvariant, PTL

(* When handlers return within the shutdown timeout, nobody is about to call  *)
(* crawlWG.Add once main is in WaitCrawls, no dispatched crawl outlives it,    *)
(* and nothing recorded is lost when the process exits.                        *)
THEOREM StopsInOrder ==
    ASSUME ~DrainTimeout
    PROVE  Spec => []StopInOrder
<1>1. CrawlInv => StopInOrder
  <2>. SUFFICES ASSUME CrawlInv PROVE StopInOrder
    OBVIOUS
  <2>1. Returned /\ (phase \in {"saved", "exited"} => ~dirty)
    BY DEF CrawlInv, StopInv
  <2>2. phase = "waiting" => \A t \in Thread : pc[t] # "spawn"
    BY <2>1, ThreadsOf DEF CrawlInv, WhereInv, CrawlerPlace, Returned, Canceled
  <2>. QED
    BY <2>1, <2>2 DEF StopInOrder, Returned
<1>. QED
    BY <1>1, CrawlInvariant, PTL

(* What the server's goroutines do to the lock table is a behaviour of        *)
(* LockTable: its resources are only ever locked through lockResource.         *)
THEOREM DispatchUsesTheTable == Spec => LockSpec
<1>1. Init => LockInit
    BY DEF Init
<1>2. CrawlInv /\ [Next]_vars => [LockNext]_lockVars
    BY TableStep DEF CrawlInv
<1>. QED
    BY <1>1, <1>2, CrawlInvariant, PTL DEF Spec, LockSpec

(* The locks the server's crawls and evictions take exclude one another, key   *)
(* by key.                                                                    *)
THEOREM DispatchMutualExclusion == Spec => []MutualExclusion
<1>. QED
    BY DispatchUsesTheTable, LockTableMutualExclusion, PTL

(* And they are plain mutexes, whatever entries the table drops and creates.  *)
THEOREM DispatchImplementsMutex == Spec => ImplementsMutex
<1>. QED
    BY DispatchUsesTheTable, LockTableImplementsMutex, PTL
==============================================================================
