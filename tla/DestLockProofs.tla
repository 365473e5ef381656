--------------------------- MODULE DestLockProofs ---------------------------
(***************************************************************************)
(* DestLock for any number of overlapping runs, with crashes: the lock file*)
(* at the path belongs to the one run that synchronizes.                   *)
(***************************************************************************)
EXTENDS DestLock, TLAPS

LEMMA LockFileInvInit == Init => LockFileInv
<1>. SUFFICES ASSUME Init PROVE LockFileInv
    OBVIOUS
<1>1. TypeOK
  <2>1. left \in BOOLEAN
    BY Zenon DEF Init
  <2>2. /\ path \in Inode \cup {None}
        /\ flock \in [Inode -> Run \cup {None}]
        /\ fd \in [Run -> Inode \cup {None}]
        /\ pc \in [Run -> Place]
        /\ tries \in [Run -> 0..Attempts]
    BY DestLockAssumption DEF Init, Place
  <2>. QED
    BY <2>1, <2>2 DEF TypeOK
<1>2. FlockHeld
    BY DEF Init, FlockHeld
<1>3. OpenFiles
    BY DestLockAssumption DEF Init, OpenFiles
<1>4. HolderOwnsPath
    BY DEF Init, HolderOwnsPath
<1>. QED
    BY <1>1, <1>2, <1>3, <1>4 DEF LockFileInv

(* Opening gives the run a file that nobody's lock depends on. *)
LEMMA OpenInv ==
    ASSUME LockFileInv, NEW p \in Run, OpenExisting(p) \/ OpenNew(p)
    PROVE  LockFileInv'
<1>. USE DestLockAssumption
<1>1. PICK i \in Inode :
        /\ fd' = [fd EXCEPT ![p] = i]
        /\ path' = i
        /\ path = i \/ (path = None /\ Free(i))
    BY DEF OpenExisting, OpenNew, LockFileInv, TypeOK
<1>2. /\ pc[p] = "open" /\ tries[p] < Attempts
      /\ pc' = [pc EXCEPT ![p] = "opened"]
      /\ tries' = [tries EXCEPT ![p] = @ + 1]
      /\ flock' = flock /\ left' \in BOOLEAN
    BY DEF OpenExisting, OpenNew, LockFileInv, TypeOK
<1>3. TypeOK'
    BY <1>1, <1>2 DEF LockFileInv, TypeOK, Place
<1>4. FlockHeld'
    BY <1>1, <1>2 DEF LockFileInv, TypeOK, FlockHeld
<1>5. OpenFiles'
    BY <1>1, <1>2 DEF LockFileInv, TypeOK, OpenFiles
<1>6. HolderOwnsPath'
  <2>1. \A q \in Run : pc[q] = "syncing" => path # None /\ path = fd[q]
    BY DEF LockFileInv, TypeOK, FlockHeld, HolderOwnsPath
  <2>. QED
    BY <1>1, <1>2, <2>1 DEF LockFileInv, TypeOK, HolderOwnsPath
<1>. QED
    BY <1>3, <1>4, <1>5, <1>6 DEF LockFileInv

LEMMA FlockInv ==
    ASSUME LockFileInv, NEW p \in Run, Flock(p)
    PROVE  LockFileInv'
<1>. USE DestLockAssumption
<1>1. fd[p] \in Inode
    BY DEF Flock, LockFileInv, TypeOK, OpenFiles
<1>2. TypeOK'
    BY <1>1 DEF Flock, LockFileInv, TypeOK, Place
<1>3. FlockHeld'
    BY <1>1 DEF Flock, LockFileInv, TypeOK, FlockHeld
<1>4. OpenFiles'
    BY <1>1 DEF Flock, LockFileInv, TypeOK, OpenFiles
<1>5. HolderOwnsPath'
    BY <1>1 DEF Flock, LockFileInv, TypeOK, HolderOwnsPath
<1>. QED
    BY <1>2, <1>3, <1>4, <1>5 DEF LockFileInv

(* Closing a file, in whatever way a run ends or retries, takes away no other *)
(* run's lock.                                                                *)
LEMMA CloseInv ==
    ASSUME LockFileInv, NEW p \in Run, CloseFile(p),
           NEW q \in {"idle", "open"},
           pc' = [pc EXCEPT ![p] = q],
           UNCHANGED <<path, tries>>, left' \in BOOLEAN
    PROVE  LockFileInv'
<1>. USE DestLockAssumption
<1>1. TypeOK'
    BY DEF CloseFile, LockFileInv, TypeOK, Place
<1>2. FlockHeld'
    BY DEF CloseFile, LockFileInv, TypeOK, FlockHeld
<1>3. OpenFiles'
    BY DEF CloseFile, LockFileInv, TypeOK, OpenFiles
<1>4. HolderOwnsPath'
    BY DEF CloseFile, LockFileInv, TypeOK, HolderOwnsPath
<1>. QED
    BY <1>1, <1>2, <1>3, <1>4 DEF LockFileInv

(* Two holders would hold the lock of one and the same file. *)
LEMMA InvExcludes == LockFileInv => OneRunSyncs
BY DestLockAssumption
   DEF LockFileInv, TypeOK, FlockHeld, HolderOwnsPath, OneRunSyncs

(* Removing the path leaves no other run synchronizing without its file, and  *)
(* failing to remove it takes nothing away.                                   *)
LEMMA RemoveInv ==
    ASSUME LockFileInv, NEW p \in Run, RemoveFile(p) \/ RemoveFails(p)
    PROVE  LockFileInv'
<1>1. TypeOK'
    BY DEF RemoveFile, RemoveFails, LockFileInv, TypeOK, Place
<1>2. FlockHeld'
    BY DEF RemoveFile, RemoveFails, LockFileInv, TypeOK, FlockHeld
<1>3. OpenFiles'
    BY DEF RemoveFile, RemoveFails, LockFileInv, TypeOK, OpenFiles
<1>4. HolderOwnsPath'
  <2>1. ASSUME NEW q \in Run, q # p PROVE pc[q] # "syncing"
    BY <2>1, InvExcludes DEF RemoveFile, RemoveFails, OneRunSyncs
  <2>. QED
    BY <2>1 DEF RemoveFile, RemoveFails, LockFileInv, TypeOK, HolderOwnsPath
<1>. QED
    BY <1>1, <1>2, <1>3, <1>4 DEF LockFileInv

(* The remaining steps move one run on without touching a file. *)
LEMMA MoveInv ==
    ASSUME LockFileInv, NEW p \in Run, Start(p) \/ GiveUp(p) \/ CompareSame(p)
    PROVE  LockFileInv'
<1>. USE DestLockAssumption
<1>1. TypeOK'
  <2>1. left' \in BOOLEAN
    BY Zenon DEF Start, GiveUp, CompareSame, LockFileInv, TypeOK
  <2>. QED
    BY <2>1 DEF Start, GiveUp, CompareSame, LockFileInv, TypeOK, Place
<1>2. FlockHeld'
    BY DEF Start, GiveUp, CompareSame, LockFileInv, TypeOK, FlockHeld
<1>3. OpenFiles'
    BY DEF Start, GiveUp, CompareSame, LockFileInv, TypeOK, OpenFiles
<1>4. HolderOwnsPath'
    BY DEF Start, GiveUp, CompareSame, LockFileInv, TypeOK, HolderOwnsPath
<1>. QED
    BY <1>1, <1>2, <1>3, <1>4 DEF LockFileInv

LEMMA LockFileInvNext == LockFileInv /\ [Next]_vars => LockFileInv'
<1>. SUFFICES ASSUME LockFileInv, [Next]_vars PROVE LockFileInv'
    OBVIOUS
<1>1. ASSUME NEW p \in Run, OpenExisting(p) \/ OpenNew(p) PROVE LockFileInv'
    BY <1>1, OpenInv
<1>2. ASSUME NEW p \in Run, Flock(p) PROVE LockFileInv'
    BY <1>2, FlockInv
<1>3. ASSUME NEW p \in Run,
             \/ FlockBusy(p) \/ FlockFails(p) \/ CompareReplaced(p) \/ CompareFails(p)
             \/ CloseAfterRemove(p) \/ Crash(p)
      PROVE  LockFileInv'
  <2>0. left \in BOOLEAN
    BY DEF LockFileInv, TypeOK
  <2>1. /\ CloseFile(p) /\ UNCHANGED <<path, tries>>
        /\ pc' = [pc EXCEPT ![p] = "idle"] \/ pc' = [pc EXCEPT ![p] = "open"]
    BY <1>3 DEF FlockBusy, FlockFails, CompareReplaced, CompareFails, CloseAfterRemove, Crash,
       LeaveFile
  <2>2. left' = left \/ LeaveFile(p)
    BY <1>3, Zenon DEF FlockBusy, FlockFails, CompareReplaced, CompareFails, CloseAfterRemove, Crash
  <2>3. left' \in BOOLEAN
    BY <2>0, <2>2, Zenon DEF LeaveFile
  <2>. QED
    BY <2>1, <2>3, CloseInv
<1>4. ASSUME NEW p \in Run, RemoveFile(p) \/ RemoveFails(p) PROVE LockFileInv'
    BY <1>4, RemoveInv
<1>5. ASSUME NEW p \in Run, Start(p) \/ GiveUp(p) \/ CompareSame(p) PROVE LockFileInv'
    BY <1>5, MoveInv
<1>6. CASE UNCHANGED vars
    BY <1>6 DEF vars, LockFileInv, TypeOK, FlockHeld, OpenFiles, HolderOwnsPath
<1>. QED
    BY <1>1, <1>2, <1>3, <1>4, <1>5, <1>6 DEF Next, RunStep

(* The lock file discipline holds in every reachable state, crashes included *)
(* (lockDestination, release).                                              *)
THEOREM DestLockInvariant == Spec => []LockFileInv
BY LockFileInvInit, LockFileInvNext, PTL DEF Spec

(* However many runs overlap and crash, one at most synchronizes.            *)
THEOREM DestLockMutualExclusion == Spec => []OneRunSyncs
BY DestLockInvariant, InvExcludes, PTL

(* A run that releases the lock removes its own file and no other's.         *)
THEOREM DestLockReleaseOwnFile == Spec => []HolderOwnsPath
<1>1. LockFileInv => HolderOwnsPath
    BY DEF LockFileInv
<1>. QED
    BY <1>1, DestLockInvariant, PTL
-----------------------------------------------------------------------------
\* A file that a run has removed does not come back to the path.
RemovedGone == \A p \in Run : pc[p] = "removed" => left \/ fd[p] # path

\* A lock is held by a run that took it.
TakenLocks == \A i \in Inode : flock[i] # None => pc[flock[i]] \in {"flocked", "syncing", "removed"}

LeftInv == LockFileInv /\ RemovedGone /\ TakenLocks /\ NothingLeftBehind

LEMMA LeftInvInit == Init => LeftInv
BY LockFileInvInit DEF Init, LeftInv, RemovedGone, TakenLocks, NothingLeftBehind

(* Who has the file at the path open. *)
Minds(p) == fd[p] = path /\ pc[p] \in {"opened", "flocked", "syncing"}

(* A run that gives a file up because of somebody's lock leaves it to them. *)
LEMMA BusyIsMinded ==
    ASSUME LeftInv, ~left, NEW p \in Run, FlockBusy(p), fd[p] = path
    PROVE  \E q \in Run \ {p} : Minds(q)
<1>. DEFINE q == flock[fd[p]]
<1>1. pc[p] = "opened" /\ fd[p] \in Inode /\ q # None
    BY DEF FlockBusy, LeftInv, LockFileInv, OpenFiles, TypeOK
<1>2. q \in Run /\ fd[q] = path /\ pc[q] \in {"flocked", "syncing", "removed"}
    BY <1>1 DEF LeftInv, LockFileInv, OpenFiles, TypeOK, TakenLocks
<1>3. pc[q] # "removed" /\ q # p
    BY <1>1, <1>2 DEF LeftInv, RemovedGone
<1>. QED
    BY <1>2, <1>3 DEF Minds

(* A run that closes its file leaves the one at the path minded, or on record *)
(* as left.                                                                   *)
LEMMA CloseLeaves ==
    ASSUME LeftInv, LockFileInv', NEW p \in Run, CloseFile(p), NEW q \in {"idle", "open"},
           pc' = [pc EXCEPT ![p] = q], path' = path, left => left',
           left' \/ (Minds(p) => FlockBusy(p))
    PROVE  LeftInv'
<1>. USE DestLockAssumption DEF LeftInv
<1>1. RemovedGone'
    BY DEF RemovedGone, CloseFile, LockFileInv, TypeOK
<1>2. TakenLocks'
    BY DEF TakenLocks, CloseFile, LockFileInv, TypeOK
<1>3. NothingLeftBehind'
  <2>. SUFFICES ASSUME path # None, ~left', ~left
                PROVE  \E r \in Run \ {p} : Minds(r)
    BY DEF NothingLeftBehind, Minds, CloseFile, LockFileInv, TypeOK
  <2>1. CASE Minds(p)
    BY <2>1, BusyIsMinded DEF Minds
  <2>2. CASE ~Minds(p)
    BY <2>2 DEF NothingLeftBehind, Minds
  <2>. QED
    BY <2>1, <2>2
<1>. QED
    BY <1>1, <1>2, <1>3

(* Only the holder of the path's lock can have removed or be removing it. *)
LEMMA HolderAlone ==
    ASSUME LockFileInv, NEW p \in Run, pc[p] \in {"flocked", "syncing"}, fd[p] = path,
           NEW q \in Run, pc[q] = "removed", fd[q] = path
    PROVE  FALSE
BY DEF LockFileInv, TypeOK, FlockHeld

(* A lock file has a run that minds it, or was left. *)
LEMMA LeftInvNext == LeftInv /\ [Next]_vars => LeftInv'
<1>. SUFFICES ASSUME LeftInv, [Next]_vars PROVE LeftInv'
    OBVIOUS
<1>. USE DestLockAssumption DEF LeftInv
<1>1. LockFileInv'
    BY LockFileInvNext
<1>2. ASSUME NEW p \in Run, OpenExisting(p) PROVE LeftInv'
    BY <1>1, <1>2 DEF OpenExisting, RemovedGone, TakenLocks, NothingLeftBehind, LockFileInv, TypeOK
<1>3. ASSUME NEW p \in Run, OpenNew(p) PROVE LeftInv'
    BY <1>1, <1>3 DEF OpenNew, Free, RemovedGone, TakenLocks, NothingLeftBehind, LockFileInv, TypeOK
<1>4. ASSUME NEW p \in Run, Flock(p) PROVE LeftInv'
    BY <1>1, <1>4 DEF Flock, RemovedGone, TakenLocks, NothingLeftBehind, LockFileInv, TypeOK
<1>5. ASSUME NEW p \in Run, FlockBusy(p) PROVE LeftInv'
    BY <1>1, <1>5, CloseLeaves DEF FlockBusy
<1>6. ASSUME NEW p \in Run, CompareReplaced(p) \/ CloseAfterRemove(p) PROVE LeftInv'
  <2>1. /\ CloseFile(p) /\ path' = path /\ left' = left /\ ~Minds(p)
        /\ pc' = [pc EXCEPT ![p] = "idle"] \/ pc' = [pc EXCEPT ![p] = "open"]
    BY <1>6 DEF CompareReplaced, CloseAfterRemove, Minds
  <2>. QED
    BY <1>1, <2>1, CloseLeaves
<1>7. ASSUME NEW p \in Run, FlockFails(p) \/ CompareFails(p) \/ Crash(p) PROVE LeftInv'
  <2>1. /\ LeaveFile(p) /\ path' = path
        /\ pc' = [pc EXCEPT ![p] = "idle"] \/ pc' = [pc EXCEPT ![p] = "open"]
    BY <1>7 DEF FlockFails, CompareFails, Crash
  <2>2. Minds(p) => fd[p] # None /\ fd[p] = path
    BY DEF Minds, LockFileInv, OpenFiles
  <2>3. CloseFile(p) /\ (left => left') /\ (left' \/ ~Minds(p))
    BY <2>1, <2>2 DEF LeaveFile
  <2>. QED
    BY <1>1, <2>1, <2>3, CloseLeaves
<1>8. ASSUME NEW p \in Run, RemoveFile(p) \/ RemoveFails(p) PROVE LeftInv'
  <2>1. RemovedGone'
    BY <1>8 DEF RemoveFile, RemoveFails, RemovedGone, LockFileInv, FlockHeld, TypeOK
  <2>2. TakenLocks'
    BY <1>8 DEF RemoveFile, RemoveFails, TakenLocks, LockFileInv, TypeOK
  <2>3. NothingLeftBehind'
    BY <1>8 DEF RemoveFile, RemoveFails, NothingLeftBehind
  <2>. QED
    BY <1>1, <2>1, <2>2, <2>3
<1>9. ASSUME NEW p \in Run, CompareSame(p) PROVE LeftInv'
  <2>1. RemovedGone'
    BY <1>9, HolderAlone DEF CompareSame, RemovedGone, LockFileInv, TypeOK
  <2>2. TakenLocks'
    BY <1>9 DEF CompareSame, TakenLocks, LockFileInv, TypeOK
  <2>3. NothingLeftBehind'
    BY <1>9 DEF CompareSame, NothingLeftBehind, LockFileInv, TypeOK
  <2>. QED
    BY <1>1, <2>1, <2>2, <2>3
<1>10. ASSUME NEW p \in Run, Start(p) \/ GiveUp(p) PROVE LeftInv'
    BY <1>1, <1>10 DEF Start, GiveUp, RemovedGone, TakenLocks, NothingLeftBehind,
       LockFileInv, OpenFiles, TypeOK
<1>11. CASE UNCHANGED vars
    BY <1>1, <1>11 DEF vars, RemovedGone, TakenLocks, NothingLeftBehind
<1>. QED
    BY <1>2, <1>3, <1>4, <1>5, <1>6, <1>7, <1>8, <1>9, <1>10, <1>11 DEF Next, RunStep

(* A lock file nobody minds was left by a crash, by a removal that failed, or *)
(* by a run that could not lock or examine it, since a run last took it over; *)
(* runs that open, replace and remove it at once leave none (lockDestination, *)
(* release).                                                                  *)
THEOREM DestLockLeavesNothing == Spec => []NothingLeftBehind
<1>1. LeftInv => NothingLeftBehind
    BY DEF LeftInv
<1>. QED
    BY <1>1, LeftInvInit, LeftInvNext, PTL DEF Spec
=============================================================================
