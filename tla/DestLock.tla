------------------------------ MODULE DestLock ------------------------------
(***************************************************************************)
(* The destination lock of the sync commands (mirror/sync.go               *)
(* lockDestination, release): overlapping runs, such as from cron, open a  *)
(* lock file, flock it, and keep it only if it is still the file at the    *)
(* path; a finished run removes the file, if it can, and then closes it.  A*)
(* crash closes the descriptor, which drops the flock, and leaves the file.*)
(***************************************************************************)
EXTENDS Integers

CONSTANTS Run,         \* repo-sync processes
          Inode,       \* identities a lock file can have
          None,
          Attempts     \* lockAttempts

ASSUME DestLockAssumption ==
    /\ None \notin Run /\ None \notin Inode
    /\ Attempts \in Nat \ {0}

VARIABLES path,        \* the file at dest/.lock, or None
          flock,       \* flock[i]: the run whose descriptor holds file i's lock
          fd,          \* fd[p]: the file p has open
          pc,          \* where run p stands
          tries,       \* attempts p has begun
          left         \* the file at the path was given up by a run that did not remove it:
                       \* it crashed, its removal failed, or it could not lock or examine it

vars == <<path, flock, fd, pc, tries, left>>

\* "open": about to open; "opened": about to flock; "flocked": about to
\* compare; "syncing": lockDestination returned; "removed": in release between
\* Remove and Close.
Place == {"idle", "open", "opened", "flocked", "syncing", "removed"}

TypeOK ==
    /\ path \in Inode \cup {None}
    /\ flock \in [Inode -> Run \cup {None}]
    /\ fd \in [Run -> Inode \cup {None}]
    /\ pc \in [Run -> Place]
    /\ tries \in [Run -> 0..Attempts]
    /\ left \in BOOLEAN

Init ==
    /\ path = None
    /\ flock = [i \in Inode |-> None]
    /\ fd = [p \in Run |-> None]
    /\ pc = [p \in Run |-> "idle"]
    /\ tries = [p \in Run |-> 0]
    /\ left = FALSE

\* A new file gets an identity no open file and no path has.
Free(i) == path # i /\ \A p \in Run : fd[p] # i

\* The descriptor is closed, which drops its flock.
CloseFile(p) ==
    /\ fd' = [fd EXCEPT ![p] = None]
    /\ flock' = [i \in Inode |-> IF flock[i] = p THEN None ELSE flock[i]]

-----------------------------------------------------------------------------
Start(p) ==
    /\ pc[p] = "idle"
    /\ pc' = [pc EXCEPT ![p] = "open"]
    /\ tries' = [tries EXCEPT ![p] = 0]
    /\ UNCHANGED <<path, flock, fd, left>>

\* os.OpenFile with O_CREATE.
OpenExisting(p) ==
    /\ pc[p] = "open" /\ tries[p] < Attempts
    /\ path # None
    /\ fd' = [fd EXCEPT ![p] = path]
    /\ pc' = [pc EXCEPT ![p] = "opened"]
    /\ tries' = [tries EXCEPT ![p] = @ + 1]
    /\ UNCHANGED <<path, flock, left>>

OpenNew(p) ==
    /\ pc[p] = "open" /\ tries[p] < Attempts
    /\ path = None
    /\ \E i \in Inode :
        /\ Free(i)
        /\ path' = i
        /\ fd' = [fd EXCEPT ![p] = i]
    /\ pc' = [pc EXCEPT ![p] = "opened"]
    /\ tries' = [tries EXCEPT ![p] = @ + 1]
    /\ left' = FALSE
    /\ UNCHANGED flock

\* The destination cannot be made or opened, or every attempt was used up.
GiveUp(p) ==
    /\ pc[p] = "open"
    /\ pc' = [pc EXCEPT ![p] = "idle"]
    /\ UNCHANGED <<path, flock, fd, tries, left>>

\* Mutant: a shared lock.
FlockShared(p) ==
    /\ pc[p] = "opened"
    /\ flock' = [flock EXCEPT ![fd[p]] = p]
    /\ pc' = [pc EXCEPT ![p] = "flocked"]
    /\ UNCHANGED <<path, fd, tries, left>>

Flock(p) ==
    /\ pc[p] = "opened" /\ flock[fd[p]] = None
    /\ flock' = [flock EXCEPT ![fd[p]] = p]
    /\ pc' = [pc EXCEPT ![p] = "flocked"]
    /\ UNCHANGED <<path, fd, tries, left>>

\* LOCK_NB: somebody else's lock ends the run, ...
FlockBusy(p) ==
    /\ pc[p] = "opened" /\ flock[fd[p]] # None
    /\ CloseFile(p)
    /\ pc' = [pc EXCEPT ![p] = "idle"]
    /\ UNCHANGED <<path, tries, left>>

\* p leaves the file it has open where it is.
LeaveFile(p) ==
    /\ CloseFile(p)
    /\ left' = (left \/ (fd[p] # None /\ fd[p] = path))

\* ... and so does any other error, such as of a file system without locks.
FlockFails(p) ==
    /\ pc[p] = "opened"
    /\ LeaveFile(p)
    /\ pc' = [pc EXCEPT ![p] = "idle"]
    /\ UNCHANGED <<path, tries>>

\* Mutant: the file held is not compared with the one at the path.
CompareNothing(p) ==
    /\ pc[p] = "flocked"
    /\ pc' = [pc EXCEPT ![p] = "syncing"]
    /\ UNCHANGED <<path, flock, fd, tries, left>>

\* os.SameFile of the file held and the file at the path, which the run has now
\* taken over, whoever left it.
CompareSame(p) ==
    /\ pc[p] = "flocked" /\ path = fd[p]
    /\ pc' = [pc EXCEPT ![p] = "syncing"]
    /\ left' = FALSE
    /\ UNCHANGED <<path, flock, fd, tries>>

CompareReplaced(p) ==
    /\ pc[p] = "flocked" /\ path # fd[p]
    /\ CloseFile(p)
    /\ pc' = [pc EXCEPT ![p] = "open"]
    /\ UNCHANGED <<path, tries, left>>

\* One of the two Stat fails: another attempt.
CompareFails(p) ==
    /\ pc[p] = "flocked"
    /\ LeaveFile(p)
    /\ pc' = [pc EXCEPT ![p] = "open"]
    /\ UNCHANGED <<path, tries>>

\* Mutant: the file is left to a run that has it open already.
RemoveUnlessOpen(p) ==
    /\ pc[p] = "syncing"
    /\ path' = IF \E q \in Run \ {p} : fd[q] = path THEN path ELSE None
    /\ left' = FALSE
    /\ pc' = [pc EXCEPT ![p] = "removed"]
    /\ UNCHANGED <<flock, fd, tries>>

\* release: os.Remove of the path, whatever file is there now, ...
RemoveFile(p) ==
    /\ pc[p] = "syncing"
    /\ path' = None
    /\ left' = FALSE
    /\ pc' = [pc EXCEPT ![p] = "removed"]
    /\ UNCHANGED <<flock, fd, tries>>

\* ... an error of which is only logged, ...
RemoveFails(p) ==
    /\ pc[p] = "syncing"
    /\ left' = TRUE
    /\ pc' = [pc EXCEPT ![p] = "removed"]
    /\ UNCHANGED <<path, flock, fd, tries>>

\* ... then Close.
CloseAfterRemove(p) ==
    /\ pc[p] = "removed"
    /\ CloseFile(p)
    /\ pc' = [pc EXCEPT ![p] = "idle"]
    /\ UNCHANGED <<path, tries, left>>

Crash(p) ==
    /\ pc[p] # "idle"
    /\ LeaveFile(p)
    /\ pc' = [pc EXCEPT ![p] = "idle"]
    /\ UNCHANGED <<path, tries>>

RunStep(p) ==
    \/ OpenExisting(p) \/ OpenNew(p) \/ GiveUp(p)
    \/ Flock(p) \/ FlockBusy(p) \/ FlockFails(p)
    \/ CompareSame(p) \/ CompareReplaced(p) \/ CompareFails(p)
    \/ RemoveFile(p) \/ RemoveFails(p) \/ CloseAfterRemove(p)

Next == \E p \in Run : Start(p) \/ RunStep(p) \/ Crash(p)

Spec == Init /\ [][Next]_vars

-----------------------------------------------------------------------------
\* Two overlapping runs never synchronize the same destination (sync.go "so
\* overlapping runs, such as from cron, cannot race on the same tree").
OneRunSyncs ==
    \A p, q \in Run : pc[p] = "syncing" /\ pc[q] = "syncing" => p = q

\* A synchronizing run's lock file is the one at the path, so its release
\* removes its own file and no other run's (sync.go "the file is never removed
\* out from under whichever run takes it next").
HolderOwnsPath ==
    \A p \in Run : pc[p] = "syncing" => path = fd[p]

\* A run past its flock holds the lock of the file it has open.
FlockHeld ==
    \A p \in Run :
        pc[p] \in {"flocked", "syncing", "removed"} => fd[p] \in Inode /\ flock[fd[p]] = p

\* A run has a file open exactly between opening and closing it.
OpenFiles ==
    /\ \A p \in Run : fd[p] = None <=> pc[p] \in {"idle", "open"}
    /\ \A i \in Inode : flock[i] # None => fd[flock[i]] = i

LockFileInv == TypeOK /\ FlockHeld /\ OpenFiles /\ HolderOwnsPath

\* A lock file at the path has a run that will remove it, or that is about to
\* learn that its attempt is hopeless while another has the lock, unless since a
\* run last took it over a run crashed with it, failed to remove it, or could
\* not lock or examine it (sync.go "It leaves nothing behind in the published
\* tree, including when a run ends early"): what an earlier run left goes with
\* the next one, and no run leaves a file because others opened it meanwhile.
NothingLeftBehind ==
    path # None /\ ~left => \E p \in Run : fd[p] = path /\ pc[p] \in {"opened", "flocked", "syncing"}
=============================================================================
