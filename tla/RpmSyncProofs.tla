---------------------------- MODULE RpmSyncProofs ----------------------------
(***************************************************************************)
(* Proofs about RpmSync for every upstream, every set of listed files and  *)
(* every choice of options: what is published is complete, in order and    *)
(* signed, and stays in place.  All of it rests on what a run knows about  *)
(* the files it has staged and fetched, at every step of its way, while    *)
(* the live ones stay as an earlier run left them.                         *)
(***************************************************************************)
EXTENDS RpmSync, TLAPS

\* A run has settled which generation it mirrors, and has not published it.
Chosen == run.pc \in {"metadata", "packages", "withdraw"} \/ Publishing

\* Everything is fetched, and the run is on its way to publication.
Complete == run.pc = "withdraw" \/ Publishing

\* The root metadata: what is staged is no older than what is live, and what a
\* run has read stays what it is going to publish.
RootInv ==
    /\ live["repomd"].ver <= up
    /\ staged["repomd"] # Absent => live["repomd"].ver <= staged["repomd"] /\ staged["repomd"] <= up
    /\ "repomd" \notin run.lacks
    /\ run.pc \in {"sig", "key", "verify"} => StagedOrFinal("repomd") # Absent
    /\ Chosen => /\ run.got = StagedOrFinal("repomd") /\ run.got # Absent
                 /\ mode = "required" => run.got \in Trusted
    /\ run.pc \in {"unhide", "prune"} =>
          run.got = live["repomd"].ver /\ run.got # Absent /\ accepted = run.gone
    /\ Publishing => run.before["repomd"].ver = live["repomd"].ver

\* s, the version of a signature, will do for generation g.
Signs(s, g) == s = g \/ (mode = "if-present" /\ s = Absent)

\* The signature: the one the run is going to publish is of the metadata it is
\* going to publish, and the one it would restore of the metadata that is live.
SigInv ==
    mode # "off" =>
        /\ Chosen /\ run.pc # "publish repomd" =>
              IF Unsigned THEN mode = "if-present" ELSE StagedOrFinal("sig") = run.got
        /\ run.pc = "publish repomd" =>
              /\ Signs(live["sig"].ver, run.got)
              /\ ~torn => Signs(run.before["sig"].ver, live["repomd"].ver)
        /\ run.pc \in {"publish key", "publish sig"} => run.before["sig"].ver = live["sig"].ver
        /\ ~torn /\ run.pc # "publish repomd" => Signs(live["sig"].ver, live["repomd"].ver)

\* What an unauthenticated run takes for p it judges by its size.
Good(p) == disk[p] = Want[run.got][p] \/ (~run.auth /\ disk[p] # Absent)

\* p may be missing.
Spent(p) == missing = "ignore" \/ (missing = "retry" /\ budget[p] >= Retries)

\* The files: whatever the metadata lists is still to be fetched, in place, or
\* missed; once all are fetched, what was missed has used its budget up, and
\* is hidden where the metadata is authenticated.
FetchedInv ==
    /\ ~Complete /\ run.pc \notin {"packages", "unhide", "prune"} => run.gone = {}
    /\ run.gone # {} => missing # "fail"
    /\ run.pc \in {"metadata", "packages"} => run.todo \subseteq Listed(run.got)
    /\ run.pc = "metadata" => \A p \in Listed(run.got) \cap Index : p \in run.todo \/ Good(p)
    /\ run.pc = "packages" => \A p \in Listed(run.got) : p \in run.todo \cup run.gone \/ Good(p)
    /\ Complete => /\ \A p \in Listed(run.got) : p \in run.gone \/ Good(p)
                   /\ run.todo \subseteq run.gone
                   /\ \A p \in run.gone :
                         Spent(p) /\ (run.auth => p \in run.todo \/ disk[p] = Absent)
    /\ Publishing => run.todo = {}

\* Every file in place, or hidden, is what some generation lists.
ContentInv ==
    \A p \in Path :
        /\ disk[p] = Absent \/ \E g \in Gen : disk[p] = Want[g][p]
        /\ hidden[p] = Absent \/ \E g \in Gen : hidden[p] = Want[g][p]

\* The live metadata lists p, and was not published without it.
Promised(p) ==
    /\ live["repomd"].ver # Absent
    /\ p \in Listed(live["repomd"].ver) \ accepted

\* What is promised under one content by every generation is in place; nothing of
\* it is among the files that were missed, so that hiding these, and putting
\* them back, leaves it alone.
LiveInv ==
    /\ run.withdrawn \subseteq run.gone
    /\ Chosen => \A p \in run.gone : Promised(p) => ~Settled(p)
    /\ \A p \in Path : Promised(p) /\ Settled(p) => disk[p] = Want[live["repomd"].ver][p]

\* What is promised is not waiting out its grace period.
AgedInv ==
    /\ Grace = 0 => \A p \in Path : aged[p] = Never
    /\ ~crashed /\ run.pc \notin {"unhide", "prune"} =>
          \A p \in Path : Promised(p) => aged[p] = Never

RpmInv ==
    TypeOK /\ RootInv /\ SigInv /\ FetchedInv /\ ContentInv /\ LiveInv /\ AgedInv
-----------------------------------------------------------------------------
LEMMA GenIsNat == Absent \in Nat /\ \A g \in Gen : g \in Nat /\ g # Absent
BY RpmSyncAssumption DEF Gen, Absent

LEMMA ListedInPath == \A g : Listed(g) \subseteq Path
BY DEF Listed

LEMMA StagedOrFinalType ==
    ASSUME TypeOK, NEW f \in Root
    PROVE  StagedOrFinal(f) \in Gen \cup {Absent}
BY DEF TypeOK, StagedOrFinal, RootFile

LEMMA VersionsAreNat ==
    ASSUME TypeOK
    PROVE  up \in Nat /\ up # Absent /\ up <= up /\ live["repomd"].ver \in Nat /\ staged["repomd"] \in Nat
<1>1. up \in Gen /\ live["repomd"].ver \in Gen \cup {Absent} /\ staged["repomd"] \in Gen \cup {Absent}
    BY DEF TypeOK, Root, RootFile
<1>. QED
    BY <1>1, GenIsNat

LEMMA RotateIsLater ==
    ASSUME TypeOK, Rotate
    PROVE  \A v \in Nat : v <= up => v <= up'
<1>1. up \in Nat
    BY VersionsAreNat
<1>2. up' = up + 1
    BY DEF Rotate
<1>. QED
    BY <1>1, <1>2

LEMMA IdleType == Idle \in RunState
<1>1. [f \in Root |-> NoFile] \in [Root -> RootFile]
    BY DEF RootFile, NoFile
<1>. QED
    BY <1>1 DEF Idle, RunState, Place

LEMMA PutBackType ==
    ASSUME TypeOK, PutBack
    PROVE  disk' \in [Path -> Nat] /\ hidden' \in [Path -> Nat]
BY DEF TypeOK, PutBack, Absent

LEMMA PromoteType ==
    ASSUME TypeOK, NEW f \in Root, Promote(f)
    PROVE  live' \in [Root -> RootFile] /\ staged' \in [Root -> Gen \cup {Absent}]
<1>. USE DEF TypeOK, RootFile
<1>1. NoFile \in RootFile
    BY DEF NoFile
<1>2. staged[f] # Absent => [ver |-> staged[f], stamp |-> staged[f]] \in RootFile
    OBVIOUS
<1>. QED
    BY <1>1, <1>2 DEF Promote

LEMMA UnstagedType == Unstaged \in [Root -> Gen \cup {Absent}]
BY DEF Unstaged

LEMMA CountedType ==
    ASSUME TypeOK, NEW p \in Path
    PROVE  Counted(p) \in 0..Retries /\ Retries \in Nat
BY RpmSyncAssumption DEF TypeOK, Counted

LEMMA NothingUnresolved ==
    ASSUME Unresolved = {}, NEW p \in run.gone
    PROVE  missing = "retry" => ~(Counted(p) < Retries)
BY DEF Unresolved

LEMMA TypeOKInit == Init => TypeOK
<1>1. 1 \in Gen /\ 0 \in 0..MaxTime /\ 0 \in 0..Retries
    BY RpmSyncAssumption DEF Gen
<1>2. NoFile \in RootFile
    BY DEF NoFile, RootFile
<1>. SUFFICES ASSUME Init PROVE TypeOK
    OBVIOUS
<1>3. /\ live \in [Root -> RootFile] /\ staged \in [Root -> Gen \cup {Absent}]
      /\ disk \in [Path -> Nat] /\ hidden \in [Path -> Nat]
    BY <1>2 DEF Init, Absent
<1>4. budget \in [Path -> 0..Retries] /\ aged \in [Path -> {Never} \cup 0..MaxTime]
    BY <1>1 DEF Init
<1>. QED
    BY <1>1, <1>3, <1>4, IdleType DEF Init, TypeOK

LEMMA TypeOKStep ==
    ASSUME TypeOK, RootInv, [Next]_vars
    PROVE  TypeOK'
<1>. USE DEF TypeOK
<1>1. CASE Begin
  <2>1. run' \in RunState
      BY <1>1 DEF Begin, Goto, RunState, Place
  <2>. QED
      BY <1>1, <2>1 DEF Begin, Elsewhere, disks
<1>2. ASSUME NEW f \in Root, StageRoot(f) PROVE TypeOK'
  <2>1. run' \in RunState
      BY <1>2 DEF StageRoot, AfterRoot, RunState, Root, Place
  <2>. QED
      BY <1>2, <2>1 DEF StageRoot, Elsewhere
<1>3. CASE AcceptUnverified
  <2>1. StagedOrFinal("repomd") \in Gen \cup {Absent}
      BY StagedOrFinalType DEF Root
  <2>2. run' \in RunState
      BY <1>3, <2>1, ListedInPath DEF AcceptUnverified, Accept, RunState, Place
  <2>. QED
      BY <1>3, <2>2 DEF AcceptUnverified, Elsewhere, disks
<1>4. CASE Verify
  <2>1. StagedOrFinal("repomd") \in Gen \cup {Absent}
      BY StagedOrFinalType DEF Root
  <2>2. run' \in RunState
      BY <1>4, <2>1, ListedInPath DEF Verify, Accept, RunState, Place
  <2>. QED
      BY <1>4, <2>2 DEF Verify, Elsewhere, disks
<1>5. CASE Refetch
  <2>1. run' \in RunState
      BY <1>5 DEF Refetch, RunState, Place
  <2>. QED
      BY <1>5, <2>1 DEF Refetch, Elsewhere, disks
<1>6. CASE Fail
    BY <1>6, IdleType, UnstagedType DEF Fail, Elsewhere
<1>7. ASSUME NEW p \in Path, FindInPlace(p) PROVE TypeOK'
  <2>1. run' \in RunState
      BY <1>7 DEF FindInPlace, RunState
  <2>. QED
      BY <1>7, <2>1 DEF FindInPlace, Elsewhere, disks
<1>8. ASSUME NEW p \in Path, Download(p) PROVE TypeOK'
  <2>1. run' \in RunState
      BY <1>8 DEF Download, RunState
  <2>2. run.got \in Gen
      BY <1>8 DEF Download, Take, RootInv, Chosen, RunState
  <2>3. Want[run.got][p] \in Nat
      BY <2>2, RpmSyncAssumption
  <2>. QED
      BY <1>8, <2>1, <2>3 DEF Download, Elsewhere
<1>9. ASSUME NEW p \in Path, Miss(p) PROVE TypeOK'
  <2>1. run' \in RunState
      BY <1>9 DEF Miss, RunState
  <2>. QED
      BY <1>9, <2>1 DEF Miss, Elsewhere, disks
<1>10. CASE IndexesDone
  <2>1. run' \in RunState
      BY <1>10, ListedInPath DEF IndexesDone, RunState, Place
  <2>. QED
      BY <1>10, <2>1 DEF IndexesDone, Elsewhere, disks
<1>11. CASE FinishMissing
  <2>1. run' \in RunState
    <3>1. CASE Unresolved = {}
      <4>1. run' = [run EXCEPT !.pc = "withdraw", !.todo = IF run.auth THEN run.gone ELSE {}]
          BY <1>11, <3>1 DEF FinishMissing
      <4>. QED
          BY <4>1 DEF RunState, Place
    <3>2. CASE Unresolved # {}
        BY <1>11, <3>2, IdleType DEF FinishMissing
    <3>. QED
        BY <3>1, <3>2
  <2>2. \A p \in Path : Counted(p) \in 0..Retries
      BY CountedType
  <2>3. budget' \in [Path -> 0..Retries]
      BY <1>11, <2>2 DEF FinishMissing
  <2>4. staged' \in [Root -> Gen \cup {Absent}]
      BY <1>11, UnstagedType DEF FinishMissing
  <2>. QED
      BY <1>11, <2>1, <2>3, <2>4 DEF FinishMissing, Elsewhere
<1>12. ASSUME NEW p \in Path, Withdraw(p) PROVE TypeOK'
  <2>1. run' \in RunState
      BY <1>12 DEF Withdraw, RunState
  <2>2. disk' \in [Path -> Nat] /\ hidden' \in [Path -> Nat]
      BY <1>12 DEF Withdraw, Absent
  <2>. QED
      BY <1>12, <2>1, <2>2 DEF Withdraw, Elsewhere
<1>13. CASE WithdrawFails
    BY <1>13, IdleType, UnstagedType, PutBackType DEF WithdrawFails, Elsewhere
<1>14. CASE Snapshot
  <2>1. run' \in RunState
      BY <1>14 DEF Snapshot, RunState, Place
  <2>. QED
      BY <1>14, <2>1 DEF Snapshot, Elsewhere, disks
<1>15. CASE PublishKey
  <2>1. run' \in RunState
      BY <1>15 DEF PublishKey, Goto, RunState, Place
  <2>2. live' \in [Root -> RootFile] /\ staged' \in [Root -> Gen \cup {Absent}]
      BY <1>15, PromoteType DEF PublishKey, Root
  <2>. QED
      BY <1>15, <2>1, <2>2 DEF PublishKey, Elsewhere
<1>16. CASE PublishSignature
  <2>1. run' \in RunState
      BY <1>16 DEF PublishSignature, Goto, RunState, Place
  <2>2. live' \in [Root -> RootFile] /\ staged' \in [Root -> Gen \cup {Absent}]
      BY <1>16, PromoteType DEF PublishSignature, Root
  <2>. QED
      BY <1>16, <2>1, <2>2 DEF PublishSignature, Elsewhere
<1>17. CASE PublishRepomd
  <2>1. run' \in RunState
      BY <1>17 DEF PublishRepomd, Goto, RunState, Place
  <2>2. live' \in [Root -> RootFile] /\ staged' \in [Root -> Gen \cup {Absent}]
      BY <1>17, PromoteType DEF PublishRepomd, Root
  <2>3. accepted' \in SUBSET Path /\ torn' \in BOOLEAN
      BY <1>17 DEF PublishRepomd, RunState
  <2>. QED
      BY <1>17, <2>1, <2>2, <2>3 DEF PublishRepomd, Elsewhere
<1>18. CASE RollBack
  <2>1. \A f \in Root : [ver |-> run.before[f].ver, stamp |-> up] \in RootFile /\ NoFile \in RootFile
      BY DEF RunState, RootFile, NoFile
  <2>2. live' \in [Root -> RootFile] /\ torn' \in BOOLEAN
      BY <1>18, <2>1 DEF RollBack
  <2>. QED
      BY <1>18, <2>2, IdleType, UnstagedType, PutBackType DEF RollBack, Elsewhere
<1>19. CASE Unhide
  <2>1. run' \in RunState
      BY <1>19 DEF Unhide, Goto, RunState, Place
  <2>2. hidden' \in [Path -> Nat]
      BY <1>19 DEF Unhide, Absent
  <2>. QED
      BY <1>19, <2>1, <2>2 DEF Unhide, Elsewhere
<1>20. CASE Prune
  <2>1. disk' \in [Path -> Nat] /\ hidden' \in [Path -> Nat]
      BY <1>20 DEF Prune, Absent
  <2>2. aged' \in [Path -> {Never} \cup 0..MaxTime]
      BY <1>20 DEF Prune
  <2>. QED
      BY <1>20, <2>1, <2>2, IdleType, UnstagedType DEF Prune, Elsewhere
<1>21. CASE Crash
  <2>1. disk' \in [Path -> Nat]
    <3>1. PICK pruned : disk' = [p \in Path |-> IF p \in pruned THEN Absent ELSE disk[p]]
        BY <1>21 DEF Crash
    <3>. QED
        BY <3>1 DEF Absent
  <2>. QED
      BY <1>21, <2>1, IdleType DEF Crash, Elsewhere
<1>22. CASE Rotate
    BY <1>22, RpmSyncAssumption DEF Rotate, disks, Gen
<1>23. CASE Tick
    BY <1>23, RpmSyncAssumption DEF Tick, disks
<1>24. CASE UNCHANGED vars
    BY <1>24 DEF vars, disks
<1>. QED
    BY <1>1, <1>2, <1>3, <1>4, <1>5, <1>6, <1>7, <1>8, <1>9, <1>10, <1>11, <1>12, <1>13, <1>14,
       <1>15, <1>16, <1>17, <1>18, <1>19, <1>20, <1>21, <1>22, <1>23, <1>24 DEF Next, RunStep,
       Publish

(* The root metadata. *)
LEMMA RootStep ==
    ASSUME TypeOK, RootInv, [Next]_vars
    PROVE  RootInv'
<1>. USE DEF TypeOK, RootInv, Chosen, Publishing, StagedOrFinal, RunState, RootFile, Root,
         NoFile
<1>1. CASE Begin
    BY <1>1 DEF Begin, Goto, Elsewhere, disks
<1>2. ASSUME NEW f \in Root, StageRoot(f) PROVE RootInv'
  <2>1. CASE f = "repomd"
    <3>1. f \in Serves[up]
        BY <1>2, <2>1 DEF StageRoot
    <3>2. staged'["repomd"] = up \/ (staged'["repomd"] = Absent /\ live["repomd"].ver # Absent)
        BY <1>2, <2>1, <3>1 DEF StageRoot, NotModified
    <3>3. up' = up /\ live' = live /\ run'.pc = "sig" /\ run'.lacks = run.lacks
        BY <1>2, <2>1, <3>1 DEF StageRoot, AfterRoot, Elsewhere
    <3>. QED
        BY <2>1, <3>2, <3>3, VersionsAreNat
  <2>2. CASE f # "repomd"
      BY <1>2, <2>2 DEF StageRoot, AfterRoot, Elsewhere
  <2>. QED
      BY <2>1, <2>2
<1>3. CASE AcceptUnverified
    BY <1>3 DEF AcceptUnverified, Accept, Elsewhere, disks
<1>4. CASE Verify
    BY <1>4 DEF Verify, Accept, Elsewhere, disks
<1>5. CASE Refetch
    BY <1>5 DEF Refetch, Elsewhere, disks
<1>6. CASE Fail
    BY <1>6 DEF Fail, Unstaged, Idle, Elsewhere
<1>7. ASSUME NEW p \in Path, FindInPlace(p) PROVE RootInv'
    BY <1>7 DEF FindInPlace, Take, InPlace, Elsewhere, disks
<1>8. ASSUME NEW p \in Path, Download(p) PROVE RootInv'
    BY <1>8 DEF Download, Take, InPlace, Elsewhere
<1>9. ASSUME NEW p \in Path, Miss(p) PROVE RootInv'
    BY <1>9 DEF Miss, Take, InPlace, Elsewhere, disks
<1>10. CASE IndexesDone
    BY <1>10 DEF IndexesDone, Elsewhere, disks
<1>11. CASE FinishMissing
  <2>1. CASE Unresolved = {}
    <3>1. /\ run.pc = "packages"
          /\ run' = [run EXCEPT !.pc = "withdraw", !.todo = IF run.auth THEN run.gone ELSE {}]
          /\ UNCHANGED <<up, mode, missing, live, staged, disk, hidden, aged, accepted, crashed, torn>>
        BY <1>11, <2>1 DEF FinishMissing, Elsewhere
    <3>. QED
        BY <3>1
  <2>2. CASE Unresolved # {}
    <3>1. /\ run.pc = "packages" /\ run' = Idle /\ staged' = Unstaged
          /\ UNCHANGED <<up, mode, missing, live, disk, hidden, aged, accepted, crashed, torn>>
        BY <1>11, <2>2 DEF FinishMissing, Elsewhere
    <3>. QED
        BY <3>1 DEF Unstaged, Idle
  <2>. QED
      BY <2>1, <2>2
<1>12. ASSUME NEW p \in Path, Withdraw(p) PROVE RootInv'
    BY <1>12 DEF Withdraw, Elsewhere
<1>13. CASE WithdrawFails
    BY <1>13 DEF WithdrawFails, PutBack, Unstaged, Idle, Elsewhere
<1>14. CASE Snapshot
    BY <1>14 DEF Snapshot, Elsewhere, disks
<1>15. CASE PublishKey
    BY <1>15 DEF PublishKey, Promote, Goto, Elsewhere
<1>16. CASE PublishSignature
    BY <1>16 DEF PublishSignature, Promote, Goto, Elsewhere
<1>17. CASE PublishRepomd
    BY <1>17 DEF PublishRepomd, Promote, Goto, Elsewhere
<1>18. CASE RollBack
  <2>1. live'["repomd"].ver = live["repomd"].ver
    <3>1. PICK restored \in SUBSET Root :
             live' = [f \in Root |->
                        IF f \notin restored THEN live[f]
                        ELSE IF run.before[f].ver = Absent THEN NoFile
                        ELSE [ver |-> run.before[f].ver, stamp |-> up]]
        BY <1>18 DEF RollBack
    <3>. QED
        BY <1>18, <3>1 DEF RollBack
  <2>. QED
      BY <1>18, <2>1 DEF RollBack, Unstaged, Idle, Elsewhere
<1>19. CASE Unhide
    BY <1>19 DEF Unhide, Goto, Elsewhere
<1>20. CASE Prune
    BY <1>20 DEF Prune, Unstaged, Idle, Elsewhere
<1>21. CASE Crash
    BY <1>21 DEF Crash, Idle, Elsewhere
<1>22. CASE Rotate
  <2>1. live["repomd"].ver <= up' /\ (staged["repomd"] # Absent => staged["repomd"] <= up')
      BY <1>22, RotateIsLater, VersionsAreNat
  <2>. QED
      BY <1>22, <2>1 DEF Rotate, disks
<1>23. CASE Tick
    BY <1>23 DEF Tick, disks
<1>24. CASE UNCHANGED vars
    BY <1>24 DEF vars, disks
<1>. QED
    BY <1>1, <1>2, <1>3, <1>4, <1>5, <1>6, <1>7, <1>8, <1>9, <1>10, <1>11, <1>12, <1>13, <1>14,
       <1>15, <1>16, <1>17, <1>18, <1>19, <1>20, <1>21, <1>22, <1>23, <1>24 DEF Next, RunStep,
       Publish

(* The signature. *)
LEMMA SigStep ==
    ASSUME TypeOK, RootInv, SigInv, [Next]_vars
    PROVE  SigInv'
<1>. USE DEF TypeOK, RootInv, SigInv, Signs, Unsigned, Chosen, Publishing, StagedOrFinal,
         RunState, RootFile, Root, NoFile
<1>1. CASE Begin
    BY <1>1 DEF Begin, Goto, Elsewhere, disks
<1>2. ASSUME NEW f \in Root, StageRoot(f) PROVE SigInv'
    BY <1>2 DEF StageRoot, AfterRoot, NotModified, Elsewhere
<1>3. CASE AcceptUnverified
    BY <1>3 DEF AcceptUnverified, Accept, Elsewhere, disks
<1>4. CASE Verify
    BY <1>4 DEF Verify, Accept, Elsewhere, disks
<1>5. CASE Refetch
    BY <1>5 DEF Refetch, Elsewhere, disks
<1>6. CASE Fail
    BY <1>6 DEF Fail, Unstaged, Idle, Elsewhere
<1>7. ASSUME NEW p \in Path, FindInPlace(p) PROVE SigInv'
    BY <1>7 DEF FindInPlace, Take, InPlace, Elsewhere, disks
<1>8. ASSUME NEW p \in Path, Download(p) PROVE SigInv'
    BY <1>8 DEF Download, Take, InPlace, Elsewhere
<1>9. ASSUME NEW p \in Path, Miss(p) PROVE SigInv'
    BY <1>9 DEF Miss, Take, InPlace, Elsewhere, disks
<1>10. CASE IndexesDone
    BY <1>10 DEF IndexesDone, Elsewhere, disks
<1>11. CASE FinishMissing
  <2>1. CASE Unresolved = {}
    <3>1. /\ run.pc = "packages"
          /\ run' = [run EXCEPT !.pc = "withdraw", !.todo = IF run.auth THEN run.gone ELSE {}]
          /\ UNCHANGED <<up, mode, missing, live, staged, disk, hidden, aged, accepted, crashed, torn>>
        BY <1>11, <2>1 DEF FinishMissing, Elsewhere
    <3>. QED
        BY <3>1
  <2>2. CASE Unresolved # {}
    <3>1. /\ run.pc = "packages" /\ run' = Idle /\ staged' = Unstaged
          /\ UNCHANGED <<up, mode, missing, live, disk, hidden, aged, accepted, crashed, torn>>
        BY <1>11, <2>2 DEF FinishMissing, Elsewhere
    <3>. QED
        BY <3>1 DEF Unstaged, Idle
  <2>. QED
      BY <2>1, <2>2
<1>12. ASSUME NEW p \in Path, Withdraw(p) PROVE SigInv'
    BY <1>12 DEF Withdraw, Elsewhere
<1>13. CASE WithdrawFails
    BY <1>13 DEF WithdrawFails, PutBack, Unstaged, Idle, Elsewhere
<1>14. CASE Snapshot
    BY <1>14 DEF Snapshot, Elsewhere, disks
<1>15. CASE PublishKey
    BY <1>15 DEF PublishKey, Promote, Goto, Elsewhere
<1>16. CASE PublishSignature
    BY <1>16 DEF PublishSignature, Promote, Goto, Elsewhere
<1>17. CASE PublishRepomd
    BY <1>17 DEF PublishRepomd, Promote, Goto, Elsewhere
<1>18. CASE RollBack
  <2>1. PICK restored \in SUBSET Root :
           /\ live' = [f \in Root |->
                      IF f \notin restored THEN live[f]
                      ELSE IF run.before[f].ver = Absent THEN NoFile
                      ELSE [ver |-> run.before[f].ver, stamp |-> up]]
           /\ torn' = (torn \/ (run.pc = "publish repomd" /\ "sig" \notin restored))
      BY <1>18 DEF RollBack
  <2>2. live'["repomd"].ver = live["repomd"].ver
      BY <1>18, <2>1 DEF RollBack
  <2>3. live'["sig"].ver = IF "sig" \in restored THEN run.before["sig"].ver ELSE live["sig"].ver
      BY <2>1
  <2>. QED
      BY <1>18, <2>1, <2>2, <2>3 DEF RollBack, Idle, Elsewhere
<1>19. CASE Unhide
    BY <1>19 DEF Unhide, Goto, Elsewhere
<1>20. CASE Prune
    BY <1>20 DEF Prune, Unstaged, Idle, Elsewhere
<1>21. CASE Crash
    BY <1>21 DEF Crash, Idle, Elsewhere
<1>22. CASE Rotate
    BY <1>22 DEF Rotate, disks
<1>23. CASE Tick
    BY <1>23 DEF Tick, disks
<1>24. CASE UNCHANGED vars
    BY <1>24 DEF vars, disks
<1>. QED
    BY <1>1, <1>2, <1>3, <1>4, <1>5, <1>6, <1>7, <1>8, <1>9, <1>10, <1>11, <1>12, <1>13, <1>14,
       <1>15, <1>16, <1>17, <1>18, <1>19, <1>20, <1>21, <1>22, <1>23, <1>24 DEF Next, RunStep,
       Publish

(* The files a run fetches. *)
LEMMA FetchedStep ==
    ASSUME TypeOK, RootInv, FetchedInv, [Next]_vars
    PROVE  FetchedInv'
<1>. USE DEF TypeOK, FetchedInv, Good, Spent, Complete, Publishing, Listed, RunState
<1>1. CASE Begin
    BY <1>1 DEF Begin, Goto, Elsewhere, disks
<1>2. ASSUME NEW f \in Root, StageRoot(f) PROVE FetchedInv'
    BY <1>2 DEF StageRoot, AfterRoot, Elsewhere, Root
<1>3. CASE AcceptUnverified
    BY <1>3 DEF AcceptUnverified, Accept, Elsewhere, disks
<1>4. CASE Verify
    BY <1>4 DEF Verify, Accept, Elsewhere, disks
<1>5. CASE Refetch
    BY <1>5 DEF Refetch, Elsewhere, disks
<1>6. CASE Fail
    BY <1>6 DEF Fail, Unstaged, Idle, Elsewhere
<1>7. ASSUME NEW p \in Path, FindInPlace(p) PROVE FetchedInv'
    BY <1>7 DEF FindInPlace, Take, InPlace, Elsewhere, disks
<1>8. ASSUME NEW p \in Path, Download(p) PROVE FetchedInv'
    BY <1>8 DEF Download, Take, InPlace, Elsewhere
<1>9. ASSUME NEW p \in Path, Miss(p) PROVE FetchedInv'
    BY <1>9 DEF Miss, Take, InPlace, Elsewhere, disks
<1>10. CASE IndexesDone
    BY <1>10 DEF IndexesDone, Elsewhere, disks
<1>11. CASE FinishMissing
  <2>1. CASE Unresolved = {}
    <3>1. /\ run.pc = "packages"
          /\ run' = [run EXCEPT !.pc = "withdraw", !.todo = IF run.auth THEN run.gone ELSE {}]
          /\ run.todo = {}
          /\ UNCHANGED <<up, mode, missing, live, staged, disk, hidden, aged, accepted, crashed, torn>>
        BY <1>11, <2>1 DEF FinishMissing, Elsewhere
    <3>2. \A p \in run.gone : Spent(p)'
      <4>. SUFFICES ASSUME NEW p \in run.gone PROVE Spent(p)'
          OBVIOUS
      <4>1. p \in Path /\ missing # "fail" /\ budget' = [q \in Path |-> Counted(q)]
          BY <1>11 DEF FinishMissing
      <4>2. missing = "retry" => ~(Counted(p) < Retries)
          BY <2>1, NothingUnresolved
      <4>3. Counted(p) \in 0..Retries /\ Retries \in Nat
          BY <4>1, CountedType
      <4>4. missing \in {"retry", "ignore"}
          BY <4>1, RpmSyncAssumption
      <4>. QED
          BY <3>1, <4>1, <4>2, <4>3, <4>4
    <3>. QED
        BY <3>1, <3>2
  <2>2. CASE Unresolved # {}
    <3>1. /\ run.pc = "packages" /\ run' = Idle /\ staged' = Unstaged
          /\ UNCHANGED <<up, mode, missing, live, disk, hidden, aged, accepted, crashed, torn>>
        BY <1>11, <2>2 DEF FinishMissing, Elsewhere
    <3>. QED
        BY <3>1 DEF Unstaged, Idle
  <2>. QED
      BY <2>1, <2>2
<1>12. ASSUME NEW p \in Path, Withdraw(p) PROVE FetchedInv'
    BY <1>12 DEF Withdraw, Elsewhere
<1>13. CASE WithdrawFails
    BY <1>13 DEF WithdrawFails, PutBack, Unstaged, Idle, Elsewhere
<1>14. CASE Snapshot
    BY <1>14 DEF Snapshot, Elsewhere, disks
<1>15. CASE PublishKey
    BY <1>15 DEF PublishKey, Promote, Goto, Elsewhere
<1>16. CASE PublishSignature
    BY <1>16 DEF PublishSignature, Promote, Goto, Elsewhere
<1>17. CASE PublishRepomd
    BY <1>17 DEF PublishRepomd, Promote, Goto, Elsewhere
<1>18. CASE RollBack
    BY <1>18 DEF RollBack, PutBack, Unstaged, Idle, Elsewhere
<1>19. CASE Unhide
    BY <1>19 DEF Unhide, Goto, Elsewhere
<1>20. CASE Prune
    BY <1>20 DEF Prune, Unstaged, Idle, Elsewhere
<1>21. CASE Crash
    BY <1>21 DEF Crash, Idle, Elsewhere
<1>22. CASE Rotate
    BY <1>22 DEF Rotate, disks
<1>23. CASE Tick
    BY <1>23 DEF Tick, disks
<1>24. CASE UNCHANGED vars
    BY <1>24 DEF vars, disks
<1>. QED
    BY <1>1, <1>2, <1>3, <1>4, <1>5, <1>6, <1>7, <1>8, <1>9, <1>10, <1>11, <1>12, <1>13, <1>14,
       <1>15, <1>16, <1>17, <1>18, <1>19, <1>20, <1>21, <1>22, <1>23, <1>24 DEF Next, RunStep,
       Publish

(* Putting files back shows nothing new. *)
LEMMA PutBackContent ==
    ASSUME ContentInv, PutBack
    PROVE  ContentInv'
<1>1. PICK back \in SUBSET run.withdrawn :
          /\ disk' = [p \in Path |-> IF p \in back THEN hidden[p] ELSE disk[p]]
          /\ hidden' = [p \in Path |-> IF p \in back THEN Absent ELSE hidden[p]]
    BY DEF PutBack
<1>. QED
    BY <1>1 DEF ContentInv

(* The contents of the files. *)
LEMMA ContentStep ==
    ASSUME TypeOK, RootInv, FetchedInv, ContentInv, [Next]_vars
    PROVE  ContentInv'
<1>. USE DEF TypeOK, ContentInv, RunState
<1>1. CASE Begin
    BY <1>1 DEF Begin, Goto, Elsewhere, disks
<1>2. ASSUME NEW f \in Root, StageRoot(f) PROVE ContentInv'
    BY <1>2 DEF StageRoot, AfterRoot, NotModified, Elsewhere
<1>3. CASE AcceptUnverified
    BY <1>3 DEF AcceptUnverified, Accept, Elsewhere, disks
<1>4. CASE Verify
    BY <1>4 DEF Verify, Accept, Elsewhere, disks
<1>5. CASE Refetch
    BY <1>5 DEF Refetch, Elsewhere, disks
<1>6. CASE Fail
    BY <1>6 DEF Fail, Unstaged, Idle, Elsewhere
<1>7. ASSUME NEW p \in Path, FindInPlace(p) PROVE ContentInv'
    BY <1>7 DEF FindInPlace, Take, InPlace, Elsewhere, disks
<1>8. ASSUME NEW p \in Path, Download(p) PROVE ContentInv'
  <2>1. run.got \in Gen
      BY <1>8 DEF Download, Take, RootInv, Chosen
  <2>. QED
      BY <1>8, <2>1 DEF Download, Elsewhere
<1>9. ASSUME NEW p \in Path, Miss(p) PROVE ContentInv'
    BY <1>9 DEF Miss, Take, InPlace, Elsewhere, disks
<1>10. CASE IndexesDone
    BY <1>10 DEF IndexesDone, Elsewhere, disks
<1>11. CASE FinishMissing
    BY <1>11 DEF FinishMissing, Elsewhere
<1>12. ASSUME NEW p \in Path, Withdraw(p) PROVE ContentInv'
    BY <1>12 DEF Withdraw, Elsewhere
<1>13. CASE WithdrawFails
    BY <1>13, PutBackContent DEF WithdrawFails
<1>14. CASE Snapshot
    BY <1>14 DEF Snapshot, Elsewhere, disks
<1>15. CASE PublishKey
    BY <1>15 DEF PublishKey, Promote, Goto, Elsewhere
<1>16. CASE PublishSignature
    BY <1>16 DEF PublishSignature, Promote, Goto, Elsewhere
<1>17. CASE PublishRepomd
    BY <1>17 DEF PublishRepomd, Promote, Goto, Elsewhere
<1>18. CASE RollBack
    BY <1>18, PutBackContent DEF RollBack
<1>19. CASE Unhide
    BY <1>19 DEF Unhide, Goto, Elsewhere
<1>20. CASE Prune
    BY <1>20 DEF Prune, Unstaged, Idle, Elsewhere
<1>21. CASE Crash
    BY <1>21 DEF Crash, Idle, Elsewhere
<1>22. CASE Rotate
    BY <1>22 DEF Rotate, disks
<1>23. CASE Tick
    BY <1>23 DEF Tick, disks
<1>24. CASE UNCHANGED vars
    BY <1>24 DEF vars, disks
<1>. QED
    BY <1>1, <1>2, <1>3, <1>4, <1>5, <1>6, <1>7, <1>8, <1>9, <1>10, <1>11, <1>12, <1>13, <1>14,
       <1>15, <1>16, <1>17, <1>18, <1>19, <1>20, <1>21, <1>22, <1>23, <1>24 DEF Next, RunStep,
       Publish

(* Only one step changes what the tree shows. *)
LEMMA ShownStays ==
    ASSUME TypeOK, RootInv, [Next]_vars,
           run.pc # "publish repomd" \/ run'.pc # "unhide"
    PROVE  live'["repomd"].ver = live["repomd"].ver /\ accepted' = accepted
<1>. USE DEF TypeOK
<1>1. CASE Begin
    BY <1>1 DEF Begin, Goto, Elsewhere, disks
<1>2. ASSUME NEW f \in Root, StageRoot(f)
      PROVE live'["repomd"].ver = live["repomd"].ver /\ accepted' = accepted
    BY <1>2 DEF StageRoot, AfterRoot, NotModified, Elsewhere
<1>3. CASE AcceptUnverified
    BY <1>3 DEF AcceptUnverified, Accept, Elsewhere, disks
<1>4. CASE Verify
    BY <1>4 DEF Verify, Accept, Elsewhere, disks
<1>5. CASE Refetch
    BY <1>5 DEF Refetch, Elsewhere, disks
<1>6. CASE Fail
    BY <1>6 DEF Fail, Unstaged, Idle, Elsewhere
<1>7. ASSUME NEW p \in Path, FindInPlace(p)
      PROVE live'["repomd"].ver = live["repomd"].ver /\ accepted' = accepted
    BY <1>7 DEF FindInPlace, Take, InPlace, Elsewhere, disks
<1>8. ASSUME NEW p \in Path, Download(p)
      PROVE live'["repomd"].ver = live["repomd"].ver /\ accepted' = accepted
    BY <1>8 DEF Download, Take, InPlace, Elsewhere
<1>9. ASSUME NEW p \in Path, Miss(p)
      PROVE live'["repomd"].ver = live["repomd"].ver /\ accepted' = accepted
    BY <1>9 DEF Miss, Take, InPlace, Elsewhere, disks
<1>10. CASE IndexesDone
    BY <1>10 DEF IndexesDone, Elsewhere, disks
<1>11. CASE FinishMissing
    BY <1>11 DEF FinishMissing, Elsewhere
<1>12. ASSUME NEW p \in Path, Withdraw(p)
      PROVE live'["repomd"].ver = live["repomd"].ver /\ accepted' = accepted
    BY <1>12 DEF Withdraw, Elsewhere
<1>13. CASE WithdrawFails
    BY <1>13 DEF WithdrawFails, PutBack, Unstaged, Idle, Elsewhere
<1>14. CASE Snapshot
    BY <1>14 DEF Snapshot, Elsewhere, disks
<1>15. CASE PublishKey
    BY <1>15 DEF PublishKey, Promote, Elsewhere, Root, RootFile
<1>16. CASE PublishSignature
    BY <1>16 DEF PublishSignature, Promote, Elsewhere, Root, RootFile
<1>17. CASE PublishRepomd
    BY <1>17 DEF PublishRepomd, Goto, RunState
<1>18. CASE RollBack
  <2>1. PICK restored \in SUBSET Root :
           live' = [f \in Root |->
                      IF f \notin restored THEN live[f]
                      ELSE IF run.before[f].ver = Absent THEN NoFile
                      ELSE [ver |-> run.before[f].ver, stamp |-> up]]
      BY <1>18 DEF RollBack
  <2>2. run.before["repomd"].ver = live["repomd"].ver
      BY <1>18 DEF RollBack, RootInv
  <2>3. live'["repomd"].ver = live["repomd"].ver
      BY <2>1, <2>2 DEF Root, NoFile
  <2>. QED
      BY <1>18, <2>3 DEF RollBack
<1>19. CASE Unhide
    BY <1>19 DEF Unhide, Goto, Elsewhere
<1>20. CASE Prune
    BY <1>20 DEF Prune, Unstaged, Idle, Elsewhere
<1>21. CASE Crash
    BY <1>21 DEF Crash, Idle, Elsewhere
<1>22. CASE Rotate
    BY <1>22 DEF Rotate, disks
<1>23. CASE Tick
    BY <1>23 DEF Tick, disks
<1>24. CASE UNCHANGED vars
    BY <1>24 DEF vars, disks
<1>. QED
    BY <1>1, <1>2, <1>3, <1>4, <1>5, <1>6, <1>7, <1>8, <1>9, <1>10, <1>11, <1>12, <1>13, <1>14,
       <1>15, <1>16, <1>17, <1>18, <1>19, <1>20, <1>21, <1>22, <1>23, <1>24 DEF Next, RunStep,
       Publish

LEMMA PublishedIsChosen ==
    ASSUME TypeOK, RootInv, PublishRepomd
    PROVE  live'["repomd"].ver = run.got
BY DEF TypeOK, Root, RootFile, PublishRepomd, Promote, RootInv, Chosen, Publishing,
   StagedOrFinal

LEMMA LiveIsGen ==
    ASSUME TypeOK
    PROVE  live["repomd"].ver \in Gen \cup {Absent}
BY DEF TypeOK, Root, RootFile

LEMMA PromisedStays ==
    ASSUME TypeOK, RootInv, [Next]_vars,
           run.pc # "publish repomd" \/ run'.pc # "unhide"
    PROVE  \A p : Promised(p)' <=> Promised(p)
BY ShownStays DEF Promised

(* What the live metadata lists. *)
LEMMA LiveStep ==
    ASSUME TypeOK, RootInv, FetchedInv, ContentInv, LiveInv, [Next]_vars
    PROVE  LiveInv'
<1>a. run.pc # "publish repomd" \/ run'.pc # "unhide" =>
          /\ live'["repomd"].ver = live["repomd"].ver
          /\ \A p : Promised(p)' <=> Promised(p)
    BY ShownStays, PromisedStays
<1>. USE DEF TypeOK, LiveInv, Chosen, Publishing, RunState
<1>1. CASE Begin
    BY <1>1, <1>a DEF Begin, Goto, Elsewhere, disks
<1>2. ASSUME NEW f \in Root, StageRoot(f) PROVE LiveInv'
    BY <1>2, <1>a DEF StageRoot, AfterRoot, Elsewhere, Root
<1>3. CASE AcceptUnverified
  <2>1. run.gone = {}
      BY <1>3 DEF AcceptUnverified, FetchedInv, Complete
  <2>. QED
      BY <1>3, <1>a, <2>1 DEF AcceptUnverified, Accept, Elsewhere, disks
<1>4. CASE Verify
  <2>1. run.gone = {}
      BY <1>4 DEF Verify, FetchedInv, Complete
  <2>. QED
      BY <1>4, <1>a, <2>1 DEF Verify, Accept, Elsewhere, disks
<1>5. CASE Refetch
    BY <1>5, <1>a DEF Refetch, Elsewhere, disks
<1>6. CASE Fail
    BY <1>6, <1>a DEF Fail, Unstaged, Idle, Elsewhere
<1>7. ASSUME NEW p \in Path, FindInPlace(p) PROVE LiveInv'
    BY <1>7, <1>a DEF FindInPlace, Take, InPlace, Elsewhere, disks
<1>8. ASSUME NEW p \in Path, Download(p) PROVE LiveInv'
  <2>1. p \in Listed(run.got) /\ run.got \in Gen
      BY <1>8 DEF Download, Take, RootInv, FetchedInv
  <2>2. Promised(p) /\ Settled(p) => Want[run.got][p] = Want[live["repomd"].ver][p]
      BY <2>1, LiveIsGen DEF Promised, Settled, Listed
  <2>. QED
      BY <1>8, <1>a, <2>2 DEF Download, Take, Elsewhere
<1>9. ASSUME NEW p \in Path, Miss(p) PROVE LiveInv'
  <2>1. p \in Listed(run.got) /\ run.got \in Gen
      BY <1>9 DEF Miss, Take, RootInv, FetchedInv
  <2>2. Promised(p) /\ Settled(p) => Want[run.got][p] = Want[live["repomd"].ver][p]
      BY <2>1, LiveIsGen DEF Promised, Settled, Listed
  <2>3. Promised(p) => ~Settled(p)
      BY <1>9, <2>2 DEF Miss, InPlace
  <2>. QED
      BY <1>9, <1>a, <2>3 DEF Miss, Take, Elsewhere, disks
<1>10. CASE IndexesDone
    BY <1>10, <1>a DEF IndexesDone, Elsewhere, disks
<1>11. CASE FinishMissing
  <2>1. CASE Unresolved = {}
    <3>1. /\ run.pc = "packages"
          /\ run' = [run EXCEPT !.pc = "withdraw", !.todo = IF run.auth THEN run.gone ELSE {}]
          /\ UNCHANGED <<up, mode, missing, live, staged, disk, hidden, aged, accepted, crashed, torn>>
        BY <1>11, <2>1 DEF FinishMissing, Elsewhere
    <3>. QED
        BY <3>1, <1>a
  <2>2. CASE Unresolved # {}
    <3>1. /\ run.pc = "packages" /\ run' = Idle /\ staged' = Unstaged
          /\ UNCHANGED <<up, mode, missing, live, disk, hidden, aged, accepted, crashed, torn>>
        BY <1>11, <2>2 DEF FinishMissing, Elsewhere
    <3>. QED
        BY <3>1, <1>a DEF Unstaged, Idle
  <2>. QED
      BY <2>1, <2>2
<1>12. ASSUME NEW p \in Path, Withdraw(p) PROVE LiveInv'
  <2>1. p \in run.gone /\ (Promised(p) => ~Settled(p))
      BY <1>12 DEF Withdraw, FetchedInv, Complete
  <2>. QED
      BY <1>12, <1>a, <2>1 DEF Withdraw, Elsewhere
<1>13. CASE WithdrawFails
    BY <1>13, <1>a DEF WithdrawFails, PutBack, Unstaged, Idle, Elsewhere
<1>14. CASE Snapshot
    BY <1>14, <1>a DEF Snapshot, Elsewhere, disks
<1>15. CASE PublishKey
    BY <1>15, <1>a DEF PublishKey, Promote, Goto, Elsewhere
<1>16. CASE PublishSignature
    BY <1>16, <1>a DEF PublishSignature, Promote, Goto, Elsewhere
<1>17. CASE PublishRepomd
  <2>1. live'["repomd"].ver = run.got /\ accepted' = run.gone /\ disk' = disk
      BY <1>17, PublishedIsChosen DEF PublishRepomd, Elsewhere
  <2>2. run' = [run EXCEPT !.pc = "unhide"]
      BY <1>17 DEF PublishRepomd, Goto
  <2>3. ASSUME NEW p \in Path, Promised(p)', Settled(p) PROVE disk[p] = Want[run.got][p]
    <3>1. p \in Listed(run.got) \ run.gone /\ run.got \in Gen
        BY <2>1, <2>3 DEF Promised
    <3>2. Good(p)
        BY <1>17, <3>1 DEF PublishRepomd, FetchedInv, Complete, Publishing
    <3>3. disk[p] # Absent => disk[p] = Want[run.got][p]
        BY <3>1, <2>3 DEF ContentInv, Settled, Listed
    <3>. QED
        BY <3>2, <3>3 DEF Good
  <2>. QED
      BY <2>1, <2>2, <2>3
<1>18. CASE RollBack
    BY <1>18, <1>a DEF RollBack, PutBack, Unstaged, Idle, Elsewhere
<1>19. CASE Unhide
    BY <1>19, <1>a DEF Unhide, Goto, Elsewhere
<1>20. CASE Prune
  <2>1. \A p \in Path : Promised(p) => p \in Kept
      BY <1>20 DEF Prune, RootInv, Promised, Kept
  <2>2. \A p \in Kept : p \in Path => disk'[p] = disk[p]
      BY <1>20 DEF Prune, Expired
  <2>. QED
      BY <1>20, <1>a, <2>1, <2>2 DEF Prune, Idle, Elsewhere
<1>21. CASE Crash
  <2>1. PICK pruned \in IF run.pc = "prune" THEN SUBSET Expired ELSE {{}} :
           disk' = [p \in Path |-> IF p \in pruned THEN Absent ELSE disk[p]]
      BY <1>21 DEF Crash
  <2>2. \A p \in Path : Promised(p) => p \notin pruned
      BY <2>1 DEF Expired, RootInv, Promised, Kept
  <2>. QED
      BY <1>21, <1>a, <2>1, <2>2 DEF Crash, Idle, Elsewhere
<1>22. CASE Rotate
    BY <1>22, <1>a DEF Rotate, disks
<1>23. CASE Tick
    BY <1>23, <1>a DEF Tick, disks
<1>24. CASE UNCHANGED vars
    BY <1>24, <1>a DEF vars, disks
<1>. QED
    BY <1>1, <1>2, <1>3, <1>4, <1>5, <1>6, <1>7, <1>8, <1>9, <1>10, <1>11, <1>12, <1>13, <1>14,
       <1>15, <1>16, <1>17, <1>18, <1>19, <1>20, <1>21, <1>22, <1>23, <1>24 DEF Next, RunStep,
       Publish

(* The times of files that were first found unreferenced. *)
LEMMA AgedStep ==
    ASSUME TypeOK, RootInv, AgedInv, [Next]_vars
    PROVE  AgedInv'
<1>a. run.pc # "publish repomd" \/ run'.pc # "unhide" =>
          /\ live'["repomd"].ver = live["repomd"].ver
          /\ \A p : Promised(p)' <=> Promised(p)
    BY ShownStays, PromisedStays
<1>. USE DEF TypeOK, AgedInv, RunState
<1>1. CASE Begin
    BY <1>1, <1>a DEF Begin, Goto, Elsewhere, disks
<1>2. ASSUME NEW f \in Root, StageRoot(f) PROVE AgedInv'
    BY <1>2, <1>a DEF StageRoot, AfterRoot, Elsewhere, Root
<1>3. CASE AcceptUnverified
    BY <1>3, <1>a DEF AcceptUnverified, Accept, Elsewhere, disks
<1>4. CASE Verify
    BY <1>4, <1>a DEF Verify, Accept, Elsewhere, disks
<1>5. CASE Refetch
    BY <1>5, <1>a DEF Refetch, Elsewhere, disks
<1>6. CASE Fail
    BY <1>6, <1>a DEF Fail, Idle, Elsewhere, Root
<1>7. ASSUME NEW p \in Path, FindInPlace(p) PROVE AgedInv'
    BY <1>7, <1>a DEF FindInPlace, Take, InPlace, Elsewhere, disks
<1>8. ASSUME NEW p \in Path, Download(p) PROVE AgedInv'
    BY <1>8, <1>a DEF Download, Take, InPlace, Elsewhere
<1>9. ASSUME NEW p \in Path, Miss(p) PROVE AgedInv'
    BY <1>9, <1>a DEF Miss, Take, InPlace, Elsewhere, disks
<1>10. CASE IndexesDone
    BY <1>10, <1>a DEF IndexesDone, Elsewhere, disks
<1>11. CASE FinishMissing
  <2>1. CASE Unresolved = {}
    <3>1. /\ run.pc = "packages"
          /\ run' = [run EXCEPT !.pc = "withdraw", !.todo = IF run.auth THEN run.gone ELSE {}]
          /\ UNCHANGED <<up, mode, missing, live, staged, disk, hidden, aged, accepted, crashed, torn>>
        BY <1>11, <2>1 DEF FinishMissing, Elsewhere
    <3>. QED
        BY <3>1, <1>a
  <2>2. CASE Unresolved # {}
    <3>1. /\ run.pc = "packages" /\ run' = Idle /\ staged' = Unstaged
          /\ UNCHANGED <<up, mode, missing, live, disk, hidden, aged, accepted, crashed, torn>>
        BY <1>11, <2>2 DEF FinishMissing, Elsewhere
    <3>. QED
        BY <3>1, <1>a DEF Unstaged, Idle
  <2>. QED
      BY <2>1, <2>2
<1>12. ASSUME NEW p \in Path, Withdraw(p) PROVE AgedInv'
    BY <1>12, <1>a DEF Withdraw, Elsewhere
<1>13. CASE WithdrawFails
    BY <1>13, <1>a DEF WithdrawFails, PutBack, Unstaged, Idle, Elsewhere
<1>14. CASE Snapshot
    BY <1>14, <1>a DEF Snapshot, Elsewhere, disks
<1>15. CASE PublishKey
    BY <1>15, <1>a DEF PublishKey, Promote, Goto, Elsewhere
<1>16. CASE PublishSignature
    BY <1>16, <1>a DEF PublishSignature, Promote, Goto, Elsewhere
<1>17. CASE PublishRepomd
    BY <1>17 DEF PublishRepomd, Goto, Elsewhere
<1>18. CASE RollBack
    BY <1>18, <1>a DEF RollBack, Publishing, Idle, Elsewhere
<1>19. CASE Unhide
    BY <1>19, <1>a DEF Unhide, Goto, Elsewhere
<1>20. CASE Prune
  <2>1. \A p \in Path : Promised(p) => p \in Kept
      BY <1>20 DEF Prune, RootInv, Promised, Kept
  <2>2. \A p \in Path : p \in Kept => aged'[p] = Never
      BY <1>20 DEF Prune
  <2>3. Grace = 0 => aged' = aged
      BY <1>20 DEF Prune
  <2>. QED
      BY <1>20, <1>a, <2>1, <2>2, <2>3 DEF Prune, Idle
<1>21. CASE Crash
    BY <1>21, <1>a DEF Crash, Idle, Elsewhere
<1>22. CASE Rotate
    BY <1>22, <1>a DEF Rotate, disks
<1>23. CASE Tick
    BY <1>23, <1>a DEF Tick, disks
<1>24. CASE UNCHANGED vars
  <2>1. run' = run /\ aged' = aged /\ crashed' = crashed
      BY <1>24 DEF vars, disks
  <2>. QED
      BY <1>a, <2>1
<1>. QED
    BY <1>1, <1>2, <1>3, <1>4, <1>5, <1>6, <1>7, <1>8, <1>9, <1>10, <1>11, <1>12, <1>13, <1>14,
       <1>15, <1>16, <1>17, <1>18, <1>19, <1>20, <1>21, <1>22, <1>23, <1>24 DEF Next, RunStep,
       Publish

(* What a run has chosen is no older than what is live, nor newer than what  *)
(* upstream has.                                                             *)
LEMMA ChosenIsLater ==
    ASSUME TypeOK, RootInv, Chosen
    PROVE  /\ run.got \in Nat
           /\ live["repomd"].ver <= run.got /\ run.got <= up
           /\ mode = "required" => run.got \in Trusted
<1>1. run.got = staged["repomd"] \/ run.got = live["repomd"].ver
    BY DEF RootInv, StagedOrFinal
<1>2. live["repomd"].ver <= live["repomd"].ver
    BY VersionsAreNat
<1>. QED
    BY <1>1, <1>2, VersionsAreNat DEF RootInv, StagedOrFinal

LEMMA OnlyPublicationUnhides ==
    ASSUME TypeOK, [Next]_vars, run.pc = "publish repomd", run'.pc = "unhide"
    PROVE  PublishRepomd
<1>1. ~RollBack /\ ~Crash
  <2>1. RollBack \/ Crash => run' = Idle
      BY DEF RollBack, Crash
  <2>2. Idle.pc = "idle"
      BY DEF Idle
  <2>. QED
      BY <2>1, <2>2
<1>2. ~Rotate /\ ~Tick /\ ~UNCHANGED vars
    BY DEF Rotate, Tick, vars
<1>3. ~Begin /\ ~(\E f \in Root : StageRoot(f)) /\ ~AcceptUnverified /\ ~Verify /\ ~Refetch /\ ~Fail
    BY DEF Begin, StageRoot, Root, AcceptUnverified, Verify, Refetch, Fail
<1>4. \A p \in Path : ~FindInPlace(p) /\ ~Download(p) /\ ~Miss(p) /\ ~Withdraw(p)
    BY DEF FindInPlace, Download, Take, Miss, Withdraw
<1>5. ~IndexesDone /\ ~FinishMissing /\ ~WithdrawFails /\ ~Snapshot
    BY DEF IndexesDone, FinishMissing, WithdrawFails, Snapshot
<1>6. ~PublishKey /\ ~PublishSignature /\ ~Unhide /\ ~Prune
    BY DEF PublishKey, PublishSignature, Unhide, Prune
<1>. QED
    BY <1>1, <1>2, <1>3, <1>4, <1>5, <1>6 DEF Next, RunStep, Publish

-----------------------------------------------------------------------------
LEMMA RpmInvInit == Init => RpmInv
<1>. SUFFICES ASSUME Init PROVE RpmInv
    OBVIOUS
<1>1. TypeOK
    BY TypeOKInit
<1>2. run.pc = "idle" /\ run.lacks = {} /\ run.gone = {} /\ run.withdrawn = {}
    BY DEF Init, Idle
<1>3. live = [f \in Root |-> NoFile] /\ staged = [f \in Root |-> Absent]
    BY DEF Init
<1>4. /\ live["repomd"].ver = Absent /\ live["sig"].ver = Absent
      /\ staged["repomd"] = Absent /\ up = 1
    BY <1>3 DEF Init, Root, NoFile
<1>5. RootInv
    BY <1>2, <1>4 DEF RootInv, Chosen, Publishing, Absent
<1>6. SigInv
    BY <1>2, <1>4 DEF SigInv, Chosen, Publishing, Signs
<1>7. FetchedInv
    BY <1>2 DEF FetchedInv, Complete, Publishing
<1>8. ContentInv
    BY DEF Init, ContentInv
<1>9. LiveInv
    BY <1>2, <1>4 DEF LiveInv, Promised, Chosen, Publishing
<1>10. AgedInv
    BY <1>4 DEF Init, AgedInv, Promised
<1>. QED
    BY <1>1, <1>5, <1>6, <1>7, <1>8, <1>9, <1>10 DEF RpmInv

LEMMA RpmInvStep == RpmInv /\ [Next]_vars => RpmInv'
BY TypeOKStep, RootStep, SigStep, FetchedStep, ContentStep, LiveStep, AgedStep DEF RpmInv

(* The inductive invariant of RpmSync.                                       *)
THEOREM RpmSyncInvariant == Spec => []RpmInv
BY RpmInvInit, RpmInvStep, PTL DEF Spec

(* The records that runs leave one another (fetch/missing.go, the prune      *)
(* state) are well formed, and what the live metadata lists and was not      *)
(* missed is not waiting out a grace period.                                 *)
THEOREM RpmSyncRecords == Spec => []RecordsInv
<1>1. RpmInv => RecordsInv
    BY DEF RpmInv, RecordsInv, AgedUnlisted, AgedInv, Promised, Listed
<1>. QED
    BY <1>1, RpmSyncInvariant, PTL

(* The published signature is that of the published repomd.xml, also after a *)
(* publication that failed and was rolled back (rpm.go restoreRPMRoot).      *)
THEOREM RpmSyncSignature == Spec => []SignatureMatches
<1>1. RpmInv => SignatureMatches
    BY DEF RpmInv, SigInv, Signs, SignatureMatches
<1>. QED
    BY <1>1, RpmSyncInvariant, PTL

(* What the live metadata lists stays in place whatever later runs do beside *)
(* it (rpm.go withdrawMissingPackages, fetch.go PruneTree).                  *)
THEOREM RpmSyncLive == Spec => []LiveComplete
<1>1. RpmInv => LiveComplete
    BY DEF RpmInv, LiveInv, Promised, LiveComplete, Listed
<1>. QED
    BY <1>1, RpmSyncInvariant, PTL

(* A generation goes live only when every file it lists is in place, but for *)
(* those whose budget is used up (rpm.go publishRPMRoot, missing.go Finish). *)
THEOREM RpmSyncPublished == Spec => PublishedComplete
<1>1. ASSUME RpmInv, run.pc = "publish repomd", NEW p \in Listed(run.got)
      PROVE  \/ disk[p] = Want[run.got][p]
             \/ ~run.auth /\ disk[p] # Absent
             \/ /\ disk[p] = Absent \/ ~run.auth
                /\ p \in run.gone
                /\ missing = "ignore" \/ (missing = "retry" /\ budget[p] >= Retries)
    BY <1>1 DEF RpmInv, FetchedInv, Complete, Publishing, Good, Spent
<1>2. RpmInv /\ [Next]_vars =>
        [run.pc = "publish repomd" /\ run'.pc = "unhide" =>
         \A p \in Listed(run.got) :
            \/ disk[p] = Want[run.got][p]
            \/ ~run.auth /\ disk[p] # Absent
            \/ /\ disk[p] = Absent \/ ~run.auth
               /\ p \in run.gone
               /\ missing = "ignore" \/ (missing = "retry" /\ budget[p] >= Retries)]_vars
    BY <1>1
<1>. QED
    BY <1>2, RpmSyncInvariant, PTL DEF Spec, PublishedComplete

(* Every step of RpmSync shows the next acceptable generation, or leaves what *)
(* the tree shows alone.                                                     *)
LEMMA StepShows == RpmInv /\ RpmInv' /\ [Next]_vars => [Shown!Next]_<<up, mode, live["repomd"].ver>>
<1>. SUFFICES ASSUME RpmInv, RpmInv', [Next]_vars
              PROVE  [Shown!Next]_<<up, mode, live["repomd"].ver>>
    OBVIOUS
<1>1. CASE PublishRepomd
  <2>1. live'["repomd"].ver = run.got
      BY <1>1, PublishedIsChosen DEF RpmInv
  <2>2. live["repomd"].ver <= run.got /\ run.got <= up /\ (mode = "required" => run.got \in Trusted)
      BY <1>1, ChosenIsLater DEF RpmInv, PublishRepomd, Chosen, Publishing
  <2>3. live["repomd"].ver \in Nat /\ run.got \in Nat /\ up \in Nat
      BY <1>1, ChosenIsLater, VersionsAreNat DEF RpmInv, PublishRepomd, Chosen, Publishing
  <2>4. up' = up /\ mode' = mode
      BY <1>1 DEF PublishRepomd, Elsewhere
  <2>5. run.got = live["repomd"].ver \/ run.got \in live["repomd"].ver + 1 .. up
      BY <2>2, <2>3
  <2>. QED
      BY <2>1, <2>2, <2>4, <2>5 DEF Shown!Next, Shown!Show, Shown!Acceptable
<1>2. CASE ~PublishRepomd /\ Rotate
  <2>1. live'["repomd"].ver = live["repomd"].ver
      BY <1>2 DEF Rotate, disks
  <2>. QED
      BY <1>2, <2>1 DEF Rotate, Shown!Next, Shown!Offer
<1>3. CASE ~PublishRepomd /\ ~Rotate
  <2>1. run.pc # "publish repomd" \/ run'.pc # "unhide"
      BY <1>3, OnlyPublicationUnhides DEF RpmInv
  <2>2. live'["repomd"].ver = live["repomd"].ver
      BY <2>1, ShownStays DEF RpmInv
  <2>3. up' = up /\ mode' = mode
      BY <1>3 DEF Next, RunStep, Publish, Begin, StageRoot, AcceptUnverified, Verify, Refetch,
         Fail,
           FindInPlace, Download, Miss, IndexesDone, FinishMissing, Withdraw, WithdrawFails, Snapshot,
           PublishKey, PublishSignature, RollBack, Unhide, Prune, Crash, Tick, Elsewhere, vars
  <2>. QED
      BY <2>2, <2>3
<1>. QED
    BY <1>1, <1>2, <1>3

(* RpmSync implements Publication: readers see acceptable generations in the *)
(* order upstream publishes them (rpm.go syncRPM).                           *)
THEOREM RpmSyncImplementsPublication == Spec => ShowsGenerations
<1>1. Init => Shown!Init
    BY DEF Init, Shown!Init, NoFile, Root, Absent
<1>. QED
    BY <1>1, StepShows, RpmSyncInvariant, PTL DEF Spec, ShowsGenerations, Shown!Spec

==============================================================================
