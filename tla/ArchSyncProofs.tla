---------------------------- MODULE ArchSyncProofs ---------------------------
(***************************************************************************)
(* Proofs about ArchSync for every upstream, every set of packages and     *)
(* companion files and every choice of options: what the live database     *)
(* lists stays in place, a live signature stands beside the package or the *)
(* database it signs, and companion files are as new as the database.  All *)
(* of it rests on what a run has read, fetched, verified and promoted at   *)
(* each step of its way, while clients read the live tree.                 *)
(***************************************************************************)
EXTENDS ArchSync, FiniteSetTheorems, TLAPS

\* The run has read the database it is going to publish.
Chosen == run.pc \in {"packages", "verify", "again package", "again signature",
                      "promote signatures", "promote packages", "extras",
                      "promote extras", "publish db"}

\* The packages are staged as pairs that are being verified, or promoted.
Verifying == run.pc \in {"verify", "again package", "again signature"}
Promoting == run.pc \in {"promote signatures", "promote packages"}

\* The packages are where clients find them.
Placed == run.pc \in {"extras", "promote extras", "publish db", "prune"}

\* What syncApk never does, and what is only done with signature checks on.
WhereInv ==
    /\ conf.format = "apk" => run.pc \in {"idle", "db", "packages", "publish db", "prune"}
    /\ Verifying \/ Promoting => Checked

\* The database: what a run has read is what it publishes.
DocInv ==
    /\ \A d \in Doc : live[d] <= up /\ staged[d] <= up
    /\ run.lacks \subseteq Doc \ {"db"}
    /\ Chosen => run.got = StagedOrFinal("db")
    /\ run.pc = "prune" => live["db"] = run.got /\ accepted = Missed

\* The signature of the database belongs to it, unless it could not be removed.
SigInv ==
    Checked =>
        /\ Chosen /\ run.pc # "publish db" =>
              \/ "sig" \in run.lacks
              \/ StagedOrFinal("sig") = StagedOrFinal("db") /\ StagedOrFinal("db") \in Trusted
        /\ run.pc = "publish db" =>
              \/ live["sig"] = Absent \/ "sig" \in stuck
              \/ live["sig"] = StagedOrFinal("db") /\ live["sig"] \in Trusted
        /\ "db" \notin torn /\ "sig" \notin stuck =>
              live["sig"] = Absent \/ (live["sig"] = live["db"] /\ live["sig"] \in Trusted)

Current(e) == live[e] = Absent \/ e \in stuck \/ live[e] >= run.got

\* The companion files are of the database's generation or a later one, but for
\* those that could not be removed.
CompanionInv ==
    /\ conf.format = "apk" => \A e \in Doc \ {"db"} : live[e] = Absent
    /\ conf.format = "arch" =>
        /\ run.pc = "check" \/ (Chosen /\ run.pc # "publish db") =>
              "sig" \in run.lacks \/ StagedOrFinal("sig") >= StagedOrFinal("db")
        /\ run.pc = "extras" =>
              \A e \in Extra \ run.todo : e \in run.lacks \/ StagedOrFinal(e) >= run.got
        /\ run.pc = "promote extras" =>
              \A e \in Extra : \/ e \in run.todo /\ (e \in run.lacks \/ StagedOrFinal(e) >= run.got)
                               \/ e \notin run.todo /\ Current(e)
        /\ run.pc = "publish db" => \A e \in Doc \ {"db"} : Current(e)

\* Files have contents that some generation lists.
ContentOf(p, x) == x = Absent \/ \E g \in Gen : x = Want[g][p]

ContentInv == \A f \in File : ContentOf(f[1], disk[f]) /\ ContentOf(f[1], next[f])

\* What the run has left to do, at each step.
TodoInv ==
    /\ run.pc = "packages" =>
          \A f \in run.todo : f \in File /\ f[1] \in Listed(run.got)
    /\ Verifying => run.todo \subseteq OfKind("package") \ run.gone
    /\ run.pc \in {"again package", "again signature"} =>
          \E f \in run.todo : run.pair = {f[1]} /\ Signature(f) \notin run.gone
    /\ run.pc = "promote signatures" => run.todo \subseteq OfKind("signature")
    /\ run.pc = "promote packages" => run.todo \subseteq OfKind("package")
    /\ run.pc \in {"extras", "promote extras"} => run.todo \subseteq Extra

Obtained(f) == IF Checked THEN FileStagedOrFinal(f) # Absent ELSE disk[f] # Absent

\* A pair that was verified.
PairOK(f) ==
    IF Signature(f) \in run.gone THEN conf.mode = "if-present"
    ELSE FileStagedOrFinal(Signature(f)) = FileStagedOrFinal(f)

\* A signature that was promoted, or removed if that was possible.
SignaturePlaced(f) ==
    IF f \in run.gone THEN disk[f] = Absent \/ f[1] \in stray ELSE next[f] = Absent

\* A package that is in place, with its signature where that is required.
PackagePlaced(f) ==
    /\ disk[f] # Absent
    /\ conf.mode = "required" => Signature(f) \notin run.gone /\ disk[Signature(f)] # Absent

\* The packages: each that is listed is still to be fetched, there, or missed.
GatheredInv ==
    /\ run.pc = "packages" =>
          \A f \in File : \/ f[1] \notin Listed(run.got) \/ f \in run.todo \cup run.gone
                          \/ conf.format = "apk" /\ f[2] = "signature"
                          \/ Obtained(f)
    /\ Verifying \/ Promoting =>
          \A f \in File : f[1] \in Listed(run.got) => f \in run.gone \/ FileStagedOrFinal(f) # Absent

\* Those that are to be promoted were verified with their signature.
VerifiedInv ==
    /\ Verifying => \A f \in OfKind("package") : f \in run.gone \cup run.todo \/ PairOK(f)
    /\ Promoting => \A f \in OfKind("package") : f \in run.gone \/ PairOK(f)

\* Signatures are promoted first, and in the end all packages are in place.
PlacedInv ==
    /\ run.pc = "promote signatures" => \A f \in OfKind("signature") \ run.todo : SignaturePlaced(f)
    /\ run.pc = "promote packages" =>
          /\ \A f \in OfKind("signature") : SignaturePlaced(f)
          /\ \A f \in OfKind("package") \ run.todo : f \in run.gone \/ disk[f] # Absent
    /\ Placed => \A f \in OfKind("package") : f \in run.gone \/ PackagePlaced(f)

\* No signature stands beside another package than the one it signs.
PairInv ==
    Checked => \A p \in Package \ (torn \cup stray) :
        disk[<<p, "signature">>] # Absent /\ disk[<<p, "package">>] # Absent
            => disk[<<p, "signature">>] = disk[<<p, "package">>]

\* What the live database promises is in place, and no run misses it.
LiveInv ==
    \A p \in Listed(live["db"]) \ accepted : Settled(p) =>
        /\ disk[<<p, "package">>] # Absent /\ <<p, "package">> \notin run.gone
        /\ conf.mode = "required" => disk[<<p, "signature">>] # Absent

ArchInv ==
    TypeOK /\ WhereInv /\ DocInv /\ SigInv /\ CompanionInv /\ ContentInv /\ TodoInv
    /\ GatheredInv /\ VerifiedInv /\ PlacedInv /\ PairInv /\ LiveInv

-----------------------------------------------------------------------------
(* Types *)
LEMMA GenIsNat == Absent \in Nat /\ 1 \in Gen /\ \A g \in Gen : g \in Nat /\ g # Absent
BY ArchSyncAssumption DEF Gen, Absent

LEMMA Documents == /\ "db" \in Doc /\ "sig" \in Doc /\ Extra \subseteq Doc \ {"db", "sig"}
                   /\ Doc = {"db", "sig"} \cup Extra
BY ArchSyncAssumption DEF Doc

LEMMA Files ==
    /\ \A p \in Package : <<p, "package">> \in File /\ <<p, "signature">> \in File
    /\ \A f \in File : /\ f[1] \in Package /\ f[2] \in {"package", "signature"}
                       /\ f = <<f[1], f[2]>>
                       /\ Signature(f) \in File /\ Signature(f) = <<f[1], "signature">>
                       /\ Signature(f)[1] = f[1] /\ Signature(f)[2] = "signature"
BY DEF File, Signature

LEMMA Contents ==
    \A g \in Gen, p \in Package : Want[g][p] \in Nat
BY ArchSyncAssumption

LEMMA FileTypes ==
    ASSUME TypeOK, NEW f \in File
    PROVE  /\ disk[f] \in Nat /\ next[f] \in Nat /\ FileStagedOrFinal(f) \in Nat
           /\ Upstream(f) \in Nat /\ (Upstream(f) # Absent => Upstream(f) = Want[up][f[1]])
           /\ f[1] \in Package
<1>1. f[1] \in Package /\ up \in Gen /\ Want[up][f[1]] \in Nat
    BY Files, Contents DEF TypeOK
<1>2. disk[f] \in Nat /\ next[f] \in Nat
    BY DEF TypeOK
<1>. QED
    BY <1>1, <1>2 DEF FileStagedOrFinal, Upstream, Absent

LEMMA DocTypes ==
    ASSUME TypeOK, NEW d \in Doc
    PROVE  /\ live[d] \in Gen \cup {Absent} /\ staged[d] \in Gen \cup {Absent}
           /\ StagedOrFinal(d) \in Gen \cup {Absent}
           /\ live[d] \in Nat /\ staged[d] \in Nat /\ StagedOrFinal(d) \in Nat
           /\ up \in Nat /\ up # Absent
<1>1. live[d] \in Gen \cup {Absent} /\ staged[d] \in Gen \cup {Absent} /\ up \in Gen
    BY DEF TypeOK
<1>. QED
    BY <1>1, GenIsNat DEF StagedOrFinal

LEMMA IdleType == Idle \in RunState
BY DEF Idle, RunState, Place

LEMMA MissedType == ASSUME TypeOK PROVE Missed \subseteq Package
<1>1. run.gone \subseteq File
    BY DEF TypeOK, RunState
<1>. QED
    BY <1>1, Files DEF Missed

\* Finishing the records of missing packages, in the middle of a run or at its end.
LEMMA BudgetType ==
    ASSUME TypeOK, FinishMissing
    PROVE  budget' \in [Package -> 0..Retries]
<1>1. \A p \in Package : budget[p] \in 0..Retries
    BY DEF TypeOK
<1>2. \A p \in Package : Counted(p) \in 0..Retries
    BY <1>1, ArchSyncAssumption DEF Counted
<1>. QED
    BY <1>2 DEF FinishMissing, TypeOK

LEMMA FetchedType ==
    ASSUME TypeOK, NEW d \in Doc, NEW fresh, Fetched(d, fresh)
    PROVE  staged' \in [Doc -> Gen \cup {Absent}]
BY DEF TypeOK, Fetched

LEMMA PromoteType ==
    ASSUME TypeOK, NEW d \in Doc, Promote(d)
    PROVE  /\ live' \in [Doc -> Gen \cup {Absent}] /\ staged' \in [Doc -> Gen \cup {Absent}]
           /\ stuck' \in SUBSET Doc
<1>1. StagedOrFinal(d) \in Gen \cup {Absent}
    BY DocTypes
<1>. QED
    BY <1>1 DEF TypeOK, Promote, PromoteStaged, RemoveStale

LEMMA PromoteFileType ==
    ASSUME TypeOK, NEW f \in File, PromoteFile(f) \/ RemoveSignature(f)
    PROVE  disk' \in [File -> Nat] /\ next' \in [File -> Nat]
<1>1. FileStagedOrFinal(f) \in Nat /\ Absent \in Nat
    BY FileTypes, GenIsNat
<1>2. CASE PromoteFile(f)
    BY <1>1, <1>2 DEF TypeOK, PromoteFile
<1>3. CASE RemoveSignature(f)
    BY <1>1, <1>3 DEF TypeOK, RemoveSignature
<1>. QED
    BY <1>2, <1>3

LEMMA CleanupType ==
    ASSUME TypeOK, Cleanup
    PROVE  staged' \in [Doc -> Gen \cup {Absent}] /\ next' \in [File -> Nat]
<1>1. Absent \in Nat
    BY GenIsNat
<1>. QED
    BY <1>1 DEF TypeOK, Cleanup

\* What Select chooses is typed.
LEMMA SelectType ==
    ASSUME TypeOK, NEW r \in RunState, Select(r), live' = live,
           staged' \in [Doc -> Gen \cup {Absent}]
    PROVE  run' \in RunState
<1>. DEFINE g == StagedOrFinal("db")'
            t == {f \in File : f[1] \in Listed(g) /\ (conf.format = "arch" \/ f[2] = "package")}
<1>1. g \in Gen \cup {Absent}
    BY Documents DEF TypeOK, StagedOrFinal
<1>2. t \in SUBSET (File \cup Extra)
    OBVIOUS
<1>3. run' = [r EXCEPT !.pc = "packages", !.got = g, !.todo = t]
    BY DEF Select
<1>. HIDE DEF g, t
<1>. QED
    BY <1>1, <1>2, <1>3 DEF RunState, Place


LEMMA TypeOKInit == Init => TypeOK
<1>. SUFFICES ASSUME Init PROVE TypeOK
    OBVIOUS
<1>1. Absent \in Nat /\ 1 \in Gen /\ 0 \in 0..Retries
    BY GenIsNat, ArchSyncAssumption
<1>. QED
    BY <1>1, IdleType DEF Init, TypeOK

LEMMA TypeOKStep == ASSUME TypeOK, [Next]_vars PROVE TypeOK'
<1>. USE DEF TypeOK, history
<1>1. CASE Begin
  <2>1. run' \in RunState
      BY <1>1 DEF Begin, Goto, RunState, Place
  <2>. QED
      BY <1>1, <2>1 DEF Begin, docs, files
<1>2. CASE StageDb
  <2>1. staged' \in [Doc -> Gen \cup {Absent}] /\ live' = live
      BY <1>2, FetchedType, Documents DEF StageDb
  <2>2. run' \in RunState
    <3>1. CASE Select(run)
        BY <2>1, <3>1, SelectType
    <3>2. CASE Goto("sig")
        BY <3>2 DEF Goto, RunState, Place
    <3>. QED
        BY <1>2, <3>1, <3>2 DEF StageDb
  <2>. QED
      BY <1>2, <2>1, <2>2 DEF StageDb, files
<1>3. CASE StageSig
  <2>1. staged' \in [Doc -> Gen \cup {Absent}] /\ live' = live
      BY <1>3, FetchedType, Documents DEF StageSig
  <2>2. run' \in RunState
    <3>. DEFINE r == [run EXCEPT !.lacks = IF "sig" \in Serves[up] THEN @ ELSE {"sig"}]
    <3>1. r \in RunState
        BY Documents DEF RunState
    <3>2. Select(r) \/ run' = [r EXCEPT !.pc = "check"]
        BY <1>3 DEF StageSig
    <3>. HIDE DEF r
    <3>3. CASE Select(r)
        BY <2>1, <3>1, <3>3, SelectType
    <3>4. CASE run' = [r EXCEPT !.pc = "check"]
        BY <3>1, <3>4 DEF RunState, Place
    <3>. QED
        BY <3>2, <3>3, <3>4
  <2>. QED
      BY <1>3, <2>1, <2>2 DEF StageSig, files
<1>4. CASE CheckSig
  <2>1. staged' = staged /\ live' = live /\ Select(run)
      BY <1>4 DEF CheckSig, docs
  <2>2. run' \in RunState
      BY <2>1, SelectType
  <2>. QED
      BY <1>4, <2>2 DEF CheckSig, docs, files
<1>5. CASE BeginRefetchDb
  <2>1. run' \in RunState
      BY <1>5 DEF BeginRefetchDb, Goto, RunState, Place
  <2>. QED
      BY <1>5, <2>1 DEF BeginRefetchDb, docs, files
<1>6. ASSUME NEW d \in Doc, RefetchDb(d) PROVE TypeOK'
  <2>1. staged' \in [Doc -> Gen \cup {Absent}]
      BY <1>6, FetchedType DEF RefetchDb
  <2>2. run' \in RunState
      BY <1>6 DEF RefetchDb, Goto, RunState, Place
  <2>. QED
      BY <1>6, <2>1, <2>2 DEF RefetchDb, files
<1>7. ASSUME NEW f \in File, KeepFile(f) PROVE TypeOK'
  <2>1. run' \in RunState
      BY <1>7 DEF KeepFile, Taken, RunState
  <2>2. disk' \in [File -> Nat] /\ next' \in [File -> Nat]
      BY <1>7, FileTypes, GenIsNat DEF KeepFile
  <2>. QED
      BY <1>7, <2>1, <2>2 DEF KeepFile, docs
<1>8. ASSUME NEW f \in File, GetFile(f) PROVE TypeOK'
  <2>1. run' \in RunState
      BY <1>8 DEF GetFile, Taken, RunState
  <2>2. disk' \in [File -> Nat] /\ next' \in [File -> Nat]
      BY <1>8, FileTypes, GenIsNat DEF GetFile
  <2>. QED
      BY <1>8, <2>1, <2>2 DEF GetFile, docs
<1>9. ASSUME NEW f \in File, MissFile(f) PROVE TypeOK'
  <2>1. run' \in RunState
      BY <1>9 DEF MissFile, Taken, RunState
  <2>2. disk' \in [File -> Nat] /\ next' \in [File -> Nat]
      BY <1>9, FileTypes, GenIsNat DEF MissFile
  <2>. QED
      BY <1>9, <2>1, <2>2 DEF MissFile, docs
<1>10. CASE PackagesDone
  <2>1. run' \in RunState
    <3>. DEFINE t == {f \in File \ run.gone : f[1] \in Listed(run.got) /\ f[2] = "package"}
    <3>1. t \in SUBSET (File \cup Extra)
        OBVIOUS
    <3>2. \/ run' = [run EXCEPT !.pc = "verify", !.again = FALSE, !.todo = t]
          \/ run' = [run EXCEPT !.pc = "extras", !.todo = Extra]
          \/ run' = [run EXCEPT !.pc = "publish db"]
        BY <1>10 DEF PackagesDone
    <3>3. run \in RunState
        BY DEF TypeOK
    <3>4. {"verify", "extras", "publish db"} \subseteq Place /\ Extra \in SUBSET (File \cup Extra)
        BY DEF Place
    <3>. HIDE DEF t
    <3>5. CASE run' = [run EXCEPT !.pc = "verify", !.again = FALSE, !.todo = t]
        BY <3>1, <3>3, <3>4, <3>5 DEF RunState
    <3>6. CASE run' = [run EXCEPT !.pc = "extras", !.todo = Extra]
        BY <3>3, <3>4, <3>6 DEF RunState
    <3>7. CASE run' = [run EXCEPT !.pc = "publish db"]
        BY <3>3, <3>4, <3>7 DEF RunState
    <3>. QED
        BY <3>2, <3>5, <3>6, <3>7
  <2>. QED
      BY <1>10, <2>1 DEF PackagesDone, docs, files
<1>11. ASSUME NEW f \in File, VerifyPair(f) PROVE TypeOK'
  <2>1. run' \in RunState
    <3>1. /\ run \in RunState /\ run' = [run EXCEPT !.todo = @ \ {f}, !.again = FALSE]
        BY <1>11 DEF VerifyPair, TypeOK
    <3>. QED
        BY <3>1 DEF RunState
  <2>. QED
      BY <1>11, <2>1 DEF VerifyPair, docs, files
<1>12. ASSUME NEW f \in File, BeginRefetchPair(f) PROVE TypeOK'
  <2>1. run' \in RunState
    <3>1. /\ run \in RunState /\ "again package" \in Place /\ {f[1]} \in SUBSET Package
          /\ run' = [run EXCEPT !.pc = "again package", !.again = TRUE, !.pair = {f[1]}]
        BY <1>12, Files DEF BeginRefetchPair, TypeOK, Place
    <3>. QED
        BY <3>1 DEF RunState
  <2>. QED
      BY <1>12, <2>1 DEF BeginRefetchPair, docs, files
<1>13. ASSUME NEW f \in File, RefetchPackage(f) PROVE TypeOK'
  <2>1. run' \in RunState
      BY <1>13 DEF RefetchPackage, Goto, RunState, Place
  <2>2. next' \in [File -> Nat]
    <3>1. CASE next' = [next EXCEPT ![f] = Absent]
        BY <3>1, GenIsNat
    <3>2. CASE Upstream(f) = Wanted(f) /\ next' = [next EXCEPT ![f] = Wanted(f)]
        BY <3>2, FileTypes
    <3>. QED
        BY <1>13, <3>1, <3>2 DEF RefetchPackage
  <2>. QED
      BY <1>13, <2>1, <2>2 DEF RefetchPackage, docs
<1>14. ASSUME NEW f \in File, RefetchSignature(f) PROVE TypeOK'
  <2>1. run' \in RunState
      BY <1>14 DEF RefetchSignature, RunState, Place
  <2>2. next' \in [File -> Nat]
      BY <1>14, FileTypes DEF RefetchSignature
  <2>. QED
      BY <1>14, <2>1, <2>2 DEF RefetchSignature, docs
<1>15. CASE Verified
  <2>1. run' \in RunState
    <3>1. OfKind("signature") \in SUBSET (File \cup Extra)
        BY DEF OfKind
    <3>2. CASE run' = [run EXCEPT !.pc = "promote signatures", !.todo = OfKind("signature")]
        BY <3>1, <3>2 DEF RunState, Place
    <3>. QED
        BY <1>15, <3>2, IdleType DEF Verified
  <2>2. staged' \in [Doc -> Gen \cup {Absent}] /\ next' \in [File -> Nat]
      BY <1>15, CleanupType DEF Verified
  <2>. QED
      BY <1>15, <2>1, <2>2, BudgetType DEF Verified
<1>16. ASSUME NEW f \in File, PromoteSignature(f) PROVE TypeOK'
  <2>1. run' \in RunState
      BY <1>16 DEF PromoteSignature, Taken, RunState
  <2>2. disk' \in [File -> Nat] /\ next' \in [File -> Nat]
      BY <1>16, PromoteFileType DEF PromoteSignature
  <2>3. torn' \in SUBSET (Package \cup {"db"}) /\ stray' \in SUBSET Package
      BY <1>16, Files DEF PromoteSignature, RemoveSignature
  <2>. QED
      BY <1>16, <2>1, <2>2, <2>3 DEF PromoteSignature, docs
<1>17. ASSUME NEW f \in File, PromotePackage(f) PROVE TypeOK'
  <2>1. run' \in RunState
      BY <1>17 DEF PromotePackage, Taken, RunState
  <2>2. disk' \in [File -> Nat] /\ next' \in [File -> Nat]
      BY <1>17, PromoteFileType DEF PromotePackage, files
  <2>3. torn' \in SUBSET (Package \cup {"db"})
      BY <1>17, Files DEF PromotePackage
  <2>. QED
      BY <1>17, <2>1, <2>2, <2>3 DEF PromotePackage, docs
<1>18. CASE SignaturesPromoted
  <2>1. OfKind("package") \in SUBSET (File \cup Extra)
      BY DEF OfKind
  <2>2. run' \in RunState
      BY <1>18, <2>1 DEF SignaturesPromoted, RunState, Place
  <2>. QED
      BY <1>18, <2>2 DEF SignaturesPromoted, docs, files
<1>19. CASE PackagesPromoted
  <2>1. run' \in RunState
      BY <1>19 DEF PackagesPromoted, Goto, RunState, Place
  <2>. QED
      BY <1>19, <2>1 DEF PackagesPromoted, docs, files
<1>20. ASSUME NEW e \in Extra, StageExtra(e) PROVE TypeOK'
  <2>1. run' \in RunState
      BY <1>20, Documents DEF StageExtra, RunState
  <2>2. staged' \in [Doc -> Gen \cup {Absent}]
      BY <1>20, Documents, FetchedType DEF StageExtra
  <2>. QED
      BY <1>20, <2>1, <2>2 DEF StageExtra, files
<1>21. ASSUME NEW e \in Extra, PromoteExtra(e) PROVE TypeOK'
  <2>1. run' \in RunState
      BY <1>21 DEF PromoteExtra, RunState
  <2>2. /\ live' \in [Doc -> Gen \cup {Absent}] /\ staged' \in [Doc -> Gen \cup {Absent}]
        /\ stuck' \in SUBSET Doc
      BY <1>21, Documents, PromoteType DEF PromoteExtra
  <2>. QED
      BY <1>21, <2>1, <2>2 DEF PromoteExtra, files
<1>22. CASE ExtrasStaged
  <2>1. run' \in RunState
      BY <1>22 DEF ExtrasStaged, Goto, RunState, Place
  <2>. QED
      BY <1>22, <2>1 DEF ExtrasStaged, docs, files
<1>23. CASE PublishSig
  <2>1. run' \in RunState
      BY <1>23 DEF PublishSig, Goto, RunState, Place
  <2>2. /\ live' \in [Doc -> Gen \cup {Absent}] /\ staged' \in [Doc -> Gen \cup {Absent}]
        /\ stuck' \in SUBSET Doc
      BY <1>23, Documents, PromoteType DEF PublishSig
  <2>. QED
      BY <1>23, <2>1, <2>2 DEF PublishSig, files
<1>24. CASE PublishDb
  <2>1. run' \in RunState
      BY <1>24 DEF PublishDb, Goto, RunState, Place
  <2>2. /\ live' \in [Doc -> Gen \cup {Absent}] /\ staged' \in [Doc -> Gen \cup {Absent}]
        /\ stuck' \in SUBSET Doc
      BY <1>24, Documents, PromoteType DEF PublishDb
  <2>. QED
      BY <1>24, <2>1, <2>2, MissedType DEF PublishDb, files
<1>25. CASE PromotionFails
  <2>1. run' \in RunState
      BY <1>25, IdleType DEF PromotionFails
  <2>2. staged' \in [Doc -> Gen \cup {Absent}] /\ next' \in [File -> Nat]
      BY <1>25, CleanupType DEF PromotionFails
  <2>. QED
      BY <1>25, <2>1, <2>2 DEF PromotionFails
<1>26. ASSUME NEW f \in File, PruneFile(f) PROVE TypeOK'
  <2>1. disk' \in [File -> Nat] /\ next' \in [File -> Nat]
      BY <1>26, GenIsNat DEF PruneFile
  <2>. QED
      BY <1>26, <2>1 DEF PruneFile, docs
<1>27. CASE Finish
  <2>1. run' \in RunState
      BY <1>27, IdleType DEF Finish
  <2>2. staged' \in [Doc -> Gen \cup {Absent}] /\ next' \in [File -> Nat]
      BY <1>27, CleanupType DEF Finish
  <2>. QED
      BY <1>27, <2>1, <2>2, BudgetType DEF Finish
<1>28. CASE Fail
  <2>1. run' \in RunState
      BY <1>28, IdleType DEF Fail
  <2>2. staged' \in [Doc -> Gen \cup {Absent}] /\ next' \in [File -> Nat]
      BY <1>28, CleanupType DEF Fail
  <2>. QED
      BY <1>28, <2>1, <2>2 DEF Fail
<1>29. CASE Crash
    BY <1>29, IdleType DEF Crash, docs, files
<1>30. CASE Rotate
  <2>1. up' \in Gen
      BY <1>30, ArchSyncAssumption DEF Rotate, Gen
  <2>. QED
      BY <1>30, <2>1 DEF Rotate, docs, files
<1>31. CASE UNCHANGED vars
    BY <1>31 DEF vars, docs, files
<1>32. ASSUME NEW d \in Doc, PruneDoc(d) PROVE TypeOK'
    BY <1>32 DEF PruneDoc, files
<1>. QED
    BY <1>1, <1>2, <1>3, <1>4, <1>5, <1>6, <1>7, <1>8, <1>9, <1>10, <1>11, <1>12, <1>13,
       <1>14, <1>15, <1>16, <1>17, <1>18, <1>19, <1>20, <1>21, <1>22, <1>23, <1>24, <1>25,
       <1>26, <1>27, <1>28, <1>29, <1>30, <1>31, <1>32 DEF Next, Database, Packages, Publish

-----------------------------------------------------------------------------
(* What the steps do *)
\* The run turns to the packages of the database it has read.
Chooses ==
    /\ run'.pc = "packages" /\ run'.got = StagedOrFinal("db")'
    /\ run'.todo = {f \in File : f[1] \in Listed(run'.got) /\ (conf.format = "arch" \/ f[2] = "package")}

LEMMA SelectDoes ==
    ASSUME NEW r \in RunState, Select(r)
    PROVE  Chooses /\ run'.lacks = r.lacks /\ run'.gone = r.gone /\ run'.pair = r.pair
<1>. DEFINE g == StagedOrFinal("db")'
            t == {f \in File : f[1] \in Listed(g) /\ (conf.format = "arch" \/ f[2] = "package")}
<1>1. run' = [r EXCEPT !.pc = "packages", !.got = g, !.todo = t]
    BY DEF Select
<1>2. run'.got = g
  <2>. HIDE DEF g, t
  <2>. QED
      BY <1>1 DEF RunState
<1>3. run'.pc = "packages" /\ run'.todo = t
  <2>. HIDE DEF g, t
  <2>. QED
      BY <1>1 DEF RunState
<1>4. run'.lacks = r.lacks /\ run'.gone = r.gone /\ run'.pair = r.pair
  <2>. HIDE DEF g, t
  <2>. QED
      BY <1>1 DEF RunState
<1>. QED
    BY <1>2, <1>3, <1>4 DEF Chooses

LEMMA FetchedDoes ==
    ASSUME TypeOK, NEW d \in Doc, NEW fresh, Fetched(d, fresh), live' = live
    PROVE  /\ staged'[d] \in {up, Absent} /\ \A e \in Doc \ {d} : staged'[e] = staged[e]
           /\ d \in Serves[up] => StagedOrFinal(d)' = up
           /\ \A e \in Doc \ {d} : StagedOrFinal(e)' = StagedOrFinal(e)
<1>1. up # Absent
    BY DocTypes
<1>2. staged'[d] = (IF d \in Serves[up] /\ (fresh \/ live[d] # up) THEN up ELSE Absent)
      /\ \A e \in Doc \ {d} : staged'[e] = staged[e]
    BY DEF TypeOK, Fetched
<1>3. d \in Serves[up] => StagedOrFinal(d)' = up
    BY <1>1, <1>2 DEF StagedOrFinal
<1>. QED
    BY <1>2, <1>3 DEF StagedOrFinal

LEMMA PromoteDoes ==
    ASSUME TypeOK, NEW d \in Doc, Promote(d)
    PROVE  /\ d \notin run.lacks => live'[d] = StagedOrFinal(d)
           /\ d \in run.lacks => live'[d] = Absent \/ (live'[d] = live[d] /\ d \in stuck')
           /\ staged'[d] = Absent
           /\ \A e \in Doc \ {d} : /\ live'[e] = live[e] /\ staged'[e] = staged[e]
                                   /\ StagedOrFinal(e)' = StagedOrFinal(e)
                                   /\ e \in stuck' <=> e \in stuck
BY DEF TypeOK, Promote, PromoteStaged, RemoveStale, StagedOrFinal

\* A file is promoted; one that was missed stays as it is or, if possible, goes.
Promoted(f) ==
    /\ f \notin run.gone => disk'[f] = FileStagedOrFinal(f) /\ next'[f] = Absent
    /\ f \in run.gone => disk'[f] \in {Absent, disk[f]} /\ next'[f] = next[f]
    /\ \A h \in File : h # f => disk'[h] = disk[h] /\ next'[h] = next[h]

LEMMA PromotedDoes ==
    ASSUME NEW f \in File, Promoted(f)
    PROVE  /\ f \notin run.gone => /\ disk'[f] = FileStagedOrFinal(f) /\ next'[f] = Absent
                                   /\ FileStagedOrFinal(f)' = FileStagedOrFinal(f)
           /\ f \in run.gone => disk'[f] \in {Absent, disk[f]} /\ next'[f] = next[f]
           /\ \A h \in File : h # f => /\ disk'[h] = disk[h] /\ next'[h] = next[h]
                                       /\ FileStagedOrFinal(h)' = FileStagedOrFinal(h)
BY DEF Promoted, FileStagedOrFinal

\* A run ends, or dies: what it was about to publish goes, or is left staged.
Stops ==
    /\ run' = Idle
    /\ UNCHANGED <<up, conf, live, disk, accepted, torn, stuck, stray>>
    /\ \A d \in Doc : staged'[d] \in {staged[d], Absent}
    /\ \A f \in File : next'[f] \in {next[f], Absent}

LEMMA CleanupDoes ==
    ASSUME TypeOK, Cleanup
    PROVE  /\ \A d \in Doc : staged'[d] \in {staged[d], Absent}
           /\ \A f \in File : next'[f] \in {next[f], Absent}
BY DEF TypeOK, Cleanup

LEMMA EndsDo ==
    ASSUME TypeOK, Fail \/ PromotionFails \/ Finish \/ Crash
    PROVE  Stops
<1>1. CASE Crash
    BY <1>1 DEF Crash, Stops, docs, files, history
<1>. QED
    BY <1>1, CleanupDoes DEF Fail, PromotionFails, Finish, Stops, history

LEMMA StopsDoes ==
    ASSUME Stops
    PROVE  /\ run'.pc = "idle" /\ run'.lacks = {} /\ run'.got = Absent /\ run'.todo = {}
           /\ run'.gone = {} /\ run'.pair = {}
           /\ UNCHANGED <<up, conf, live, disk, accepted, torn, stuck, stray>>
           /\ \A d \in Doc : staged'[d] \in {staged[d], Absent}
           /\ \A f \in File : next'[f] \in {next[f], Absent}
BY DEF Stops, Idle

LEMMA BeginDoes ==
    ASSUME TypeOK, Begin
    PROVE  /\ run.pc = "idle" /\ run'.pc = "db"
           /\ run'.lacks = run.lacks /\ run'.got = run.got /\ run'.todo = run.todo
           /\ run'.gone = run.gone /\ run'.pair = run.pair
           /\ UNCHANGED <<up, conf, live, staged, disk, next, budget, accepted, torn, stuck, stray>>
BY DEF TypeOK, RunState, Begin, Goto, docs, files, history

LEMMA StageDbDoes ==
    ASSUME TypeOK, StageDb
    PROVE  /\ run.pc = "db" /\ Fetched("db", FALSE)
           /\ run'.lacks = run.lacks /\ run'.gone = run.gone /\ run'.pair = run.pair
           /\ \/ conf.format = "apk" /\ Chooses
              \/ conf.format # "apk" /\ run'.pc = "sig"
           /\ UNCHANGED <<up, conf, live, disk, next, budget, accepted, torn, stuck, stray>>
<1>1. CASE Select(run)
  <2>1. Chooses /\ run'.lacks = run.lacks /\ run'.gone = run.gone /\ run'.pair = run.pair
      BY <1>1, SelectDoes DEF TypeOK
  <2>. QED
      BY <2>1 DEF StageDb, files, history, Chooses, Goto, TypeOK, RunState
<1>2. CASE conf.format # "apk" /\ Goto("sig")
    BY <1>2 DEF StageDb, files, history, Goto, TypeOK, RunState
<1>. QED
    BY <1>1, <1>2 DEF StageDb

LEMMA StageSigDoes ==
    ASSUME TypeOK, StageSig
    PROVE  /\ run.pc = "sig" /\ Fetched("sig", FALSE)
           /\ run'.gone = run.gone /\ run'.pair = run.pair
           /\ run'.lacks = (IF "sig" \in Serves[up] THEN run.lacks ELSE {"sig"})
           /\ \/ Chooses /\ (~Checked \/ "sig" \in run'.lacks)
              \/ run'.pc = "check"
           /\ UNCHANGED <<up, conf, live, disk, next, budget, accepted, torn, stuck, stray>>
<1>. DEFINE r == [run EXCEPT !.lacks = IF "sig" \in Serves[up] THEN @ ELSE {"sig"}]
<1>1. /\ r \in RunState /\ r.gone = run.gone /\ r.pair = run.pair
      /\ r.lacks = (IF "sig" \in Serves[up] THEN run.lacks ELSE {"sig"})
    BY Documents DEF TypeOK, RunState
<1>2. \/ Select(r) /\ (~Checked \/ "sig" \in r.lacks)
      \/ run' = [r EXCEPT !.pc = "check"]
    BY DEF StageSig
<1>3. run.pc = "sig" /\ Fetched("sig", FALSE) /\ UNCHANGED <<up, conf, live, disk, next, budget, accepted, torn, stuck, stray>>
    BY DEF StageSig, files, history
<1>. HIDE DEF r
<1>4. CASE Select(r) /\ (~Checked \/ "sig" \in r.lacks)
  <2>1. Chooses /\ run'.lacks = r.lacks /\ run'.gone = r.gone /\ run'.pair = r.pair
      BY <1>1, <1>4, SelectDoes
  <2>. QED
      BY <1>1, <1>3, <1>4, <2>1
<1>5. CASE run' = [r EXCEPT !.pc = "check"]
  <2>1. run'.pc = "check" /\ run'.lacks = r.lacks /\ run'.gone = r.gone /\ run'.pair = r.pair
      BY <1>1, <1>5 DEF RunState
  <2>. QED
      BY <1>1, <1>3, <2>1
<1>. QED
    BY <1>2, <1>4, <1>5

LEMMA CheckSigDoes ==
    ASSUME TypeOK, CheckSig
    PROVE  /\ run.pc = "check" /\ Chooses
           /\ StagedOrFinal("sig") = StagedOrFinal("db") /\ StagedOrFinal("db") \in Trusted
           /\ run'.lacks = run.lacks /\ run'.gone = run.gone /\ run'.pair = run.pair
           /\ UNCHANGED <<up, conf, live, staged, disk, next, budget, accepted, torn, stuck, stray>>
<1>1. Select(run) /\ run \in RunState
    BY DEF CheckSig, TypeOK
<1>2. Chooses /\ run'.lacks = run.lacks /\ run'.gone = run.gone /\ run'.pair = run.pair
    BY <1>1, SelectDoes
<1>. QED
    BY <1>2 DEF CheckSig, docs, files, history

LEMMA BeginRefetchDbDoes ==
    ASSUME TypeOK, BeginRefetchDb
    PROVE  /\ run.pc = "check" /\ run'.pc = "again db"
           /\ run'.lacks = run.lacks /\ run'.got = run.got /\ run'.todo = run.todo
           /\ run'.gone = run.gone /\ run'.pair = run.pair
           /\ UNCHANGED <<up, conf, live, staged, disk, next, budget, accepted, torn, stuck, stray>>
BY DEF TypeOK, RunState, BeginRefetchDb, docs, files, history

LEMMA RefetchDbDoes ==
    ASSUME TypeOK, NEW d \in Doc, RefetchDb(d)
    PROVE  /\ d \in Serves[up] /\ Fetched(d, TRUE)
           /\ \/ d = "db" /\ run.pc = "again db" /\ run'.pc = "again sig"
              \/ d = "sig" /\ run.pc = "again sig" /\ run'.pc = "check"
           /\ run'.lacks = run.lacks /\ run'.got = run.got /\ run'.todo = run.todo
           /\ run'.gone = run.gone /\ run'.pair = run.pair
           /\ UNCHANGED <<up, conf, live, disk, next, budget, accepted, torn, stuck, stray>>
BY DEF TypeOK, RunState, RefetchDb, Goto, files, history

LEMMA KeepFileDoes ==
    ASSUME TypeOK, NEW f \in File, KeepFile(f)
    PROVE  /\ run.pc = "packages" /\ run'.pc = "packages" /\ f \in run.todo
           /\ run'.todo = run.todo \ {f} /\ disk[f] # Absent
           /\ run'.lacks = run.lacks /\ run'.got = run.got /\ run'.gone = run.gone
           /\ run'.pair = run.pair
           /\ next'[f] = (IF Checked THEN Absent ELSE next[f])
           /\ \A h \in File : h # f => next'[h] = next[h]
           /\ UNCHANGED <<up, conf, live, staged, disk, budget, accepted, torn, stuck, stray>>
BY DEF TypeOK, RunState, KeepFile, Take, Taken, docs, history

LEMMA GetFileDoes ==
    ASSUME TypeOK, NEW f \in File, GetFile(f)
    PROVE  /\ run.pc = "packages" /\ run'.pc = "packages" /\ f \in run.todo
           /\ run'.todo = run.todo \ {f} /\ Upstream(f) # Absent
           /\ run'.lacks = run.lacks /\ run'.got = run.got /\ run'.gone = run.gone
           /\ run'.pair = run.pair
           /\ next'[f] = (IF Checked THEN Upstream(f) ELSE next[f])
           /\ disk'[f] = (IF Checked THEN disk[f] ELSE Upstream(f))
           /\ \A h \in File : h # f => next'[h] = next[h] /\ disk'[h] = disk[h]
           /\ UNCHANGED <<up, conf, live, staged, budget, accepted, torn, stuck, stray>>
BY DEF TypeOK, RunState, GetFile, Take, Taken, docs, history

LEMMA MissFileDoes ==
    ASSUME TypeOK, NEW f \in File, MissFile(f)
    PROVE  /\ run.pc = "packages" /\ run'.pc = "packages" /\ f \in run.todo
           /\ run'.todo = run.todo \ {f} /\ run'.gone = run.gone \cup {f}
           /\ f[2] = "package" => disk[f] # Wanted(f)
           /\ run'.lacks = run.lacks /\ run'.got = run.got /\ run'.pair = run.pair
           /\ next'[f] = (IF Checked THEN Absent ELSE next[f])
           /\ \A h \in File : h # f => next'[h] = next[h]
           /\ UNCHANGED <<up, conf, live, staged, disk, budget, accepted, torn, stuck, stray>>
BY DEF TypeOK, RunState, MissFile, Take, docs, history

LEMMA PackagesDoneDoes ==
    ASSUME TypeOK, PackagesDone
    PROVE  /\ run.pc = "packages" /\ run.todo = {}
           /\ run'.lacks = run.lacks /\ run'.got = run.got /\ run'.gone = run.gone
           /\ run'.pair = run.pair
           /\ \/ Checked /\ run'.pc = "verify" /\ run'.todo = OfKind("package") \ run.gone
              \/ ~Checked /\ conf.format = "arch" /\ run'.pc = "extras" /\ run'.todo = Extra
              \/ ~Checked /\ conf.format # "arch" /\ run'.pc = "publish db" /\ run'.todo = {}
           /\ UNCHANGED <<up, conf, live, staged, disk, next, budget, accepted, torn, stuck, stray>>
<1>. DEFINE t == {f \in File \ run.gone : f[1] \in Listed(run.got) /\ f[2] = "package"}
<1>1. t = OfKind("package") \ run.gone
    BY DEF OfKind
<1>2. \/ Checked /\ run' = [run EXCEPT !.pc = "verify", !.again = FALSE, !.todo = t]
      \/ ~Checked /\ conf.format = "arch" /\ run' = [run EXCEPT !.pc = "extras", !.todo = Extra]
      \/ ~Checked /\ conf.format # "arch" /\ run' = [run EXCEPT !.pc = "publish db"]
    BY DEF PackagesDone
<1>. HIDE DEF t
<1>. QED
    BY <1>1, <1>2 DEF PackagesDone, docs, files, history, TypeOK, RunState

LEMMA VerifyPairDoes ==
    ASSUME TypeOK, NEW f \in File, VerifyPair(f)
    PROVE  /\ run.pc = "verify" /\ run'.pc = "verify" /\ f \in run.todo
           /\ PairOK(f) /\ run'.todo = run.todo \ {f}
           /\ run'.lacks = run.lacks /\ run'.got = run.got /\ run'.gone = run.gone
           /\ run'.pair = run.pair
           /\ UNCHANGED <<up, conf, live, staged, disk, next, budget, accepted, torn, stuck, stray>>
BY DEF TypeOK, RunState, VerifyPair, PairOK, docs, files, history

LEMMA BeginRefetchPairDoes ==
    ASSUME TypeOK, NEW f \in File, BeginRefetchPair(f)
    PROVE  /\ run.pc = "verify" /\ run'.pc = "again package" /\ f \in run.todo
           /\ Signature(f) \notin run.gone /\ run'.pair = {f[1]}
           /\ run'.lacks = run.lacks /\ run'.got = run.got /\ run'.todo = run.todo
           /\ run'.gone = run.gone
           /\ UNCHANGED <<up, conf, live, staged, disk, next, budget, accepted, torn, stuck, stray>>
BY DEF TypeOK, RunState, BeginRefetchPair, docs, files, history

LEMMA RefetchPackageDoes ==
    ASSUME TypeOK, NEW f \in File, RefetchPackage(f)
    PROVE  /\ run.pc = "again package" /\ run'.pc = "again signature"
           /\ f[1] \in run.pair /\ f[2] = "package"
           /\ run'.lacks = run.lacks /\ run'.got = run.got /\ run'.todo = run.todo
           /\ run'.gone = run.gone /\ run'.pair = run.pair
           /\ \/ disk[f] # Absent /\ next'[f] = Absent
              \/ Upstream(f) = Wanted(f) /\ next'[f] = Wanted(f)
           /\ \A h \in File : h # f => next'[h] = next[h]
           /\ UNCHANGED <<up, conf, live, staged, disk, accepted, torn, stuck, stray>>
BY DEF TypeOK, RunState, RefetchPackage, Goto, docs, history

LEMMA RefetchSignatureDoes ==
    ASSUME TypeOK, NEW f \in File, RefetchSignature(f)
    PROVE  /\ run.pc = "again signature" /\ run'.pc = "verify"
           /\ f[1] \in run.pair /\ f[2] = "signature"
           /\ run'.lacks = run.lacks /\ run'.got = run.got /\ run'.todo = run.todo
           /\ run'.gone = run.gone
           /\ Upstream(f) # Absent /\ next'[f] = Upstream(f)
           /\ \A h \in File : h # f => next'[h] = next[h]
           /\ UNCHANGED <<up, conf, live, staged, disk, accepted, torn, stuck, stray>>
BY DEF TypeOK, RunState, RefetchSignature, docs, history

LEMMA VerifiedDoes ==
    ASSUME TypeOK, Verified
    PROVE  /\ run.pc = "verify" /\ run.todo = {}
           /\ \/ Stops
              \/ /\ run'.pc = "promote signatures" /\ run'.todo = OfKind("signature")
                 /\ run'.lacks = run.lacks /\ run'.got = run.got /\ run'.gone = run.gone /\ run'.pair = run.pair
                 /\ UNCHANGED <<up, conf, live, staged, disk, next, accepted, torn, stuck, stray>>
<1>1. CASE run' = Idle /\ Cleanup
    BY <1>1, CleanupDoes DEF Verified, Stops, history
<1>2. CASE /\ run' = [run EXCEPT !.pc = "promote signatures", !.todo = OfKind("signature")]
           /\ UNCHANGED <<staged, next>>
    BY <1>2 DEF Verified, TypeOK, RunState, history
<1>. QED
    BY <1>1, <1>2 DEF Verified

LEMMA PromoteSignatureDoes ==
    ASSUME TypeOK, NEW f \in File, PromoteSignature(f)
    PROVE  /\ run.pc = "promote signatures" /\ run'.pc = "promote signatures"
           /\ f \in run.todo /\ Promoted(f)
           /\ f \in run.gone => disk'[f] = Absent \/ f[1] \in stray'
           /\ stray' \ {f[1]} = stray \ {f[1]}
           /\ run'.todo = run.todo \ {f}
           /\ torn' = torn \cup {f[1]}
           /\ run'.lacks = run.lacks /\ run'.got = run.got /\ run'.gone = run.gone
           /\ run'.pair = run.pair
           /\ UNCHANGED <<up, conf, live, staged, budget, accepted, stuck>>
<1>1. CASE f \in run.gone
    BY <1>1 DEF TypeOK, RunState, PromoteSignature, RemoveSignature, Promoted, Taken, docs
<1>2. CASE f \notin run.gone
    BY <1>2 DEF TypeOK, RunState, PromoteSignature, PromoteFile, Promoted, Taken, docs
<1>. QED
    BY <1>1, <1>2

LEMMA PromotePackageDoes ==
    ASSUME TypeOK, NEW f \in File, PromotePackage(f)
    PROVE  /\ run.pc = "promote packages" /\ run'.pc = "promote packages" /\ f \in run.todo
           /\ Promoted(f)
           /\ f \in run.gone => disk' = disk
           /\ run'.todo = run.todo \ {f}
           /\ torn' = (IF f \in run.gone THEN torn ELSE torn \ {f[1]})
           /\ run'.lacks = run.lacks /\ run'.got = run.got /\ run'.gone = run.gone
           /\ run'.pair = run.pair
           /\ UNCHANGED <<up, conf, live, staged, budget, accepted, stuck, stray>>
<1>1. CASE f \in run.gone
    BY <1>1 DEF TypeOK, RunState, PromotePackage, Promoted, Taken, docs, files
<1>2. CASE f \notin run.gone
    BY <1>2 DEF TypeOK, RunState, PromotePackage, PromoteFile, Promoted, Taken, docs
<1>. QED
    BY <1>1, <1>2

LEMMA SignaturesPromotedDoes ==
    ASSUME TypeOK, SignaturesPromoted
    PROVE  /\ run.pc = "promote signatures" /\ run'.pc = "promote packages"
           /\ run.todo = {} /\ run'.todo = OfKind("package")
           /\ run'.lacks = run.lacks /\ run'.got = run.got /\ run'.gone = run.gone
           /\ run'.pair = run.pair
           /\ UNCHANGED <<up, conf, live, staged, disk, next, budget, accepted, torn, stuck, stray>>
BY DEF TypeOK, RunState, SignaturesPromoted, docs, files, history

LEMMA PackagesPromotedDoes ==
    ASSUME TypeOK, PackagesPromoted
    PROVE  /\ run.pc = "promote packages" /\ run'.pc = "extras"
           /\ run.todo = {} /\ run'.todo = Extra
           /\ run'.lacks = run.lacks /\ run'.got = run.got /\ run'.gone = run.gone
           /\ run'.pair = run.pair
           /\ UNCHANGED <<up, conf, live, staged, disk, next, budget, accepted, torn, stuck, stray>>
BY DEF TypeOK, RunState, PackagesPromoted, docs, files, history

LEMMA StageExtraDoes ==
    ASSUME TypeOK, NEW e \in Extra, StageExtra(e)
    PROVE  /\ run.pc = "extras" /\ run'.pc = "extras" /\ e \in run.todo /\ Fetched(e, FALSE)
           /\ run'.todo = run.todo \ {e}
           /\ run'.lacks = (IF e \in Serves[up] THEN run.lacks ELSE run.lacks \cup {e})
           /\ run'.got = run.got /\ run'.gone = run.gone /\ run'.pair = run.pair
           /\ UNCHANGED <<up, conf, live, disk, next, budget, accepted, torn, stuck, stray>>
BY DEF TypeOK, RunState, StageExtra, files, history

LEMMA ExtrasStagedDoes ==
    ASSUME TypeOK, ExtrasStaged
    PROVE  /\ run.pc = "extras" /\ run'.pc = "promote extras"
           /\ run.todo = {} /\ run'.todo = Extra
           /\ run'.lacks = run.lacks /\ run'.got = run.got /\ run'.gone = run.gone
           /\ run'.pair = run.pair
           /\ UNCHANGED <<up, conf, live, staged, disk, next, budget, accepted, torn, stuck, stray>>
BY DEF TypeOK, RunState, ExtrasStaged, docs, files, history

LEMMA PromoteExtraDoes ==
    ASSUME TypeOK, NEW e \in Extra, PromoteExtra(e)
    PROVE  /\ run.pc = "promote extras" /\ run'.pc = "promote extras" /\ e \in run.todo
           /\ Promote(e)
           /\ run'.todo = run.todo \ {e}
           /\ run'.lacks = run.lacks /\ run'.got = run.got /\ run'.gone = run.gone
           /\ run'.pair = run.pair
           /\ UNCHANGED <<up, conf, disk, next, budget, accepted, torn, stray>>
BY DEF TypeOK, RunState, PromoteExtra, files

LEMMA PublishSigDoes ==
    ASSUME TypeOK, PublishSig
    PROVE  /\ run.pc = "promote extras" /\ run'.pc = "publish db" /\ run.todo = {}
           /\ Promote("sig")
           /\ torn' = torn \cup {"db"}
           /\ run'.lacks = run.lacks /\ run'.got = run.got /\ run'.todo = run.todo
           /\ run'.gone = run.gone /\ run'.pair = run.pair
           /\ UNCHANGED <<up, conf, disk, next, budget, accepted, stray>>
BY DEF TypeOK, RunState, PublishSig, Goto, files

LEMMA PublishDbDoes ==
    ASSUME TypeOK, PublishDb
    PROVE  /\ run.pc = "publish db" /\ run'.pc = "prune" /\ Promote("db")
           /\ accepted' = Missed /\ torn' = torn \ {"db"}
           /\ run'.lacks = run.lacks /\ run'.got = run.got /\ run'.todo = run.todo
           /\ run'.gone = run.gone /\ run'.pair = run.pair
           /\ UNCHANGED <<up, conf, disk, next, budget, stray>>
BY DEF TypeOK, RunState, PublishDb, Goto, files

LEMMA PruneFileDoes ==
    ASSUME TypeOK, NEW f \in File, PruneFile(f)
    PROVE  /\ run.pc = "prune" /\ run' = run
           /\ \/ f \notin Kept /\ disk'[f] = Absent /\ next' = next
              \/ disk'[f] = disk[f] /\ next'[f] = Absent
           /\ \A h \in File : h # f => disk'[h] = disk[h] /\ next'[h] = next[h]
           /\ UNCHANGED <<up, conf, live, staged, budget, accepted, torn, stuck, stray>>
BY DEF TypeOK, RunState, PruneFile, docs, history

LEMMA PruneDocDoes ==
    ASSUME TypeOK, NEW d \in Doc, PruneDoc(d)
    PROVE  /\ run.pc = "prune" /\ run' = run /\ d \in run.lacks
           /\ live'[d] = Absent /\ d \notin stuck'
           /\ \A e \in Doc : e # d => live'[e] = live[e] /\ (e \in stuck' <=> e \in stuck)
           /\ UNCHANGED <<up, conf, staged, disk, next, budget, accepted, torn, stray>>
BY DEF TypeOK, PruneDoc, files

LEMMA RotateDoes ==
    ASSUME TypeOK, Rotate
    PROVE  up' > up /\ run' = run /\ UNCHANGED <<conf, live, staged, disk, next, budget, accepted, torn, stuck, stray>>
<1>1. up \in Nat
    BY GenIsNat DEF TypeOK
<1>. QED
    BY <1>1 DEF Rotate, docs, files, history

\* The options stay.
LEMMA ConfStays == ASSUME [Next]_vars PROVE conf' = conf /\ (Checked' <=> Checked)
<1>1. conf' = conf
    BY DEF Next, Database, Packages, Publish, Begin, StageDb, StageSig, CheckSig,
       BeginRefetchDb, RefetchDb, KeepFile, GetFile, MissFile, PackagesDone, VerifyPair,
       BeginRefetchPair, RefetchPackage, RefetchSignature, Verified, PromoteSignature,
       PromotePackage, SignaturesPromoted, PackagesPromoted, StageExtra, PromoteExtra,
       ExtrasStaged, PublishSig, PublishDb, PromotionFails, PruneFile, PruneDoc, Finish, Fail, Crash,
       Rotate, vars
<1>. QED
    BY <1>1 DEF Checked


-----------------------------------------------------------------------------
(* Where a run can be *)
LEMMA WhereStep == ASSUME TypeOK, WhereInv, [Next]_vars PROVE WhereInv'
<1>a. conf' = conf /\ (Checked' <=> Checked) /\ (conf.format = "apk" => ~Checked)
      /\ conf.format \in {"arch", "apk"}
    BY ConfStays, ArchSyncAssumption DEF TypeOK, Checked
<1>b. ~Checked => ~Verifying /\ ~Promoting
    BY DEF WhereInv
<1>1. CASE Begin
    BY <1>1, BeginDoes, <1>a, <1>b DEF WhereInv, Verifying, Promoting, Chooses
<1>2. CASE StageDb
    BY <1>2, StageDbDoes, <1>a, <1>b DEF WhereInv, Verifying, Promoting, Chooses
<1>3. CASE StageSig
    BY <1>3, StageSigDoes, <1>a, <1>b DEF WhereInv, Verifying, Promoting, Chooses
<1>4. CASE CheckSig
    BY <1>4, CheckSigDoes, <1>a, <1>b DEF WhereInv, Verifying, Promoting, Chooses
<1>5. CASE BeginRefetchDb
    BY <1>5, BeginRefetchDbDoes, <1>a, <1>b DEF WhereInv, Verifying, Promoting, Chooses
<1>6. ASSUME NEW d \in Doc, RefetchDb(d) PROVE WhereInv'
    BY <1>6, RefetchDbDoes, <1>a, <1>b DEF WhereInv, Verifying, Promoting, Chooses
<1>7. ASSUME NEW f \in File, KeepFile(f) PROVE WhereInv'
    BY <1>7, KeepFileDoes, <1>a, <1>b DEF WhereInv, Verifying, Promoting, Chooses
<1>8. ASSUME NEW f \in File, GetFile(f) PROVE WhereInv'
    BY <1>8, GetFileDoes, <1>a, <1>b DEF WhereInv, Verifying, Promoting, Chooses
<1>9. ASSUME NEW f \in File, MissFile(f) PROVE WhereInv'
    BY <1>9, MissFileDoes, <1>a, <1>b DEF WhereInv, Verifying, Promoting, Chooses
<1>10. CASE PackagesDone
    BY <1>10, PackagesDoneDoes, <1>a, <1>b DEF WhereInv, Verifying, Promoting, Chooses
<1>11. ASSUME NEW f \in File, VerifyPair(f) PROVE WhereInv'
    BY <1>11, VerifyPairDoes, <1>a, <1>b DEF WhereInv, Verifying, Promoting, Chooses
<1>12. ASSUME NEW f \in File, BeginRefetchPair(f) PROVE WhereInv'
    BY <1>12, BeginRefetchPairDoes, <1>a, <1>b DEF WhereInv, Verifying, Promoting, Chooses
<1>13. ASSUME NEW f \in File, RefetchPackage(f) PROVE WhereInv'
    BY <1>13, RefetchPackageDoes, <1>a, <1>b DEF WhereInv, Verifying, Promoting, Chooses
<1>14. ASSUME NEW f \in File, RefetchSignature(f) PROVE WhereInv'
    BY <1>14, RefetchSignatureDoes, <1>a, <1>b DEF WhereInv, Verifying, Promoting, Chooses
<1>15. CASE Verified
  <2>1. CASE Stops
      BY <1>a, <2>1, StopsDoes DEF WhereInv, Verifying, Promoting
  <2>. QED
      BY <1>a, <1>b, <1>15, <2>1, VerifiedDoes DEF WhereInv, Verifying, Promoting
<1>16. ASSUME NEW f \in File, PromoteSignature(f) PROVE WhereInv'
    BY <1>16, PromoteSignatureDoes, <1>a, <1>b DEF WhereInv, Verifying, Promoting, Chooses
<1>17. ASSUME NEW f \in File, PromotePackage(f) PROVE WhereInv'
    BY <1>17, PromotePackageDoes, <1>a, <1>b DEF WhereInv, Verifying, Promoting, Chooses
<1>18. CASE SignaturesPromoted
    BY <1>18, SignaturesPromotedDoes, <1>a, <1>b DEF WhereInv, Verifying, Promoting, Chooses
<1>19. CASE PackagesPromoted
    BY <1>19, PackagesPromotedDoes, <1>a, <1>b DEF WhereInv, Verifying, Promoting, Chooses
<1>20. ASSUME NEW e \in Extra, StageExtra(e) PROVE WhereInv'
    BY <1>20, StageExtraDoes, <1>a, <1>b DEF WhereInv, Verifying, Promoting, Chooses
<1>21. ASSUME NEW e \in Extra, PromoteExtra(e) PROVE WhereInv'
    BY <1>21, PromoteExtraDoes, <1>a, <1>b DEF WhereInv, Verifying, Promoting, Chooses
<1>22. CASE ExtrasStaged
    BY <1>22, ExtrasStagedDoes, <1>a, <1>b DEF WhereInv, Verifying, Promoting, Chooses
<1>23. CASE PublishSig
    BY <1>23, PublishSigDoes, <1>a, <1>b DEF WhereInv, Verifying, Promoting, Chooses
<1>24. CASE PublishDb
    BY <1>24, PublishDbDoes, <1>a, <1>b DEF WhereInv, Verifying, Promoting, Chooses
<1>25. ASSUME NEW f \in File, PruneFile(f) PROVE WhereInv'
    BY <1>25, PruneFileDoes, <1>a, <1>b DEF WhereInv, Verifying, Promoting, Chooses
<1>26. CASE Rotate
    BY <1>26, RotateDoes, <1>a, <1>b DEF WhereInv, Verifying, Promoting, Chooses
<1>27. CASE UNCHANGED vars
    BY <1>27, <1>a, <1>b DEF vars, docs, files, history, WhereInv, Verifying, Promoting, Chooses
<1>28. ASSUME Stops PROVE WhereInv'
    BY <1>28, StopsDoes, <1>a, <1>b DEF WhereInv, Verifying, Promoting, Chooses
<1>29. ASSUME NEW d \in Doc, PruneDoc(d) PROVE WhereInv'
    BY <1>29, PruneDocDoes, <1>a, <1>b DEF WhereInv, Verifying, Promoting, Chooses
<1>. QED
    BY <1>1, <1>2, <1>3, <1>4, <1>5, <1>6, <1>7, <1>8, <1>9, <1>10, <1>11, <1>12, <1>13,
       <1>14, <1>15, <1>16, <1>17, <1>18, <1>19, <1>20, <1>21, <1>22, <1>23, <1>24, <1>25,
       <1>26, <1>27, <1>28, <1>29, EndsDo DEF Next, Database, Packages, Publish

-----------------------------------------------------------------------------
(* The database *)
LEMMA DocStep == ASSUME TypeOK, DocInv, [Next]_vars PROVE DocInv'
<1>a. /\ up \in Nat /\ "db" \in Doc /\ "sig" \in Doc /\ Extra \subseteq Doc \ {"db", "sig"}
      /\ \A d \in Doc : live[d] \in Nat /\ staged[d] \in Nat
    BY DocTypes, Documents
<1>1. CASE Begin
    BY <1>1, BeginDoes, <1>a DEF DocInv, Chosen, StagedOrFinal, Missed
<1>2. CASE StageDb
  <2>1. /\ staged'["db"] \in {up, Absent} /\ \A d \in Doc \ {"db"} : staged'[d] = staged[d]
        /\ up' = up /\ live' = live /\ run'.lacks \subseteq Doc \ {"db"}
      BY <1>a, <1>2, StageDbDoes, FetchedDoes DEF DocInv
  <2>2. Absent <= up
      BY <1>a DEF Absent
  <2>3. ASSUME NEW c \in Doc PROVE live'[c] <= up' /\ staged'[c] <= up'
    <3>1. live[c] <= up /\ staged[c] <= up /\ staged'[c] \in {up, Absent, staged[c]}
        BY <2>1 DEF DocInv
    <3>2. up \in Nat /\ staged[c] \in Nat
        BY <1>a
    <3>. QED
        BY <2>1, <2>2, <3>1, <3>2
  <2>4. run'.pc # "prune" /\ (Chosen' => run'.got = StagedOrFinal("db")')
      BY <1>2, StageDbDoes DEF Chosen, Chooses
  <2>. QED
      BY <2>1, <2>3, <2>4 DEF DocInv
<1>3. CASE StageSig
  <2>1. /\ staged'["sig"] \in {up, Absent} /\ \A d \in Doc \ {"sig"} : staged'[d] = staged[d]
        /\ up' = up /\ live' = live /\ run'.lacks \subseteq Doc \ {"db"}
      BY <1>a, <1>3, StageSigDoes, FetchedDoes DEF DocInv
  <2>2. Absent <= up
      BY <1>a DEF Absent
  <2>3. ASSUME NEW c \in Doc PROVE live'[c] <= up' /\ staged'[c] <= up'
    <3>1. live[c] <= up /\ staged[c] <= up /\ staged'[c] \in {up, Absent, staged[c]}
        BY <2>1 DEF DocInv
    <3>2. up \in Nat /\ staged[c] \in Nat
        BY <1>a
    <3>. QED
        BY <2>1, <2>2, <3>1, <3>2
  <2>4. run'.pc # "prune" /\ (Chosen' => run'.got = StagedOrFinal("db")')
      BY <1>3, StageSigDoes DEF Chosen, Chooses
  <2>. QED
      BY <2>1, <2>3, <2>4 DEF DocInv
<1>4. CASE CheckSig
  <2>1. run'.pc # "prune" /\ run'.got = StagedOrFinal("db")'
      BY <1>4, CheckSigDoes DEF Chooses
  <2>. QED
      BY <1>4, <2>1, CheckSigDoes DEF DocInv
<1>5. CASE BeginRefetchDb
    BY <1>5, BeginRefetchDbDoes, <1>a DEF DocInv, Chosen, StagedOrFinal, Missed
<1>6. ASSUME NEW d \in Doc, RefetchDb(d) PROVE DocInv'
  <2>1. /\ staged'[d] \in {up, Absent} /\ \A e \in Doc \ {d} : staged'[e] = staged[e]
        /\ up' = up /\ live' = live /\ run'.lacks \subseteq Doc \ {"db"}
      BY <1>a, <1>6, RefetchDbDoes, FetchedDoes DEF DocInv
  <2>2. Absent <= up
      BY <1>a DEF Absent
  <2>3. ASSUME NEW c \in Doc PROVE live'[c] <= up' /\ staged'[c] <= up'
    <3>1. live[c] <= up /\ staged[c] <= up /\ staged'[c] \in {up, Absent, staged[c]}
        BY <2>1 DEF DocInv
    <3>2. up \in Nat /\ staged[c] \in Nat
        BY <1>a
    <3>. QED
        BY <2>1, <2>2, <3>1, <3>2
  <2>4. run'.pc # "prune" /\ ~Chosen'
      BY <1>6, RefetchDbDoes DEF Chosen
  <2>. QED
      BY <2>1, <2>3, <2>4 DEF DocInv
<1>7. ASSUME NEW f \in File, KeepFile(f) PROVE DocInv'
    BY <1>7, KeepFileDoes, <1>a DEF DocInv, Chosen, StagedOrFinal, Missed
<1>8. ASSUME NEW f \in File, GetFile(f) PROVE DocInv'
    BY <1>8, GetFileDoes, <1>a DEF DocInv, Chosen, StagedOrFinal, Missed
<1>9. ASSUME NEW f \in File, MissFile(f) PROVE DocInv'
    BY <1>9, MissFileDoes, <1>a DEF DocInv, Chosen, StagedOrFinal, Missed
<1>10. CASE PackagesDone
    BY <1>10, PackagesDoneDoes, <1>a DEF DocInv, Chosen, StagedOrFinal, Missed
<1>11. ASSUME NEW f \in File, VerifyPair(f) PROVE DocInv'
    BY <1>11, VerifyPairDoes, <1>a DEF DocInv, Chosen, StagedOrFinal, Missed
<1>12. ASSUME NEW f \in File, BeginRefetchPair(f) PROVE DocInv'
    BY <1>12, BeginRefetchPairDoes, <1>a DEF DocInv, Chosen, StagedOrFinal, Missed
<1>13. ASSUME NEW f \in File, RefetchPackage(f) PROVE DocInv'
    BY <1>13, RefetchPackageDoes, <1>a DEF DocInv, Chosen, StagedOrFinal, Missed
<1>14. ASSUME NEW f \in File, RefetchSignature(f) PROVE DocInv'
    BY <1>14, RefetchSignatureDoes, <1>a DEF DocInv, Chosen, StagedOrFinal, Missed
<1>15. CASE Verified
  <2>1. CASE Stops
    <3>1. ASSUME NEW d \in Doc PROVE live'[d] <= up' /\ staged'[d] <= up'
      <4>1. live[d] <= up /\ staged[d] <= up /\ Absent <= up /\ staged'[d] \in {staged[d], Absent}
          BY <1>a, <2>1, StopsDoes DEF DocInv, Absent
      <4>. QED
          BY <4>1, <2>1, StopsDoes
    <3>. QED
        BY <3>1, <2>1, StopsDoes DEF DocInv, Chosen
  <2>. QED
      BY <1>15, <2>1, VerifiedDoes DEF DocInv, Chosen, StagedOrFinal
<1>16. ASSUME NEW f \in File, PromoteSignature(f) PROVE DocInv'
  <2>1. /\ UNCHANGED <<up, live, staged, accepted>> /\ run'.got = run.got /\ run'.pc = run.pc
        /\ run'.lacks = run.lacks /\ run'.gone = run.gone
      BY <1>16, PromoteSignatureDoes
  <2>. QED
      BY <2>1 DEF DocInv, Chosen, StagedOrFinal, Missed
<1>17. ASSUME NEW f \in File, PromotePackage(f) PROVE DocInv'
  <2>1. /\ UNCHANGED <<up, live, staged, accepted>> /\ run'.got = run.got /\ run'.pc = run.pc
        /\ run'.lacks = run.lacks /\ run'.gone = run.gone
      BY <1>17, PromotePackageDoes
  <2>. QED
      BY <2>1 DEF DocInv, Chosen, StagedOrFinal, Missed
<1>18. CASE SignaturesPromoted
    BY <1>18, SignaturesPromotedDoes, <1>a DEF DocInv, Chosen, StagedOrFinal, Missed
<1>19. CASE PackagesPromoted
    BY <1>19, PackagesPromotedDoes, <1>a DEF DocInv, Chosen, StagedOrFinal, Missed
<1>20. ASSUME NEW e \in Extra, StageExtra(e) PROVE DocInv'
  <2>1. /\ staged'[e] \in {up, Absent} /\ \A d \in Doc \ {e} : staged'[d] = staged[d]
        /\ up' = up /\ live' = live /\ run'.lacks \subseteq Doc \ {"db"}
      BY <1>a, <1>20, StageExtraDoes, FetchedDoes DEF DocInv
  <2>2. Absent <= up
      BY <1>a DEF Absent
  <2>3. ASSUME NEW c \in Doc PROVE live'[c] <= up' /\ staged'[c] <= up'
    <3>1. live[c] <= up /\ staged[c] <= up /\ staged'[c] \in {up, Absent, staged[c]}
        BY <2>1 DEF DocInv
    <3>2. up \in Nat /\ staged[c] \in Nat
        BY <1>a
    <3>. QED
        BY <2>1, <2>2, <3>1, <3>2
  <2>4. run'.pc # "prune" /\ run'.got = run.got /\ Chosen
      BY <1>20, StageExtraDoes DEF Chosen
  <2>5. StagedOrFinal("db")' = StagedOrFinal("db")
      BY <1>a, <2>1 DEF StagedOrFinal
  <2>. QED
      BY <2>1, <2>3, <2>4, <2>5 DEF DocInv
<1>21. ASSUME NEW e \in Extra, PromoteExtra(e) PROVE DocInv'
  <2>1. Promote(e) /\ up' = up /\ run'.lacks = run.lacks /\ run'.got = run.got /\ Chosen
      BY <1>21, PromoteExtraDoes DEF Chosen
  <2>2. /\ live'[e] \in {Absent, live[e], StagedOrFinal(e)} /\ staged'[e] = Absent
        /\ \A d \in Doc \ {e} : /\ live'[d] = live[d] /\ staged'[d] = staged[d]
                                /\ StagedOrFinal(d)' = StagedOrFinal(d)
      BY <1>a, <2>1, PromoteDoes
  <2>3. StagedOrFinal(e) <= up /\ live[e] <= up /\ Absent <= up
      BY <1>a DEF DocInv, StagedOrFinal, Absent
  <2>4. \A d \in Doc : live'[d] <= up' /\ staged'[d] <= up'
      BY <2>1, <2>2, <2>3 DEF DocInv
  <2>5. run'.pc # "prune" /\ StagedOrFinal("db")' = StagedOrFinal("db")
      BY <1>a, <1>21, <2>2, PromoteExtraDoes
  <2>. QED
      BY <2>1, <2>4, <2>5 DEF DocInv
<1>22. CASE ExtrasStaged
    BY <1>22, ExtrasStagedDoes, <1>a DEF DocInv, Chosen, StagedOrFinal, Missed
<1>23. CASE PublishSig
  <2>1. Promote("sig") /\ up' = up /\ run'.lacks = run.lacks /\ run'.got = run.got /\ Chosen
      BY <1>23, PublishSigDoes DEF Chosen
  <2>2. /\ live'["sig"] \in {Absent, live["sig"], StagedOrFinal("sig")} /\ staged'["sig"] = Absent
        /\ \A d \in Doc \ {"sig"} : /\ live'[d] = live[d] /\ staged'[d] = staged[d]
                                /\ StagedOrFinal(d)' = StagedOrFinal(d)
      BY <1>a, <2>1, PromoteDoes
  <2>3. StagedOrFinal("sig") <= up /\ live["sig"] <= up /\ Absent <= up
      BY <1>a DEF DocInv, StagedOrFinal, Absent
  <2>4. \A d \in Doc : live'[d] <= up' /\ staged'[d] <= up'
      BY <2>1, <2>2, <2>3 DEF DocInv
  <2>5. run'.pc # "prune" /\ StagedOrFinal("db")' = StagedOrFinal("db")
      BY <1>a, <1>23, <2>2, PublishSigDoes
  <2>. QED
      BY <2>1, <2>4, <2>5 DEF DocInv
<1>24. CASE PublishDb
  <2>1. Promote("db") /\ up' = up /\ run'.lacks = run.lacks /\ run'.got = run.got /\ Chosen
      BY <1>24, PublishDbDoes DEF Chosen
  <2>2. /\ live'["db"] \in {Absent, live["db"], StagedOrFinal("db")} /\ staged'["db"] = Absent
        /\ \A d \in Doc \ {"db"} : /\ live'[d] = live[d] /\ staged'[d] = staged[d]
                                /\ StagedOrFinal(d)' = StagedOrFinal(d)
      BY <1>a, <2>1, PromoteDoes
  <2>3. StagedOrFinal("db") <= up /\ live["db"] <= up /\ Absent <= up
      BY <1>a DEF DocInv, StagedOrFinal, Absent
  <2>4. \A d \in Doc : live'[d] <= up' /\ staged'[d] <= up'
      BY <2>1, <2>2, <2>3 DEF DocInv
  <2>5. run'.pc = "prune" /\ accepted' = Missed /\ run'.gone = run.gone
      BY <1>24, PublishDbDoes
  <2>6. live'["db"] = run'.got /\ ~Chosen'
      BY <1>a, <2>1, <2>5, PromoteDoes DEF DocInv, Chosen
  <2>7. accepted' = Missed'
      BY <2>5 DEF Missed
  <2>. QED
      BY <2>1, <2>4, <2>5, <2>6, <2>7 DEF DocInv
<1>25. ASSUME NEW f \in File, PruneFile(f) PROVE DocInv'
  <2>1. /\ UNCHANGED <<up, live, staged, accepted>> /\ run'.got = run.got /\ run'.pc = run.pc
        /\ run'.lacks = run.lacks /\ run'.gone = run.gone
      BY <1>25, PruneFileDoes
  <2>. QED
      BY <2>1 DEF DocInv, Chosen, StagedOrFinal, Missed
<1>26. CASE Rotate
  <2>1. \A d \in Doc : live[d] <= up /\ staged[d] <= up /\ live[d] \in Nat /\ staged[d] \in Nat
      BY <1>a DEF DocInv
  <2>2. up' > up /\ up' \in Nat /\ up \in Nat /\ UNCHANGED <<live, staged>>
      BY <1>a, <1>26, RotateDoes DEF Rotate
  <2>3. \A d \in Doc : live'[d] <= up' /\ staged'[d] <= up'
      BY <2>1, <2>2
  <2>. QED
      BY <1>26, <2>3, RotateDoes DEF DocInv, Chosen, StagedOrFinal, Missed
<1>27. CASE UNCHANGED vars
    BY <1>27, <1>a DEF vars, docs, files, history, DocInv, Chosen, StagedOrFinal, Missed
<1>28. ASSUME Stops PROVE DocInv'
  <2>1. ASSUME NEW d \in Doc PROVE live'[d] <= up' /\ staged'[d] <= up'
    <3>1. live[d] <= up /\ staged[d] <= up /\ Absent <= up /\ staged'[d] \in {staged[d], Absent}
        BY <1>a, <1>28, StopsDoes DEF DocInv, Absent
    <3>. QED
        BY <3>1, <1>28, StopsDoes
  <2>. QED
      BY <2>1, <1>28, StopsDoes DEF DocInv, Chosen
<1>29. ASSUME NEW d \in Doc, PruneDoc(d) PROVE DocInv'
  <2>1. /\ run.pc = "prune" /\ run' = run /\ UNCHANGED <<up, staged, accepted>> /\ d \in run.lacks
        /\ \A e \in Doc : live'[e] \in {Absent, live[e]} /\ (e # d => live'[e] = live[e])
      BY <1>29, PruneDocDoes
  <2>2. \A e \in Doc : live'[e] <= up
      BY <1>a, <2>1 DEF DocInv, Absent
  <2>3. "db" # d /\ "db" \in Doc
      BY <2>1, Documents DEF DocInv
  <2>. QED
      BY <2>1, <2>2, <2>3 DEF DocInv, Chosen, Missed
<1>. QED
    BY <1>1, <1>2, <1>3, <1>4, <1>5, <1>6, <1>7, <1>8, <1>9, <1>10, <1>11, <1>12, <1>13,
       <1>14, <1>15, <1>16, <1>17, <1>18, <1>19, <1>20, <1>21, <1>22, <1>23, <1>24, <1>25,
       <1>26, <1>27, <1>28, <1>29, EndsDo DEF Next, Database, Packages, Publish


-----------------------------------------------------------------------------
(* The signature of the database *)
LEMMA SigStep == ASSUME TypeOK, WhereInv, DocInv, SigInv, [Next]_vars PROVE SigInv'
<1>a. /\ "db" \in Doc /\ "sig" \in Doc /\ Extra \subseteq Doc \ {"db", "sig"}
      /\ \A f \in File : f[1] # "db"
    BY Documents, Files, ArchSyncAssumption
<1>b. conf' = conf /\ (Checked' <=> Checked) /\ (conf.format = "apk" => ~Checked)
    BY ConfStays, ArchSyncAssumption DEF TypeOK, Checked
<1>1. CASE Begin
    BY <1>1, BeginDoes, <1>a, <1>b DEF SigInv, Chosen, StagedOrFinal
<1>2. CASE StageDb
  <2>1. Checked => ~Chosen'
      BY <1>b, <1>2, StageDbDoes DEF Chosen
  <2>2. run'.pc # "publish db" /\ UNCHANGED <<live, torn, stuck>>
      BY <1>2, StageDbDoes DEF Chooses
  <2>. QED
      BY <1>b, <2>1, <2>2 DEF SigInv
<1>3. CASE StageSig
  <2>1. Chosen' => ~Checked \/ "sig" \in run'.lacks
      BY <1>3, StageSigDoes DEF Chosen
  <2>2. run'.pc # "publish db" /\ UNCHANGED <<live, torn, stuck>>
      BY <1>3, StageSigDoes DEF Chooses
  <2>. QED
      BY <1>b, <2>1, <2>2 DEF SigInv
<1>4. CASE CheckSig
  <2>1. run'.pc # "publish db" /\ UNCHANGED <<live, staged, torn, stuck>>
        /\ StagedOrFinal("sig") = StagedOrFinal("db") /\ StagedOrFinal("db") \in Trusted
      BY <1>4, CheckSigDoes DEF Chooses
  <2>. QED
      BY <1>b, <2>1 DEF SigInv, StagedOrFinal
<1>5. CASE BeginRefetchDb
    BY <1>5, BeginRefetchDbDoes, <1>a, <1>b DEF SigInv, Chosen, StagedOrFinal
<1>6. ASSUME NEW d \in Doc, RefetchDb(d) PROVE SigInv'
  <2>1. run'.pc # "publish db" /\ ~Chosen' /\ UNCHANGED <<live, torn, stuck>>
      BY <1>6, RefetchDbDoes DEF Chosen
  <2>. QED
      BY <1>b, <2>1 DEF SigInv
<1>7. ASSUME NEW f \in File, KeepFile(f) PROVE SigInv'
    BY <1>7, KeepFileDoes, <1>a, <1>b DEF SigInv, Chosen, StagedOrFinal
<1>8. ASSUME NEW f \in File, GetFile(f) PROVE SigInv'
    BY <1>8, GetFileDoes, <1>a, <1>b DEF SigInv, Chosen, StagedOrFinal
<1>9. ASSUME NEW f \in File, MissFile(f) PROVE SigInv'
    BY <1>9, MissFileDoes, <1>a, <1>b DEF SigInv, Chosen, StagedOrFinal
<1>10. CASE PackagesDone
    BY <1>10, PackagesDoneDoes, <1>a, <1>b DEF SigInv, Chosen, StagedOrFinal
<1>11. ASSUME NEW f \in File, VerifyPair(f) PROVE SigInv'
    BY <1>11, VerifyPairDoes, <1>a, <1>b DEF SigInv, Chosen, StagedOrFinal
<1>12. ASSUME NEW f \in File, BeginRefetchPair(f) PROVE SigInv'
    BY <1>12, BeginRefetchPairDoes, <1>a, <1>b DEF SigInv, Chosen, StagedOrFinal
<1>13. ASSUME NEW f \in File, RefetchPackage(f) PROVE SigInv'
    BY <1>13, RefetchPackageDoes, <1>a, <1>b DEF SigInv, Chosen, StagedOrFinal
<1>14. ASSUME NEW f \in File, RefetchSignature(f) PROVE SigInv'
    BY <1>14, RefetchSignatureDoes, <1>a, <1>b DEF SigInv, Chosen, StagedOrFinal
<1>15. CASE Verified
  <2>1. CASE Stops
      BY <1>b, <2>1, StopsDoes DEF SigInv, Chosen
  <2>2. CASE ~Stops
      BY <1>b, <1>15, <2>2, VerifiedDoes DEF SigInv, Chosen, StagedOrFinal
  <2>. QED
      BY <2>1, <2>2
<1>16. ASSUME NEW f \in File, PromoteSignature(f) PROVE SigInv'
    BY <1>16, PromoteSignatureDoes, <1>a, <1>b DEF SigInv, Chosen, StagedOrFinal
<1>17. ASSUME NEW f \in File, PromotePackage(f) PROVE SigInv'
    BY <1>17, PromotePackageDoes, <1>a, <1>b DEF SigInv, Chosen, StagedOrFinal
<1>18. CASE SignaturesPromoted
    BY <1>18, SignaturesPromotedDoes, <1>a, <1>b DEF SigInv, Chosen, StagedOrFinal
<1>19. CASE PackagesPromoted
    BY <1>19, PackagesPromotedDoes, <1>a, <1>b DEF SigInv, Chosen, StagedOrFinal
<1>20. ASSUME NEW e \in Extra, StageExtra(e) PROVE SigInv'
  <2>1. /\ run.pc = "extras" /\ run'.pc = "extras" /\ run.lacks \subseteq run'.lacks
        /\ UNCHANGED <<live, torn, stuck>> /\ Fetched(e, FALSE)
      BY <1>20, StageExtraDoes
  <2>2. StagedOrFinal("sig")' = StagedOrFinal("sig") /\ StagedOrFinal("db")' = StagedOrFinal("db")
      BY <1>a, <2>1, FetchedDoes
  <2>. QED
      BY <1>b, <2>1, <2>2 DEF SigInv, Chosen
<1>21. ASSUME NEW e \in Extra, PromoteExtra(e) PROVE SigInv'
  <2>1. /\ run.pc = "promote extras" /\ run'.pc = "promote extras" /\ run'.lacks = run.lacks
        /\ torn' = torn /\ Promote(e)
      BY <1>21, PromoteExtraDoes
  <2>2. /\ StagedOrFinal("sig")' = StagedOrFinal("sig") /\ StagedOrFinal("db")' = StagedOrFinal("db")
        /\ live'["sig"] = live["sig"] /\ live'["db"] = live["db"]
        /\ "sig" \in stuck' <=> "sig" \in stuck
    <3>1. e \in Doc /\ "sig" \in Doc \ {e} /\ "db" \in Doc \ {e}
        BY <1>a
    <3>2. \A d \in Doc \ {e} : /\ live'[d] = live[d] /\ StagedOrFinal(d)' = StagedOrFinal(d)
                               /\ d \in stuck' <=> d \in stuck
        BY <2>1, <3>1, PromoteDoes
    <3>. QED
        BY <3>1, <3>2
  <2>. QED
      BY <1>b, <2>1, <2>2 DEF SigInv, Chosen
<1>22. CASE ExtrasStaged
    BY <1>22, ExtrasStagedDoes, <1>a, <1>b DEF SigInv, Chosen, StagedOrFinal
<1>23. CASE PublishSig
  <2>1. /\ run.pc = "promote extras" /\ run'.pc = "publish db" /\ Promote("sig") /\ "db" \in torn'
      BY <1>23, PublishSigDoes
  <2>2. /\ "sig" \in run.lacks => live'["sig"] = Absent \/ "sig" \in stuck'
        /\ "sig" \notin run.lacks => live'["sig"] = StagedOrFinal("sig")
        /\ StagedOrFinal("db")' = StagedOrFinal("db")
      BY <1>a, <2>1, PromoteDoes
  <2>3. Checked => "sig" \in run.lacks \/
           (StagedOrFinal("sig") = StagedOrFinal("db") /\ StagedOrFinal("db") \in Trusted)
      BY <2>1 DEF SigInv, Chosen
  <2>. QED
      BY <1>b, <2>1, <2>2, <2>3 DEF SigInv
<1>24. CASE PublishDb
  <2>1. /\ run.pc = "publish db" /\ run'.pc = "prune" /\ Promote("db") /\ "db" \notin run.lacks
      BY <1>24, PublishDbDoes DEF DocInv
  <2>2. /\ live'["db"] = StagedOrFinal("db") /\ live'["sig"] = live["sig"]
        /\ "sig" \in stuck' <=> "sig" \in stuck
      BY <1>a, <2>1, PromoteDoes
  <2>3. Checked => \/ live["sig"] = Absent \/ "sig" \in stuck
                   \/ live["sig"] = StagedOrFinal("db") /\ live["sig"] \in Trusted
      BY <2>1 DEF SigInv
  <2>4. ~Chosen'
      BY <2>1 DEF Chosen
  <2>. QED
      BY <1>b, <2>1, <2>2, <2>3, <2>4 DEF SigInv
<1>25. ASSUME NEW f \in File, PruneFile(f) PROVE SigInv'
    BY <1>25, PruneFileDoes, <1>a, <1>b DEF SigInv, Chosen, StagedOrFinal
<1>26. CASE Rotate
    BY <1>26, RotateDoes, <1>a, <1>b DEF SigInv, Chosen, StagedOrFinal
<1>27. CASE UNCHANGED vars
    BY <1>27, <1>a, <1>b DEF vars, docs, files, history, SigInv, Chosen, StagedOrFinal
<1>28. ASSUME Stops PROVE SigInv'
    BY <1>28, StopsDoes, <1>a, <1>b DEF SigInv, Chosen, StagedOrFinal
<1>29. ASSUME NEW d \in Doc, PruneDoc(d) PROVE SigInv'
  <2>1. /\ run.pc = "prune" /\ run' = run /\ d \in run.lacks /\ UNCHANGED <<conf, torn>>
        /\ live'[d] = Absent
        /\ \A e \in Doc : e # d => live'[e] = live[e] /\ (e \in stuck' <=> e \in stuck)
      BY <1>29, PruneDocDoes
  <2>2. d # "db" /\ "db" \in Doc /\ "sig" \in Doc
      BY <2>1, Documents DEF DocInv
  <2>. QED
      BY <2>1, <2>2, <1>b DEF SigInv, Chosen
<1>. QED
    BY <1>1, <1>2, <1>3, <1>4, <1>5, <1>6, <1>7, <1>8, <1>9, <1>10, <1>11, <1>12, <1>13,
       <1>14, <1>15, <1>16, <1>17, <1>18, <1>19, <1>20, <1>21, <1>22, <1>23, <1>24, <1>25,
       <1>26, <1>27, <1>28, <1>29, EndsDo DEF Next, Database, Packages, Publish

-----------------------------------------------------------------------------
(* The companion files *)
LEMMA CompanionStep ==
    ASSUME TypeOK, WhereInv, DocInv, TodoInv, CompanionInv, [Next]_vars
    PROVE  CompanionInv'
<1>a. /\ "db" \in Doc /\ "sig" \in Doc /\ "sig" # "db" /\ Extra \subseteq Doc \ {"db", "sig"}
      /\ Doc = {"db", "sig"} \cup Extra
      /\ \A d \in Doc : live[d] \in Nat /\ staged[d] \in Nat /\ StagedOrFinal(d) \in Nat
      /\ \A d \in Doc : StagedOrFinal(d) <= up
      /\ up \in Nat
    BY Documents, DocTypes DEF DocInv, StagedOrFinal
<1>b. conf' = conf /\ conf.format \in {"arch", "apk"}
    BY ConfStays, ArchSyncAssumption DEF TypeOK
<1>c. Chosen => run.got = StagedOrFinal("db")
    BY DEF DocInv
<1>1. CASE Begin
    BY <1>1, BeginDoes, <1>a, <1>b DEF CompanionInv, Current, Chosen, StagedOrFinal
<1>2. CASE StageDb
  <2>1. live' = live /\ (conf.format = "arch" => run'.pc = "sig")
      BY <1>2, StageDbDoes
  <2>. QED
      BY <1>b, <2>1 DEF CompanionInv, Current, Chosen
<1>3. CASE StageSig
  <2>1. /\ live' = live /\ run'.pc \in {"packages", "check"} /\ Fetched("sig", FALSE)
        /\ "sig" \in Serves[up] \/ "sig" \in run'.lacks
      BY <1>3, StageSigDoes DEF Chooses
  <2>2. /\ "sig" \in Serves[up] => StagedOrFinal("sig")' = up
        /\ StagedOrFinal("db")' = StagedOrFinal("db")
      BY <1>a, <2>1, FetchedDoes
  <2>3. "sig" \in run'.lacks \/ StagedOrFinal("sig")' >= StagedOrFinal("db")'
      BY <1>a, <2>1, <2>2
  <2>. QED
      BY <1>b, <2>1, <2>3 DEF CompanionInv, Current, Chosen
<1>4. CASE CheckSig
  <2>1. /\ run.pc = "check" /\ run'.pc = "packages" /\ run'.lacks = run.lacks
        /\ UNCHANGED <<live, staged>>
      BY <1>4, CheckSigDoes DEF Chooses
  <2>. QED
      BY <1>b, <2>1 DEF CompanionInv, Current, Chosen, StagedOrFinal
<1>5. CASE BeginRefetchDb
    BY <1>5, BeginRefetchDbDoes, <1>a, <1>b DEF CompanionInv, Current, Chosen, StagedOrFinal
<1>6. ASSUME NEW d \in Doc, RefetchDb(d) PROVE CompanionInv'
  <2>1. live' = live /\ ~Chosen' /\ Fetched(d, TRUE) /\ d \in Serves[up]
        /\ (run'.pc = "again sig" \/ (run'.pc = "check" /\ d = "sig"))
      BY <1>6, RefetchDbDoes DEF Chosen
  <2>2. d = "sig" => StagedOrFinal("sig")' = up /\ StagedOrFinal("db")' = StagedOrFinal("db")
      BY <1>a, <2>1, FetchedDoes
  <2>3. run'.pc = "check" => StagedOrFinal("sig")' >= StagedOrFinal("db")'
      BY <1>a, <2>1, <2>2
  <2>. QED
      BY <1>b, <2>1, <2>3 DEF CompanionInv, Current, Chosen
<1>7. ASSUME NEW f \in File, KeepFile(f) PROVE CompanionInv'
  <2>1. /\ run.pc \in {"packages"} /\ run'.pc \in {"packages"}
        /\ run'.lacks = run.lacks /\ run'.got = run.got /\ UNCHANGED <<live, staged, stuck>>
      BY <1>7, KeepFileDoes
  <2>. QED
      BY <1>b, <2>1 DEF CompanionInv, Current, Chosen, StagedOrFinal
<1>8. ASSUME NEW f \in File, GetFile(f) PROVE CompanionInv'
  <2>1. /\ run.pc \in {"packages"} /\ run'.pc \in {"packages"}
        /\ run'.lacks = run.lacks /\ run'.got = run.got /\ UNCHANGED <<live, staged, stuck>>
      BY <1>8, GetFileDoes
  <2>. QED
      BY <1>b, <2>1 DEF CompanionInv, Current, Chosen, StagedOrFinal
<1>9. ASSUME NEW f \in File, MissFile(f) PROVE CompanionInv'
  <2>1. /\ run.pc \in {"packages"} /\ run'.pc \in {"packages"}
        /\ run'.lacks = run.lacks /\ run'.got = run.got /\ UNCHANGED <<live, staged, stuck>>
      BY <1>9, MissFileDoes
  <2>. QED
      BY <1>b, <2>1 DEF CompanionInv, Current, Chosen, StagedOrFinal
<1>10. CASE PackagesDone
  <2>1. /\ run.pc = "packages" /\ run'.lacks = run.lacks /\ run'.got = run.got /\ UNCHANGED <<live, staged, stuck>>
        /\ (conf.format = "arch" => run'.pc = "verify" \/ (run'.pc = "extras" /\ run'.todo = Extra))
      BY <1>10, PackagesDoneDoes
  <2>. QED
      BY <1>b, <2>1 DEF CompanionInv, Current, Chosen, StagedOrFinal
<1>11. ASSUME NEW f \in File, VerifyPair(f) PROVE CompanionInv'
  <2>1. /\ run.pc \in {"verify", "again package", "again signature"}
        /\ run'.pc \in {"verify", "again package", "again signature"}
        /\ run'.lacks = run.lacks /\ run'.got = run.got /\ UNCHANGED <<live, staged, stuck>>
      BY <1>11, VerifyPairDoes
  <2>. QED
      BY <1>b, <2>1 DEF CompanionInv, Current, Chosen, StagedOrFinal
<1>12. ASSUME NEW f \in File, BeginRefetchPair(f) PROVE CompanionInv'
  <2>1. /\ run.pc \in {"verify", "again package", "again signature"}
        /\ run'.pc \in {"verify", "again package", "again signature"}
        /\ run'.lacks = run.lacks /\ run'.got = run.got /\ UNCHANGED <<live, staged, stuck>>
      BY <1>12, BeginRefetchPairDoes
  <2>. QED
      BY <1>b, <2>1 DEF CompanionInv, Current, Chosen, StagedOrFinal
<1>13. ASSUME NEW f \in File, RefetchPackage(f) PROVE CompanionInv'
  <2>1. /\ run.pc \in {"verify", "again package", "again signature"}
        /\ run'.pc \in {"verify", "again package", "again signature"}
        /\ run'.lacks = run.lacks /\ run'.got = run.got /\ UNCHANGED <<live, staged, stuck>>
      BY <1>13, RefetchPackageDoes
  <2>. QED
      BY <1>b, <2>1 DEF CompanionInv, Current, Chosen, StagedOrFinal
<1>14. ASSUME NEW f \in File, RefetchSignature(f) PROVE CompanionInv'
  <2>1. /\ run.pc \in {"verify", "again package", "again signature"}
        /\ run'.pc \in {"verify", "again package", "again signature"}
        /\ run'.lacks = run.lacks /\ run'.got = run.got /\ UNCHANGED <<live, staged, stuck>>
      BY <1>14, RefetchSignatureDoes
  <2>. QED
      BY <1>b, <2>1 DEF CompanionInv, Current, Chosen, StagedOrFinal
<1>15. CASE Verified
  <2>1. CASE Stops
      BY <1>b, <2>1, StopsDoes DEF CompanionInv, Current, Chosen
  <2>2. CASE ~Stops
      BY <1>b, <1>15, <2>2, VerifiedDoes DEF CompanionInv, Current, Chosen, StagedOrFinal
  <2>. QED
      BY <2>1, <2>2
<1>16. ASSUME NEW f \in File, PromoteSignature(f) PROVE CompanionInv'
  <2>1. /\ run.pc \in {"promote signatures", "promote packages"}
        /\ run'.pc \in {"promote signatures", "promote packages"}
        /\ run'.lacks = run.lacks /\ run'.got = run.got /\ UNCHANGED <<live, staged, stuck>>
      BY <1>16, PromoteSignatureDoes
  <2>. QED
      BY <1>b, <2>1 DEF CompanionInv, Current, Chosen, StagedOrFinal
<1>17. ASSUME NEW f \in File, PromotePackage(f) PROVE CompanionInv'
  <2>1. /\ run.pc \in {"promote signatures", "promote packages"}
        /\ run'.pc \in {"promote signatures", "promote packages"}
        /\ run'.lacks = run.lacks /\ run'.got = run.got /\ UNCHANGED <<live, staged, stuck>>
      BY <1>17, PromotePackageDoes
  <2>. QED
      BY <1>b, <2>1 DEF CompanionInv, Current, Chosen, StagedOrFinal
<1>18. CASE SignaturesPromoted
  <2>1. /\ run.pc \in {"promote signatures", "promote packages"}
        /\ run'.pc \in {"promote signatures", "promote packages"}
        /\ run'.lacks = run.lacks /\ run'.got = run.got /\ UNCHANGED <<live, staged, stuck>>
      BY <1>18, SignaturesPromotedDoes
  <2>. QED
      BY <1>b, <2>1 DEF CompanionInv, Current, Chosen, StagedOrFinal
<1>19. CASE PackagesPromoted
  <2>1. /\ run.pc = "promote packages" /\ run'.pc = "extras" /\ run'.todo = Extra
        /\ run'.lacks = run.lacks /\ run'.got = run.got /\ UNCHANGED <<live, staged, stuck>>
      BY <1>19, PackagesPromotedDoes
  <2>. QED
      BY <1>b, <2>1 DEF CompanionInv, Current, Chosen, StagedOrFinal
<1>20. ASSUME NEW e \in Extra, StageExtra(e) PROVE CompanionInv'
  <2>1. /\ run.pc = "extras" /\ run'.pc = "extras" /\ run.lacks \subseteq run'.lacks
        /\ live' = live /\ Fetched(e, FALSE) /\ run'.got = run.got /\ run'.todo = run.todo \ {e}
        /\ e \in Serves[up] \/ e \in run'.lacks
      BY <1>20, StageExtraDoes
  <2>2. /\ e \in Serves[up] => StagedOrFinal(e)' = up
        /\ \A d \in Doc \ {e} : StagedOrFinal(d)' = StagedOrFinal(d)
      BY <1>a, <2>1, FetchedDoes
  <2>3. run.got <= up
      BY <1>a, <1>c, <2>1 DEF Chosen
  <2>4. conf.format = "arch" => \A c \in Extra \ run'.todo : c \in run'.lacks \/ StagedOrFinal(c)' >= run.got
    <3>1. SUFFICES ASSUME conf.format = "arch", NEW c \in Extra, c \notin run'.todo
                   PROVE  c \in run'.lacks \/ StagedOrFinal(c)' >= run.got
        OBVIOUS
    <3>2. CASE c = e
        BY <1>a, <1>c, <2>1, <2>2, <2>3, <3>2 DEF Chosen
    <3>3. CASE c # e
      <4>1. c \in run.lacks \/ StagedOrFinal(c) >= run.got
          BY <2>1, <3>1, <3>3 DEF CompanionInv, Current
      <4>. QED
          BY <1>a, <2>1, <2>2, <3>3, <4>1
    <3>. QED
        BY <3>2, <3>3
  <2>5. conf.format = "arch" => "sig" \in run'.lacks \/ StagedOrFinal("sig")' >= StagedOrFinal("db")'
      BY <1>a, <2>1, <2>2 DEF CompanionInv, Current, Chosen
  <2>. QED
      BY <1>b, <2>1, <2>4, <2>5 DEF CompanionInv, Current, Chosen
<1>21. ASSUME NEW e \in Extra, PromoteExtra(e) PROVE CompanionInv'
  <2>1. /\ run.pc = "promote extras" /\ run'.pc = "promote extras" /\ run'.lacks = run.lacks
        /\ Promote(e) /\ run'.got = run.got /\ run'.todo = run.todo \ {e} /\ e \in run.todo
        /\ conf.format = "arch"
      BY <1>b, <1>21, PromoteExtraDoes DEF WhereInv
  <2>2. /\ e \in run.lacks => live'[e] = Absent \/ e \in stuck'
        /\ e \notin run.lacks => live'[e] = StagedOrFinal(e)
        /\ \A d \in Doc \ {e} : /\ live'[d] = live[d] /\ StagedOrFinal(d)' = StagedOrFinal(d)
                                /\ d \in stuck' <=> d \in stuck
      BY <1>a, <2>1, PromoteDoes
  <2>3. \A c \in Extra :
           \/ c \in run'.todo /\ (c \in run'.lacks \/ StagedOrFinal(c)' >= run.got)
           \/ c \notin run'.todo /\ Current(c)'
    <3>1. SUFFICES ASSUME NEW c \in Extra
                   PROVE  \/ c \in run'.todo /\ (c \in run'.lacks \/ StagedOrFinal(c)' >= run.got)
                          \/ c \notin run'.todo /\ Current(c)'
        OBVIOUS
    <3>2. \/ c \in run.todo /\ (c \in run.lacks \/ StagedOrFinal(c) >= run.got)
          \/ c \notin run.todo /\ Current(c)
        BY <2>1 DEF CompanionInv, Current
    <3>3. CASE c = e
      <4>1. c \in run.lacks \/ StagedOrFinal(c) >= run.got
          BY <2>1, <3>2, <3>3
      <4>2. c \in run.lacks \/ live'[c] >= run'.got
          BY <2>1, <2>2, <3>3, <4>1
      <4>3. Current(c)'
          BY <2>1, <2>2, <3>3, <4>2 DEF Current
      <4>. QED
          BY <2>1, <3>3, <4>3
    <3>4. CASE c # e
      <4>1. /\ live'[c] = live[c] /\ StagedOrFinal(c)' = StagedOrFinal(c)
            /\ c \in stuck' <=> c \in stuck
          BY <1>a, <2>2, <3>4 DEF StagedOrFinal
      <4>2. Current(c) => Current(c)'
          BY <2>1, <4>1 DEF Current
      <4>. QED
          BY <2>1, <3>2, <3>4, <4>1, <4>2
    <3>. QED
        BY <3>3, <3>4
  <2>4. "sig" \in run'.lacks \/ StagedOrFinal("sig")' >= StagedOrFinal("db")'
    <3>1. {"sig", "db"} \subseteq Doc \ {e}
        BY ArchSyncAssumption DEF Doc
    <3>2. "sig" \in run.lacks \/ StagedOrFinal("sig") >= StagedOrFinal("db")
        BY <2>1 DEF CompanionInv, Chosen
    <3>3. StagedOrFinal("sig")' = StagedOrFinal("sig") /\ StagedOrFinal("db")' = StagedOrFinal("db")
        BY <2>2, <3>1 DEF StagedOrFinal
    <3>. QED
        BY <2>1, <3>2, <3>3
  <2>. QED
      BY <1>b, <2>1, <2>3, <2>4 DEF CompanionInv, Current
<1>22. CASE ExtrasStaged
  <2>1. /\ run.pc = "extras" /\ run.todo = {} /\ run'.pc = "promote extras" /\ run'.todo = Extra
        /\ run'.lacks = run.lacks /\ run'.got = run.got /\ UNCHANGED <<live, staged, stuck>>
      BY <1>22, ExtrasStagedDoes
  <2>. QED
      BY <1>b, <2>1 DEF CompanionInv, Current, Chosen, StagedOrFinal
<1>23. CASE PublishSig
  <2>1. /\ run.pc = "promote extras" /\ run'.pc = "publish db" /\ Promote("sig")
        /\ run.todo = {} /\ run'.got = run.got /\ conf.format = "arch"
      BY <1>b, <1>23, PublishSigDoes DEF WhereInv
  <2>2. /\ "sig" \in run.lacks => live'["sig"] = Absent \/ "sig" \in stuck'
        /\ "sig" \notin run.lacks => live'["sig"] = StagedOrFinal("sig")
        /\ \A d \in Doc \ {"sig"} : live'[d] = live[d] /\ (d \in stuck' <=> d \in stuck)
      BY <1>a, <2>1, PromoteDoes
  <2>3. run.got = StagedOrFinal("db") /\ ("sig" \in run.lacks \/ StagedOrFinal("sig") >= StagedOrFinal("db"))
      BY <1>c, <2>1 DEF CompanionInv, Current, Chosen
  <2>4. \A c \in Extra : Current(c)
      BY <2>1 DEF CompanionInv, Current
  <2>5. \A c \in Doc \ {"db"} : Current(c)'
      BY <1>a, <2>1, <2>2, <2>3, <2>4 DEF Current
  <2>. QED
      BY <1>b, <2>1, <2>5 DEF CompanionInv, Current
<1>24. CASE PublishDb
  <2>1. run'.pc = "prune" /\ Promote("db")
      BY <1>24, PublishDbDoes
  <2>2. \A d \in Doc \ {"db"} : live'[d] = live[d]
      BY <1>a, <2>1, PromoteDoes
  <2>. QED
      BY <1>b, <2>1, <2>2 DEF CompanionInv, Current, Chosen
<1>25. ASSUME NEW f \in File, PruneFile(f) PROVE CompanionInv'
    BY <1>25, PruneFileDoes, <1>a, <1>b DEF CompanionInv, Current, Chosen, StagedOrFinal
<1>26. CASE Rotate
    BY <1>26, RotateDoes, <1>a, <1>b DEF CompanionInv, Current, Chosen, StagedOrFinal
<1>27. CASE UNCHANGED vars
    BY <1>27, <1>a, <1>b DEF vars, docs, files, history, CompanionInv, Current, Chosen, StagedOrFinal
<1>28. ASSUME Stops PROVE CompanionInv'
    BY <1>28, StopsDoes, <1>a, <1>b DEF CompanionInv, Current, Chosen, StagedOrFinal
<1>29. ASSUME NEW d \in Doc, PruneDoc(d) PROVE CompanionInv'
  <2>1. /\ run.pc = "prune" /\ run' = run /\ conf' = conf
        /\ \A e \in Doc : live'[e] \in {Absent, live[e]}
      BY <1>29, PruneDocDoes
  <2>. QED
      BY <2>1 DEF CompanionInv, Chosen
<1>. QED
    BY <1>1, <1>2, <1>3, <1>4, <1>5, <1>6, <1>7, <1>8, <1>9, <1>10, <1>11, <1>12, <1>13,
       <1>14, <1>15, <1>16, <1>17, <1>18, <1>19, <1>20, <1>21, <1>22, <1>23, <1>24, <1>25,
       <1>26, <1>27, <1>28, <1>29, EndsDo DEF Next, Database, Packages, Publish


-----------------------------------------------------------------------------
(* The contents of files *)
LEMMA ContentStep == ASSUME TypeOK, ContentInv, [Next]_vars PROVE ContentInv'
<1>a. ASSUME NEW f \in File
      PROVE  /\ ContentOf(f[1], disk[f]) /\ ContentOf(f[1], next[f]) /\ ContentOf(f[1], Absent)
             /\ ContentOf(f[1], FileStagedOrFinal(f)) /\ ContentOf(f[1], Upstream(f))
  <2>1. up \in Gen /\ (Upstream(f) # Absent => Upstream(f) = Want[up][f[1]])
      BY FileTypes DEF TypeOK
  <2>2. ContentOf(f[1], disk[f]) /\ ContentOf(f[1], next[f])
      BY DEF ContentInv
  <2>. QED
      BY <2>1, <2>2 DEF ContentOf, FileStagedOrFinal
<1>1. CASE Begin
    BY <1>1, BeginDoes DEF ContentInv
<1>2. CASE StageDb
    BY <1>2, StageDbDoes DEF ContentInv
<1>3. CASE StageSig
    BY <1>3, StageSigDoes DEF ContentInv
<1>4. CASE CheckSig
    BY <1>4, CheckSigDoes DEF ContentInv
<1>5. CASE BeginRefetchDb
    BY <1>5, BeginRefetchDbDoes DEF ContentInv
<1>6. ASSUME NEW d \in Doc, RefetchDb(d) PROVE ContentInv'
    BY <1>6, RefetchDbDoes DEF ContentInv
<1>7. ASSUME NEW f \in File, KeepFile(f) PROVE ContentInv'
  <2>1. disk' = disk /\ next'[f] \in {Absent, next[f]} /\ \A h \in File : h # f => next'[h] = next[h]
      BY <1>7, KeepFileDoes
  <2>. QED
      BY <1>a, <2>1 DEF ContentInv
<1>8. ASSUME NEW f \in File, GetFile(f) PROVE ContentInv'
  <2>1. /\ next'[f] \in {Upstream(f), next[f]} /\ disk'[f] \in {Upstream(f), disk[f]}
        /\ \A h \in File : h # f => next'[h] = next[h] /\ disk'[h] = disk[h]
      BY <1>8, GetFileDoes
  <2>. QED
      BY <1>a, <2>1 DEF ContentInv
<1>9. ASSUME NEW f \in File, MissFile(f) PROVE ContentInv'
  <2>1. disk' = disk /\ next'[f] \in {Absent, next[f]} /\ \A h \in File : h # f => next'[h] = next[h]
      BY <1>9, MissFileDoes
  <2>. QED
      BY <1>a, <2>1 DEF ContentInv
<1>10. CASE PackagesDone
    BY <1>10, PackagesDoneDoes DEF ContentInv
<1>11. ASSUME NEW f \in File, VerifyPair(f) PROVE ContentInv'
    BY <1>11, VerifyPairDoes DEF ContentInv
<1>12. ASSUME NEW f \in File, BeginRefetchPair(f) PROVE ContentInv'
    BY <1>12, BeginRefetchPairDoes DEF ContentInv
<1>13. ASSUME NEW f \in File, RefetchPackage(f) PROVE ContentInv'
  <2>1. disk' = disk /\ next'[f] \in {Absent, Upstream(f)} /\ \A h \in File : h # f => next'[h] = next[h]
      BY <1>13, RefetchPackageDoes
  <2>. QED
      BY <1>a, <2>1 DEF ContentInv
<1>14. ASSUME NEW f \in File, RefetchSignature(f) PROVE ContentInv'
  <2>1. disk' = disk /\ next'[f] \in {Upstream(f)} /\ \A h \in File : h # f => next'[h] = next[h]
      BY <1>14, RefetchSignatureDoes
  <2>. QED
      BY <1>a, <2>1 DEF ContentInv
<1>15. CASE Verified
  <2>1. disk' = disk /\ \A f \in File : next'[f] \in {next[f], Absent}
      BY <1>15, VerifiedDoes, StopsDoes
  <2>. QED
      BY <1>a, <2>1 DEF ContentInv
<1>16. ASSUME NEW f \in File, PromoteSignature(f) PROVE ContentInv'
  <2>1. Promoted(f)
      BY <1>16, PromoteSignatureDoes
  <2>2. /\ next'[f] \in {Absent, next[f]} /\ disk'[f] \in {FileStagedOrFinal(f), Absent, disk[f]}
        /\ \A h \in File : h # f => next'[h] = next[h] /\ disk'[h] = disk[h]
      BY <2>1, PromotedDoes
  <2>. QED
      BY <1>a, <2>2 DEF ContentInv
<1>17. ASSUME NEW f \in File, PromotePackage(f) PROVE ContentInv'
  <2>1. Promoted(f)
      BY <1>17, PromotePackageDoes
  <2>2. /\ next'[f] \in {Absent, next[f]} /\ disk'[f] \in {FileStagedOrFinal(f), Absent, disk[f]}
        /\ \A h \in File : h # f => next'[h] = next[h] /\ disk'[h] = disk[h]
      BY <2>1, PromotedDoes
  <2>. QED
      BY <1>a, <2>2 DEF ContentInv
<1>18. CASE SignaturesPromoted
    BY <1>18, SignaturesPromotedDoes DEF ContentInv
<1>19. CASE PackagesPromoted
    BY <1>19, PackagesPromotedDoes DEF ContentInv
<1>20. ASSUME NEW e \in Extra, StageExtra(e) PROVE ContentInv'
    BY <1>20, StageExtraDoes DEF ContentInv
<1>21. ASSUME NEW e \in Extra, PromoteExtra(e) PROVE ContentInv'
    BY <1>21, PromoteExtraDoes DEF ContentInv
<1>22. CASE ExtrasStaged
    BY <1>22, ExtrasStagedDoes DEF ContentInv
<1>23. CASE PublishSig
    BY <1>23, PublishSigDoes DEF ContentInv
<1>24. CASE PublishDb
    BY <1>24, PublishDbDoes DEF ContentInv
<1>25. ASSUME NEW f \in File, PruneFile(f) PROVE ContentInv'
  <2>1. /\ next'[f] \in {Absent, next[f]} /\ disk'[f] \in {Absent, disk[f]}
        /\ \A h \in File : h # f => next'[h] = next[h] /\ disk'[h] = disk[h]
      BY <1>25, PruneFileDoes
  <2>. QED
      BY <1>a, <2>1 DEF ContentInv
<1>26. CASE Rotate
    BY <1>26, RotateDoes DEF ContentInv
<1>27. CASE UNCHANGED vars
    BY <1>27 DEF vars, files, ContentInv
<1>28. ASSUME Stops PROVE ContentInv'
  <2>1. disk' = disk /\ \A f \in File : next'[f] \in {next[f], Absent}
      BY <1>28, StopsDoes
  <2>. QED
      BY <1>a, <2>1 DEF ContentInv
<1>29. ASSUME NEW d \in Doc, PruneDoc(d) PROVE ContentInv'
    BY <1>29, PruneDocDoes DEF ContentInv
<1>. QED
    BY <1>1, <1>2, <1>3, <1>4, <1>5, <1>6, <1>7, <1>8, <1>9, <1>10, <1>11, <1>12, <1>13,
       <1>14, <1>15, <1>16, <1>17, <1>18, <1>19, <1>20, <1>21, <1>22, <1>23, <1>24, <1>25,
       <1>26, <1>27, <1>28, <1>29, EndsDo DEF Next, Database, Packages, Publish

-----------------------------------------------------------------------------
(* What is left to do *)
LEMMA KindStays == ASSUME run'.got = run.got PROVE \A kind : OfKind(kind)' = OfKind(kind)
BY DEF OfKind

LEMMA TodoStep == ASSUME TypeOK, TodoInv, [Next]_vars PROVE TodoInv'
<1>a. OfKind("package") \subseteq File /\ OfKind("signature") \subseteq File
    BY DEF OfKind
<1>1. CASE Begin
    BY <1>1, BeginDoes, KindStays DEF TodoInv, Verifying
<1>2. CASE StageDb
  <2>1. Chooses \/ run'.pc \in {"sig", "check"}
      BY <1>2, StageDbDoes
  <2>2. CASE Chooses
      BY <2>2 DEF Chooses, TodoInv, Verifying
  <2>3. CASE run'.pc \in {"sig", "check"}
      BY <2>3 DEF TodoInv, Verifying
  <2>. QED
      BY <2>1, <2>2, <2>3
<1>3. CASE StageSig
  <2>1. Chooses \/ run'.pc \in {"sig", "check"}
      BY <1>3, StageSigDoes
  <2>2. CASE Chooses
      BY <2>2 DEF Chooses, TodoInv, Verifying
  <2>3. CASE run'.pc \in {"sig", "check"}
      BY <2>3 DEF TodoInv, Verifying
  <2>. QED
      BY <2>1, <2>2, <2>3
<1>4. CASE CheckSig
  <2>1. Chooses \/ run'.pc \in {"sig", "check"}
      BY <1>4, CheckSigDoes
  <2>2. CASE Chooses
      BY <2>2 DEF Chooses, TodoInv, Verifying
  <2>3. CASE run'.pc \in {"sig", "check"}
      BY <2>3 DEF TodoInv, Verifying
  <2>. QED
      BY <2>1, <2>2, <2>3
<1>5. CASE BeginRefetchDb
    BY <1>5, BeginRefetchDbDoes, KindStays DEF TodoInv, Verifying
<1>6. ASSUME NEW d \in Doc, RefetchDb(d) PROVE TodoInv'
    BY <1>6, RefetchDbDoes, KindStays DEF TodoInv, Verifying
<1>7. ASSUME NEW f \in File, KeepFile(f) PROVE TodoInv'
    BY <1>7, KeepFileDoes, KindStays DEF TodoInv, Verifying
<1>8. ASSUME NEW f \in File, GetFile(f) PROVE TodoInv'
    BY <1>8, GetFileDoes, KindStays DEF TodoInv, Verifying
<1>9. ASSUME NEW f \in File, MissFile(f) PROVE TodoInv'
    BY <1>9, MissFileDoes, KindStays DEF TodoInv, Verifying
<1>10. CASE PackagesDone
  <2>1. /\ run'.got = run.got /\ run'.gone = run.gone
        /\ \/ run'.pc = "verify" /\ run'.todo = OfKind("package") \ run.gone
           \/ run'.pc \in {"extras", "publish db"} /\ run'.todo \subseteq Extra
      BY <1>10, PackagesDoneDoes
  <2>. QED
      BY <2>1, KindStays DEF TodoInv, Verifying
<1>11. ASSUME NEW f \in File, VerifyPair(f) PROVE TodoInv'
    BY <1>11, VerifyPairDoes, KindStays DEF TodoInv, Verifying
<1>12. ASSUME NEW f \in File, BeginRefetchPair(f) PROVE TodoInv'
  <2>1. /\ run'.pc = "again package" /\ run'.got = run.got /\ run'.gone = run.gone
        /\ run'.todo = run.todo /\ run'.pair = {f[1]} /\ f \in run.todo /\ Signature(f) \notin run.gone
        /\ run.pc = "verify"
      BY <1>12, BeginRefetchPairDoes
  <2>2. \E h \in run'.todo : run'.pair = {h[1]} /\ Signature(h) \notin run'.gone
      BY <2>1
  <2>3. run.todo \subseteq OfKind("package") \ run.gone
      BY <2>1 DEF TodoInv, Verifying
  <2>4. \E h \in run'.todo : run'.pair = {h[1]} /\ (Signature(h) \notin run.gone)'
      BY <2>2 DEF Signature
  <2>. QED
      BY <2>1, <2>3, <2>4, KindStays DEF TodoInv, Verifying
<1>13. ASSUME NEW f \in File, RefetchPackage(f) PROVE TodoInv'
  <2>1. /\ run.pc = "again package" /\ run'.pc = "again signature" /\ run'.got = run.got
        /\ run'.gone = run.gone /\ run'.todo = run.todo /\ run'.pair = run.pair
      BY <1>13, RefetchPackageDoes
  <2>. QED
      BY <2>1, KindStays DEF TodoInv, Verifying, Signature
<1>14. ASSUME NEW f \in File, RefetchSignature(f) PROVE TodoInv'
    BY <1>14, RefetchSignatureDoes, KindStays DEF TodoInv, Verifying
<1>15. CASE Verified
  <2>1. CASE Stops
      BY <2>1, StopsDoes DEF TodoInv, Verifying
  <2>2. CASE ~Stops
    <3>1. /\ run'.pc = "promote signatures" /\ run'.todo = OfKind("signature") /\ run'.got = run.got
        BY <1>15, <2>2, VerifiedDoes
    <3>. QED
        BY <3>1, KindStays DEF TodoInv, Verifying
  <2>. QED
      BY <2>1, <2>2
<1>16. ASSUME NEW f \in File, PromoteSignature(f) PROVE TodoInv'
  <2>1. /\ run.pc = "promote signatures" /\ run'.pc = "promote signatures" /\ run'.got = run.got
        /\ run'.todo = run.todo \ {f}
      BY <1>16, PromoteSignatureDoes
  <2>. QED
      BY <2>1, KindStays DEF TodoInv, Verifying
<1>17. ASSUME NEW f \in File, PromotePackage(f) PROVE TodoInv'
  <2>1. /\ run.pc = "promote packages" /\ run'.pc = "promote packages" /\ run'.got = run.got
        /\ run'.todo = run.todo \ {f}
      BY <1>17, PromotePackageDoes
  <2>. QED
      BY <2>1, KindStays DEF TodoInv, Verifying
<1>18. CASE SignaturesPromoted
    BY <1>18, SignaturesPromotedDoes, KindStays DEF TodoInv, Verifying
<1>19. CASE PackagesPromoted
    BY <1>19, PackagesPromotedDoes, KindStays DEF TodoInv, Verifying
<1>20. ASSUME NEW e \in Extra, StageExtra(e) PROVE TodoInv'
    BY <1>20, StageExtraDoes, KindStays DEF TodoInv, Verifying
<1>21. ASSUME NEW e \in Extra, PromoteExtra(e) PROVE TodoInv'
    BY <1>21, PromoteExtraDoes, KindStays DEF TodoInv, Verifying
<1>22. CASE ExtrasStaged
    BY <1>22, ExtrasStagedDoes, KindStays DEF TodoInv, Verifying
<1>23. CASE PublishSig
    BY <1>23, PublishSigDoes, KindStays DEF TodoInv, Verifying
<1>24. CASE PublishDb
    BY <1>24, PublishDbDoes, KindStays DEF TodoInv, Verifying
<1>25. ASSUME NEW f \in File, PruneFile(f) PROVE TodoInv'
  <2>1. run.pc = "prune" /\ run' = run
      BY <1>25, PruneFileDoes
  <2>. QED
      BY <2>1 DEF TodoInv, Verifying
<1>26. CASE Rotate
  <2>1. run' = run
      BY <1>26, RotateDoes
  <2>. QED
      BY <2>1 DEF TodoInv, Verifying, Signature, OfKind
<1>27. CASE UNCHANGED vars
  <2>1. run' = run
      BY <1>27 DEF vars
  <2>. QED
      BY <2>1 DEF TodoInv, Verifying, Signature, OfKind
<1>28. ASSUME Stops PROVE TodoInv'
    BY <1>28, StopsDoes, KindStays DEF TodoInv, Verifying
<1>29. ASSUME NEW d \in Doc, PruneDoc(d) PROVE TodoInv'
  <2>1. run.pc = "prune" /\ run' = run
      BY <1>29, PruneDocDoes
  <2>. QED
      BY <2>1 DEF TodoInv, Verifying
<1>. QED
    BY <1>1, <1>2, <1>3, <1>4, <1>5, <1>6, <1>7, <1>8, <1>9, <1>10, <1>11, <1>12, <1>13,
       <1>14, <1>15, <1>16, <1>17, <1>18, <1>19, <1>20, <1>21, <1>22, <1>23, <1>24, <1>25,
       <1>26, <1>27, <1>28, <1>29, EndsDo DEF Next, Database, Packages, Publish


-----------------------------------------------------------------------------
(* The packages: fetched *)
LEMMA PairIsListed ==
    ASSUME TypeOK, TodoInv, run.pc \in {"again package", "again signature"}, NEW f \in File, f[1] \in run.pair
    PROVE  /\ f[1] \in Listed(run.got) /\ Wanted(f) # Absent
           /\ \E h \in run.todo : /\ h \in OfKind("package") \ run.gone /\ h[1] = f[1]
                                  /\ run.pair = {h[1]} /\ Signature(h) \notin run.gone
<1>1. PICK h \in run.todo : run.pair = {h[1]} /\ Signature(h) \notin run.gone
    BY DEF TodoInv
<1>2. h \in OfKind("package") \ run.gone
    BY DEF TodoInv, Verifying
<1>3. h[1] = f[1]
    BY <1>1
<1>4. f[1] \in Listed(run.got)
    BY <1>2, <1>3 DEF OfKind
<1>5. Wanted(f) # Absent
    BY <1>4 DEF Listed, Wanted
<1>. QED
    BY <1>1, <1>2, <1>3, <1>4, <1>5

LEMMA GatheredStep ==
    ASSUME TypeOK, WhereInv, TodoInv, GatheredInv, [Next]_vars
    PROVE  GatheredInv'
<1>a. \A f \in File : f[2] \in {"package", "signature"}
    BY Files
<1>b. conf' = conf /\ (Checked' <=> Checked) /\ (conf.format = "apk" => ~Checked)
      /\ conf.format \in {"arch", "apk"}
    BY ConfStays, ArchSyncAssumption DEF TypeOK, Checked
<1>1. CASE Begin
  <2>1. run'.pc \notin {"packages", "verify", "again package", "again signature",
                       "promote signatures", "promote packages"}
      BY <1>1, BeginDoes
  <2>. QED
      BY <2>1 DEF GatheredInv, Verifying, Promoting
<1>2. CASE StageDb
  <2>1. Chooses \/ run'.pc \in {"sig", "check"}
      BY <1>2, StageDbDoes
  <2>2. CASE Chooses
      BY <1>a, <1>b, <2>2 DEF Chooses, GatheredInv, Verifying, Promoting
  <2>3. CASE run'.pc \in {"sig", "check"}
      BY <2>3 DEF GatheredInv, Verifying, Promoting
  <2>. QED
      BY <2>1, <2>2, <2>3
<1>3. CASE StageSig
  <2>1. Chooses \/ run'.pc \in {"sig", "check"}
      BY <1>3, StageSigDoes
  <2>2. CASE Chooses
      BY <1>a, <1>b, <2>2 DEF Chooses, GatheredInv, Verifying, Promoting
  <2>3. CASE run'.pc \in {"sig", "check"}
      BY <2>3 DEF GatheredInv, Verifying, Promoting
  <2>. QED
      BY <2>1, <2>2, <2>3
<1>4. CASE CheckSig
  <2>1. Chooses \/ run'.pc \in {"sig", "check"}
      BY <1>4, CheckSigDoes
  <2>2. CASE Chooses
      BY <1>a, <1>b, <2>2 DEF Chooses, GatheredInv, Verifying, Promoting
  <2>3. CASE run'.pc \in {"sig", "check"}
      BY <2>3 DEF GatheredInv, Verifying, Promoting
  <2>. QED
      BY <2>1, <2>2, <2>3
<1>5. CASE BeginRefetchDb
  <2>1. run'.pc \notin {"packages", "verify", "again package", "again signature",
                       "promote signatures", "promote packages"}
      BY <1>5, BeginRefetchDbDoes
  <2>. QED
      BY <2>1 DEF GatheredInv, Verifying, Promoting
<1>6. ASSUME NEW d \in Doc, RefetchDb(d) PROVE GatheredInv'
  <2>1. run'.pc \notin {"packages", "verify", "again package", "again signature",
                       "promote signatures", "promote packages"}
      BY <1>6, RefetchDbDoes
  <2>. QED
      BY <2>1 DEF GatheredInv, Verifying, Promoting
<1>7. ASSUME NEW f \in File, KeepFile(f) PROVE GatheredInv'
  <2>1. /\ run.pc = "packages" /\ run'.pc = "packages" /\ run'.got = run.got
        /\ run'.todo = run.todo \ {f} /\ run.gone \subseteq run'.gone
        /\ \A h \in File \ {f} : next'[h] = next[h] /\ disk'[h] = disk[h]
      BY <1>7, KeepFileDoes
  <2>2. f \in run'.gone \/ Obtained(f)'
      BY <1>b, <1>7, KeepFileDoes DEF Obtained, FileStagedOrFinal
  <2>3. \A h \in File \ {f} : Obtained(h)' <=> Obtained(h)
      BY <1>b, <2>1 DEF Obtained, FileStagedOrFinal
  <2>4. \A h \in File : \/ h[1] \notin Listed(run.got) \/ h \in run'.todo \cup run'.gone
                        \/ conf.format = "apk" /\ h[2] = "signature"
                        \/ Obtained(h)'
      BY <2>1, <2>2, <2>3 DEF GatheredInv
  <2>. QED
      BY <1>b, <2>1, <2>4 DEF GatheredInv, Verifying, Promoting
<1>8. ASSUME NEW f \in File, GetFile(f) PROVE GatheredInv'
  <2>1. /\ run.pc = "packages" /\ run'.pc = "packages" /\ run'.got = run.got
        /\ run'.todo = run.todo \ {f} /\ run.gone \subseteq run'.gone
        /\ \A h \in File \ {f} : next'[h] = next[h] /\ disk'[h] = disk[h]
      BY <1>8, GetFileDoes
  <2>2. f \in run'.gone \/ Obtained(f)'
      BY <1>b, <1>8, GetFileDoes DEF Obtained, FileStagedOrFinal
  <2>3. \A h \in File \ {f} : Obtained(h)' <=> Obtained(h)
      BY <1>b, <2>1 DEF Obtained, FileStagedOrFinal
  <2>4. \A h \in File : \/ h[1] \notin Listed(run.got) \/ h \in run'.todo \cup run'.gone
                        \/ conf.format = "apk" /\ h[2] = "signature"
                        \/ Obtained(h)'
      BY <2>1, <2>2, <2>3 DEF GatheredInv
  <2>. QED
      BY <1>b, <2>1, <2>4 DEF GatheredInv, Verifying, Promoting
<1>9. ASSUME NEW f \in File, MissFile(f) PROVE GatheredInv'
  <2>1. /\ run.pc = "packages" /\ run'.pc = "packages" /\ run'.got = run.got
        /\ run'.todo = run.todo \ {f} /\ run.gone \subseteq run'.gone
        /\ \A h \in File \ {f} : next'[h] = next[h] /\ disk'[h] = disk[h]
      BY <1>9, MissFileDoes
  <2>2. f \in run'.gone \/ Obtained(f)'
      BY <1>b, <1>9, MissFileDoes DEF Obtained, FileStagedOrFinal
  <2>3. \A h \in File \ {f} : Obtained(h)' <=> Obtained(h)
      BY <1>b, <2>1 DEF Obtained, FileStagedOrFinal
  <2>4. \A h \in File : \/ h[1] \notin Listed(run.got) \/ h \in run'.todo \cup run'.gone
                        \/ conf.format = "apk" /\ h[2] = "signature"
                        \/ Obtained(h)'
      BY <2>1, <2>2, <2>3 DEF GatheredInv
  <2>. QED
      BY <1>b, <2>1, <2>4 DEF GatheredInv, Verifying, Promoting
<1>10. CASE PackagesDone
  <2>1. /\ run.pc = "packages" /\ run.todo = {} /\ run'.gone = run.gone /\ run'.got = run.got
        /\ UNCHANGED <<next, disk>> /\ ((run'.pc = "verify" /\ Checked) \/ run'.pc \in {"extras", "publish db"})
      BY <1>10, PackagesDoneDoes
  <2>2. Checked => \A f \in File : f[1] \in Listed(run.got) => f \in run.gone \/ FileStagedOrFinal(f) # Absent
      BY <1>b, <2>1 DEF GatheredInv, Obtained
  <2>. QED
      BY <2>1, <2>2 DEF GatheredInv, Verifying, Promoting, FileStagedOrFinal
<1>11. ASSUME NEW f \in File, VerifyPair(f) PROVE GatheredInv'
  <2>1. /\ run.pc \in {"verify", "again package"} /\ run'.pc \in {"verify", "again package"}
        /\ run'.gone = run.gone /\ run'.got = run.got /\ UNCHANGED <<next, disk>>
      BY <1>11, VerifyPairDoes
  <2>. QED
      BY <2>1 DEF GatheredInv, Verifying, Promoting, FileStagedOrFinal
<1>12. ASSUME NEW f \in File, BeginRefetchPair(f) PROVE GatheredInv'
  <2>1. /\ run.pc \in {"verify", "again package"} /\ run'.pc \in {"verify", "again package"}
        /\ run'.gone = run.gone /\ run'.got = run.got /\ UNCHANGED <<next, disk>>
      BY <1>12, BeginRefetchPairDoes
  <2>. QED
      BY <2>1 DEF GatheredInv, Verifying, Promoting, FileStagedOrFinal
<1>13. ASSUME NEW f \in File, RefetchPackage(f) PROVE GatheredInv'
  <2>1. /\ run.pc \in {"again package", "again signature"}
        /\ run'.pc \in {"again signature", "verify"}
        /\ run'.gone = run.gone /\ run'.got = run.got /\ disk' = disk /\ f[1] \in run.pair
        /\ \A h \in File \ {f} : next'[h] = next[h]
      BY <1>13, RefetchPackageDoes
  <2>2. Wanted(f) # Absent
      BY <2>1, PairIsListed
  <2>3. FileStagedOrFinal(f)' # Absent
      BY <1>13, <2>1, <2>2, RefetchPackageDoes DEF FileStagedOrFinal
  <2>4. \A h \in File \ {f} : FileStagedOrFinal(h)' = FileStagedOrFinal(h)
      BY <2>1 DEF FileStagedOrFinal
  <2>. QED
      BY <2>1, <2>3, <2>4 DEF GatheredInv, Verifying, Promoting
<1>14. ASSUME NEW f \in File, RefetchSignature(f) PROVE GatheredInv'
  <2>1. /\ run.pc \in {"again package", "again signature"}
        /\ run'.pc \in {"again signature", "verify"}
        /\ run'.gone = run.gone /\ run'.got = run.got /\ disk' = disk /\ f[1] \in run.pair
        /\ \A h \in File \ {f} : next'[h] = next[h]
      BY <1>14, RefetchSignatureDoes
  <2>2. Wanted(f) # Absent
      BY <2>1, PairIsListed
  <2>3. FileStagedOrFinal(f)' # Absent
      BY <1>14, <2>1, <2>2, RefetchSignatureDoes DEF FileStagedOrFinal
  <2>4. \A h \in File \ {f} : FileStagedOrFinal(h)' = FileStagedOrFinal(h)
      BY <2>1 DEF FileStagedOrFinal
  <2>. QED
      BY <2>1, <2>3, <2>4 DEF GatheredInv, Verifying, Promoting
<1>15. CASE Verified
  <2>1. CASE Stops
      BY <2>1, StopsDoes DEF GatheredInv, Verifying, Promoting
  <2>2. CASE ~Stops
    <3>1. /\ run.pc = "verify" /\ run'.pc = "promote signatures"
          /\ run'.gone = run.gone /\ run'.got = run.got /\ UNCHANGED <<next, disk>>
        BY <1>15, <2>2, VerifiedDoes
    <3>. QED
        BY <3>1 DEF GatheredInv, Verifying, Promoting, FileStagedOrFinal
  <2>. QED
      BY <2>1, <2>2
<1>16. ASSUME NEW f \in File, PromoteSignature(f) PROVE GatheredInv'
  <2>1. /\ run.pc = "promote signatures" /\ run'.pc = "promote signatures" /\ Promoted(f)
        /\ run'.gone = run.gone /\ run'.got = run.got
      BY <1>16, PromoteSignatureDoes
  <2>2. \A h \in File : h \in run.gone \/ FileStagedOrFinal(h)' = FileStagedOrFinal(h)
    <3>1. f \in run.gone \/ FileStagedOrFinal(f)' = FileStagedOrFinal(f)
        BY <2>1, PromotedDoes
    <3>2. \A h \in File : h # f => FileStagedOrFinal(h)' = FileStagedOrFinal(h)
        BY <2>1, PromotedDoes
    <3>. QED
        BY <3>1, <3>2
  <2>. QED
      BY <2>1, <2>2 DEF GatheredInv, Verifying, Promoting
<1>17. ASSUME NEW f \in File, PromotePackage(f) PROVE GatheredInv'
  <2>1. /\ run.pc = "promote packages" /\ run'.pc = "promote packages" /\ Promoted(f)
        /\ run'.gone = run.gone /\ run'.got = run.got
      BY <1>17, PromotePackageDoes
  <2>2. \A h \in File : h \in run.gone \/ FileStagedOrFinal(h)' = FileStagedOrFinal(h)
    <3>1. f \in run.gone \/ FileStagedOrFinal(f)' = FileStagedOrFinal(f)
        BY <2>1, PromotedDoes
    <3>2. \A h \in File : h # f => FileStagedOrFinal(h)' = FileStagedOrFinal(h)
        BY <2>1, PromotedDoes
    <3>. QED
        BY <3>1, <3>2
  <2>. QED
      BY <2>1, <2>2 DEF GatheredInv, Verifying, Promoting
<1>18. CASE SignaturesPromoted
  <2>1. /\ run.pc \in {"promote signatures", "promote packages"}
        /\ run'.pc \in {"promote signatures", "promote packages"}
        /\ run'.gone = run.gone /\ run'.got = run.got /\ UNCHANGED <<next, disk>>
      BY <1>18, SignaturesPromotedDoes
  <2>. QED
      BY <2>1 DEF GatheredInv, Verifying, Promoting, FileStagedOrFinal
<1>19. CASE PackagesPromoted
  <2>1. run'.pc \notin {"packages", "verify", "again package", "again signature",
                       "promote signatures", "promote packages"}
      BY <1>19, PackagesPromotedDoes
  <2>. QED
      BY <2>1 DEF GatheredInv, Verifying, Promoting
<1>20. ASSUME NEW e \in Extra, StageExtra(e) PROVE GatheredInv'
  <2>1. run'.pc \notin {"packages", "verify", "again package", "again signature",
                       "promote signatures", "promote packages"}
      BY <1>20, StageExtraDoes
  <2>. QED
      BY <2>1 DEF GatheredInv, Verifying, Promoting
<1>21. ASSUME NEW e \in Extra, PromoteExtra(e) PROVE GatheredInv'
  <2>1. run'.pc \notin {"packages", "verify", "again package", "again signature",
                       "promote signatures", "promote packages"}
      BY <1>21, PromoteExtraDoes
  <2>. QED
      BY <2>1 DEF GatheredInv, Verifying, Promoting
<1>22. CASE ExtrasStaged
  <2>1. run'.pc \notin {"packages", "verify", "again package", "again signature",
                       "promote signatures", "promote packages"}
      BY <1>22, ExtrasStagedDoes
  <2>. QED
      BY <2>1 DEF GatheredInv, Verifying, Promoting
<1>23. CASE PublishSig
  <2>1. run'.pc \notin {"packages", "verify", "again package", "again signature",
                       "promote signatures", "promote packages"}
      BY <1>23, PublishSigDoes
  <2>. QED
      BY <2>1 DEF GatheredInv, Verifying, Promoting
<1>24. CASE PublishDb
  <2>1. run'.pc \notin {"packages", "verify", "again package", "again signature",
                       "promote signatures", "promote packages"}
      BY <1>24, PublishDbDoes
  <2>. QED
      BY <2>1 DEF GatheredInv, Verifying, Promoting
<1>25. ASSUME NEW f \in File, PruneFile(f) PROVE GatheredInv'
  <2>1. run'.pc \notin {"packages", "verify", "again package", "again signature",
                       "promote signatures", "promote packages"}
      BY <1>25, PruneFileDoes
  <2>. QED
      BY <2>1 DEF GatheredInv, Verifying, Promoting
<1>26. CASE Rotate
  <2>1. UNCHANGED <<run, conf, disk, next>>
      BY <1>26, RotateDoes
  <2>. QED
      BY <1>b, <2>1 DEF GatheredInv, Verifying, Promoting, Obtained, FileStagedOrFinal
<1>27. CASE UNCHANGED vars
  <2>1. UNCHANGED <<run, conf, disk, next>>
      BY <1>27 DEF vars, files, history
  <2>. QED
      BY <1>b, <2>1 DEF GatheredInv, Verifying, Promoting, Obtained, FileStagedOrFinal
<1>28. ASSUME Stops PROVE GatheredInv'
    BY <1>28, StopsDoes DEF GatheredInv, Verifying, Promoting
<1>29. ASSUME NEW d \in Doc, PruneDoc(d) PROVE GatheredInv'
  <2>1. run'.pc \notin {"packages", "verify", "again package", "again signature",
                       "promote signatures", "promote packages"}
      BY <1>29, PruneDocDoes
  <2>. QED
      BY <2>1 DEF GatheredInv, Verifying, Promoting
<1>. QED
    BY <1>1, <1>2, <1>3, <1>4, <1>5, <1>6, <1>7, <1>8, <1>9, <1>10, <1>11, <1>12, <1>13,
       <1>14, <1>15, <1>16, <1>17, <1>18, <1>19, <1>20, <1>21, <1>22, <1>23, <1>24, <1>25,
       <1>26, <1>27, <1>28, <1>29, EndsDo DEF Next, Database, Packages, Publish


-----------------------------------------------------------------------------
(* The packages: verified *)
LEMMA PairStays ==
    ASSUME conf' = conf, run'.gone = run.gone, NEW f \in File,
           \/ Signature(f) \in run.gone
           \/ /\ FileStagedOrFinal(f)' = FileStagedOrFinal(f)
              /\ FileStagedOrFinal(Signature(f))' = FileStagedOrFinal(Signature(f))
    PROVE  PairOK(f)' <=> PairOK(f)
<1>1. Signature(f)' = Signature(f)
    BY DEF Signature
<1>2. FileStagedOrFinal(Signature(f))' = (IF next'[Signature(f)] # Absent THEN next'[Signature(f)]
                                           ELSE disk'[Signature(f)])
    BY <1>1 DEF FileStagedOrFinal
<1>. QED
    BY <1>1, <1>2 DEF PairOK

\* Packages and their signatures, as files.
LEMMA Kinds ==
    /\ \A f \in OfKind("package") : /\ f \in File /\ f[2] = "package" /\ f[1] \in Listed(run.got)
                                    /\ Signature(f) \in OfKind("signature") /\ f = <<f[1], "package">>
    /\ \A f \in OfKind("signature") : f \in File /\ f[2] = "signature" /\ f[1] \in Listed(run.got)
    /\ \A f, h \in File : f[1] = h[1] /\ f[2] = h[2] => f = h
BY DEF OfKind, Signature, File

LEMMA VerifiedStep ==
    ASSUME TypeOK, WhereInv, TodoInv, VerifiedInv, [Next]_vars
    PROVE  VerifiedInv'
<1>a. conf' = conf /\ \A f \in File : Signature(f) \in File /\ Signature(f)[2] = "signature" /\ Signature(f)[1] = f[1]
    BY ConfStays, Files
<1>1. CASE Begin
  <2>1. run'.pc \notin {"verify", "again package", "again signature", "promote signatures",
                       "promote packages"}
      BY <1>1, BeginDoes DEF Chooses
  <2>. QED
      BY <2>1 DEF VerifiedInv, Verifying, Promoting
<1>2. CASE StageDb
  <2>1. run'.pc \notin {"verify", "again package", "again signature", "promote signatures",
                       "promote packages"}
      BY <1>2, StageDbDoes DEF Chooses
  <2>. QED
      BY <2>1 DEF VerifiedInv, Verifying, Promoting
<1>3. CASE StageSig
  <2>1. run'.pc \notin {"verify", "again package", "again signature", "promote signatures",
                       "promote packages"}
      BY <1>3, StageSigDoes DEF Chooses
  <2>. QED
      BY <2>1 DEF VerifiedInv, Verifying, Promoting
<1>4. CASE CheckSig
  <2>1. run'.pc \notin {"verify", "again package", "again signature", "promote signatures",
                       "promote packages"}
      BY <1>4, CheckSigDoes DEF Chooses
  <2>. QED
      BY <2>1 DEF VerifiedInv, Verifying, Promoting
<1>5. CASE BeginRefetchDb
  <2>1. run'.pc \notin {"verify", "again package", "again signature", "promote signatures",
                       "promote packages"}
      BY <1>5, BeginRefetchDbDoes DEF Chooses
  <2>. QED
      BY <2>1 DEF VerifiedInv, Verifying, Promoting
<1>6. ASSUME NEW d \in Doc, RefetchDb(d) PROVE VerifiedInv'
  <2>1. run'.pc \notin {"verify", "again package", "again signature", "promote signatures",
                       "promote packages"}
      BY <1>6, RefetchDbDoes DEF Chooses
  <2>. QED
      BY <2>1 DEF VerifiedInv, Verifying, Promoting
<1>7. ASSUME NEW f \in File, KeepFile(f) PROVE VerifiedInv'
  <2>1. run'.pc \notin {"verify", "again package", "again signature", "promote signatures",
                       "promote packages"}
      BY <1>7, KeepFileDoes DEF Chooses
  <2>. QED
      BY <2>1 DEF VerifiedInv, Verifying, Promoting
<1>8. ASSUME NEW f \in File, GetFile(f) PROVE VerifiedInv'
  <2>1. run'.pc \notin {"verify", "again package", "again signature", "promote signatures",
                       "promote packages"}
      BY <1>8, GetFileDoes DEF Chooses
  <2>. QED
      BY <2>1 DEF VerifiedInv, Verifying, Promoting
<1>9. ASSUME NEW f \in File, MissFile(f) PROVE VerifiedInv'
  <2>1. run'.pc \notin {"verify", "again package", "again signature", "promote signatures",
                       "promote packages"}
      BY <1>9, MissFileDoes DEF Chooses
  <2>. QED
      BY <2>1 DEF VerifiedInv, Verifying, Promoting
<1>10. CASE PackagesDone
  <2>1. /\ run'.gone = run.gone /\ run'.got = run.got
        /\ \/ run'.pc = "verify" /\ run'.todo = OfKind("package") \ run.gone
           \/ run'.pc \in {"extras", "publish db"}
      BY <1>10, PackagesDoneDoes
  <2>. QED
      BY <2>1, KindStays DEF VerifiedInv, Verifying, Promoting
<1>11. ASSUME NEW f \in File, VerifyPair(f) PROVE VerifiedInv'
  <2>1. /\ run.pc \in {"verify"} /\ run'.pc \in {"verify"}
        /\ run'.gone = run.gone /\ run'.got = run.got /\ UNCHANGED <<next, disk>> /\ PairOK(f)
        /\ run'.todo = run.todo \ {f}
      BY <1>11, VerifyPairDoes
  <2>2. \A h \in OfKind("package") : PairOK(h)' <=> PairOK(h)
      BY <1>a, <2>1, PairStays, Kinds DEF FileStagedOrFinal
  <2>. QED
      BY <2>1, <2>2, KindStays DEF VerifiedInv, Verifying, Promoting
<1>12. ASSUME NEW f \in File, BeginRefetchPair(f) PROVE VerifiedInv'
  <2>1. /\ run.pc \in {"verify", "again package"} /\ run'.pc \in {"verify", "again package"}
        /\ run'.gone = run.gone /\ run'.got = run.got /\ UNCHANGED <<next, disk>> /\ run'.todo = run.todo
      BY <1>12, BeginRefetchPairDoes
  <2>2. \A h \in OfKind("package") : PairOK(h)' <=> PairOK(h)
      BY <1>a, <2>1, PairStays, Kinds DEF FileStagedOrFinal
  <2>. QED
      BY <2>1, <2>2, KindStays DEF VerifiedInv, Verifying, Promoting
<1>13. ASSUME NEW f \in File, RefetchPackage(f) PROVE VerifiedInv'
  <2>1. /\ run.pc \in {"again package", "again signature"}
        /\ run'.pc \in {"again signature", "verify"}
        /\ run'.gone = run.gone /\ run'.got = run.got /\ disk' = disk /\ f[1] \in run.pair
        /\ f[2] = "package" /\ run'.todo = run.todo
        /\ \A h \in File : h # f => next'[h] = next[h]
      BY <1>13, RefetchPackageDoes
  <2>2. PICK c \in run.todo : c \in OfKind("package") /\ c[1] = f[1]
      BY <2>1, PairIsListed
  <2>3. ASSUME NEW h \in OfKind("package"), h \notin run.todo PROVE PairOK(h)' <=> PairOK(h)
    <3>1. h # c /\ h[1] # f[1]
        BY <2>2, <2>3, Kinds
    <3>2. h \in File /\ Signature(h) \in File /\ h # f /\ Signature(h) # f
        BY <1>a, <3>1, Kinds
    <3>3. /\ FileStagedOrFinal(h)' = FileStagedOrFinal(h)
          /\ FileStagedOrFinal(Signature(h))' = FileStagedOrFinal(Signature(h))
        BY <2>1, <3>2 DEF FileStagedOrFinal, Signature
    <3>. QED
        BY <1>a, <2>1, <3>2, <3>3, PairStays
  <2>. QED
      BY <2>1, <2>3, KindStays DEF VerifiedInv, Verifying, Promoting
<1>14. ASSUME NEW f \in File, RefetchSignature(f) PROVE VerifiedInv'
  <2>1. /\ run.pc \in {"again package", "again signature"}
        /\ run'.pc \in {"again signature", "verify"}
        /\ run'.gone = run.gone /\ run'.got = run.got /\ disk' = disk /\ f[1] \in run.pair
        /\ f[2] = "signature" /\ run'.todo = run.todo
        /\ \A h \in File : h # f => next'[h] = next[h]
      BY <1>14, RefetchSignatureDoes
  <2>2. PICK c \in run.todo : c \in OfKind("package") /\ c[1] = f[1]
      BY <2>1, PairIsListed
  <2>3. ASSUME NEW h \in OfKind("package"), h \notin run.todo PROVE PairOK(h)' <=> PairOK(h)
    <3>1. h # c /\ h[1] # f[1]
        BY <2>2, <2>3, Kinds
    <3>2. h \in File /\ Signature(h) \in File /\ h # f /\ Signature(h) # f
        BY <1>a, <3>1, Kinds
    <3>3. /\ FileStagedOrFinal(h)' = FileStagedOrFinal(h)
          /\ FileStagedOrFinal(Signature(h))' = FileStagedOrFinal(Signature(h))
        BY <2>1, <3>2 DEF FileStagedOrFinal, Signature
    <3>. QED
        BY <1>a, <2>1, <3>2, <3>3, PairStays
  <2>. QED
      BY <2>1, <2>3, KindStays DEF VerifiedInv, Verifying, Promoting
<1>15. CASE Verified
  <2>1. CASE Stops
      BY <2>1, StopsDoes DEF VerifiedInv, Verifying, Promoting
  <2>2. CASE ~Stops
    <3>1. /\ run.pc = "verify" /\ run.todo = {} /\ run'.pc = "promote signatures"
          /\ run'.gone = run.gone /\ run'.got = run.got /\ UNCHANGED <<next, disk>>
        BY <1>15, <2>2, VerifiedDoes
    <3>2. \A h \in OfKind("package") : PairOK(h)' <=> PairOK(h)
        BY <1>a, <3>1, PairStays, Kinds DEF FileStagedOrFinal
    <3>. QED
        BY <3>1, <3>2, KindStays DEF VerifiedInv, Verifying, Promoting
  <2>. QED
      BY <2>1, <2>2
<1>16. ASSUME NEW f \in File, PromoteSignature(f) PROVE VerifiedInv'
  <2>1. /\ run.pc = "promote signatures" /\ run'.pc = "promote signatures" /\ Promoted(f) /\ f \in run.todo
        /\ run'.gone = run.gone /\ run'.got = run.got
      BY <1>16, PromoteSignatureDoes
  <2>2. f[2] = "signature"
      BY <2>1, Kinds DEF TodoInv
  <2>3. /\ f \notin run.gone => FileStagedOrFinal(f)' = FileStagedOrFinal(f)
        /\ \A h \in File : h # f => FileStagedOrFinal(h)' = FileStagedOrFinal(h)
      BY <2>1, PromotedDoes
  <2>4. ASSUME NEW h \in OfKind("package"), h \notin run.gone PROVE PairOK(h)' <=> PairOK(h)
    <3>1. h \in File /\ Signature(h) \in File /\ h[2] = "package" /\ Signature(h)[2] = "signature"
        BY <1>a, Kinds
    <3>2. FileStagedOrFinal(h)' = FileStagedOrFinal(h)
        BY <2>2, <2>3, <2>4, <3>1
    <3>3. \/ Signature(h) \in run.gone
          \/ FileStagedOrFinal(Signature(h))' = FileStagedOrFinal(Signature(h))
        BY <2>2, <2>3, <3>1
    <3>. QED
        BY <1>a, <2>1, <3>1, <3>2, <3>3, PairStays
  <2>. QED
      BY <2>1, <2>4, KindStays DEF VerifiedInv, Verifying, Promoting
<1>17. ASSUME NEW f \in File, PromotePackage(f) PROVE VerifiedInv'
  <2>1. /\ run.pc = "promote packages" /\ run'.pc = "promote packages" /\ Promoted(f) /\ f \in run.todo
        /\ run'.gone = run.gone /\ run'.got = run.got
      BY <1>17, PromotePackageDoes
  <2>2. f[2] = "package"
      BY <2>1, Kinds DEF TodoInv
  <2>3. /\ f \notin run.gone => FileStagedOrFinal(f)' = FileStagedOrFinal(f)
        /\ \A h \in File : h # f => FileStagedOrFinal(h)' = FileStagedOrFinal(h)
      BY <2>1, PromotedDoes
  <2>4. ASSUME NEW h \in OfKind("package"), h \notin run.gone PROVE PairOK(h)' <=> PairOK(h)
    <3>1. h \in File /\ Signature(h) \in File /\ h[2] = "package" /\ Signature(h)[2] = "signature"
        BY <1>a, Kinds
    <3>2. FileStagedOrFinal(h)' = FileStagedOrFinal(h)
        BY <2>2, <2>3, <2>4, <3>1
    <3>3. \/ Signature(h) \in run.gone
          \/ FileStagedOrFinal(Signature(h))' = FileStagedOrFinal(Signature(h))
        BY <2>2, <2>3, <3>1
    <3>. QED
        BY <1>a, <2>1, <3>1, <3>2, <3>3, PairStays
  <2>. QED
      BY <2>1, <2>4, KindStays DEF VerifiedInv, Verifying, Promoting
<1>18. CASE SignaturesPromoted
  <2>1. /\ run.pc \in {"promote signatures", "promote packages"}
        /\ run'.pc \in {"promote signatures", "promote packages"}
        /\ run'.gone = run.gone /\ run'.got = run.got /\ UNCHANGED <<next, disk>>
      BY <1>18, SignaturesPromotedDoes
  <2>2. \A h \in OfKind("package") : PairOK(h)' <=> PairOK(h)
      BY <1>a, <2>1, PairStays, Kinds DEF FileStagedOrFinal
  <2>. QED
      BY <2>1, <2>2, KindStays DEF VerifiedInv, Verifying, Promoting
<1>19. CASE PackagesPromoted
  <2>1. run'.pc \notin {"verify", "again package", "again signature", "promote signatures",
                       "promote packages"}
      BY <1>19, PackagesPromotedDoes DEF Chooses
  <2>. QED
      BY <2>1 DEF VerifiedInv, Verifying, Promoting
<1>20. ASSUME NEW e \in Extra, StageExtra(e) PROVE VerifiedInv'
  <2>1. run'.pc \notin {"verify", "again package", "again signature", "promote signatures",
                       "promote packages"}
      BY <1>20, StageExtraDoes DEF Chooses
  <2>. QED
      BY <2>1 DEF VerifiedInv, Verifying, Promoting
<1>21. ASSUME NEW e \in Extra, PromoteExtra(e) PROVE VerifiedInv'
  <2>1. run'.pc \notin {"verify", "again package", "again signature", "promote signatures",
                       "promote packages"}
      BY <1>21, PromoteExtraDoes DEF Chooses
  <2>. QED
      BY <2>1 DEF VerifiedInv, Verifying, Promoting
<1>22. CASE ExtrasStaged
  <2>1. run'.pc \notin {"verify", "again package", "again signature", "promote signatures",
                       "promote packages"}
      BY <1>22, ExtrasStagedDoes DEF Chooses
  <2>. QED
      BY <2>1 DEF VerifiedInv, Verifying, Promoting
<1>23. CASE PublishSig
  <2>1. run'.pc \notin {"verify", "again package", "again signature", "promote signatures",
                       "promote packages"}
      BY <1>23, PublishSigDoes DEF Chooses
  <2>. QED
      BY <2>1 DEF VerifiedInv, Verifying, Promoting
<1>24. CASE PublishDb
  <2>1. run'.pc \notin {"verify", "again package", "again signature", "promote signatures",
                       "promote packages"}
      BY <1>24, PublishDbDoes DEF Chooses
  <2>. QED
      BY <2>1 DEF VerifiedInv, Verifying, Promoting
<1>25. ASSUME NEW f \in File, PruneFile(f) PROVE VerifiedInv'
  <2>1. run'.pc \notin {"verify", "again package", "again signature", "promote signatures",
                       "promote packages"}
      BY <1>25, PruneFileDoes DEF Chooses
  <2>. QED
      BY <2>1 DEF VerifiedInv, Verifying, Promoting
<1>26. CASE Rotate
  <2>1. UNCHANGED <<run, conf, disk, next>>
      BY <1>26, RotateDoes
  <2>2. \A h \in OfKind("package") : PairOK(h)' <=> PairOK(h)
      BY <1>a, <2>1, PairStays, Kinds DEF FileStagedOrFinal
  <2>. QED
      BY <2>1, <2>2, KindStays DEF VerifiedInv, Verifying, Promoting
<1>27. CASE UNCHANGED vars
  <2>1. UNCHANGED <<run, conf, disk, next>>
      BY <1>27 DEF vars, files, history
  <2>2. \A h \in OfKind("package") : PairOK(h)' <=> PairOK(h)
      BY <1>a, <2>1, PairStays, Kinds DEF FileStagedOrFinal
  <2>. QED
      BY <2>1, <2>2, KindStays DEF VerifiedInv, Verifying, Promoting
<1>28. ASSUME Stops PROVE VerifiedInv'
    BY <1>28, StopsDoes DEF VerifiedInv, Verifying, Promoting
<1>29. ASSUME NEW d \in Doc, PruneDoc(d) PROVE VerifiedInv'
  <2>1. run'.pc \notin {"verify", "again package", "again signature", "promote signatures",
                       "promote packages"}
      BY <1>29, PruneDocDoes
  <2>. QED
      BY <2>1 DEF VerifiedInv, Verifying, Promoting
<1>. QED
    BY <1>1, <1>2, <1>3, <1>4, <1>5, <1>6, <1>7, <1>8, <1>9, <1>10, <1>11, <1>12, <1>13,
       <1>14, <1>15, <1>16, <1>17, <1>18, <1>19, <1>20, <1>21, <1>22, <1>23, <1>24, <1>25,
       <1>26, <1>27, <1>28, <1>29, EndsDo DEF Next, Database, Packages, Publish


-----------------------------------------------------------------------------
(* The packages: in place *)
LEMMA PlaceStays ==
    ASSUME conf' = conf, run'.gone = run.gone, NEW f \in File,
           disk'[f] = disk[f], disk'[Signature(f)] = disk[Signature(f)], PackagePlaced(f)
    PROVE  PackagePlaced(f)'
<1>1. Signature(f)' = Signature(f)
    BY DEF Signature
<1>2. disk'[Signature(f)'] = disk[Signature(f)]
    BY <1>1
<1>. QED
    BY <1>1, <1>2 DEF PackagePlaced

LEMMA PlacedStep ==
    ASSUME TypeOK, WhereInv, TodoInv, GatheredInv, VerifiedInv, PlacedInv, [Next]_vars
    PROVE  PlacedInv'
<1>a. conf' = conf /\ \A f \in File : Signature(f) \in File /\ Signature(f)[2] = "signature" /\ Signature(f)[1] = f[1]
    BY ConfStays, Files
<1>1. CASE Begin
  <2>1. run'.pc \notin {"promote signatures", "promote packages", "extras", "promote extras",
                       "publish db", "prune"}
      BY <1>1, BeginDoes DEF Chooses
  <2>. QED
      BY <2>1 DEF PlacedInv, Placed
<1>2. CASE StageDb
  <2>1. run'.pc \notin {"promote signatures", "promote packages", "extras", "promote extras",
                       "publish db", "prune"}
      BY <1>2, StageDbDoes DEF Chooses
  <2>. QED
      BY <2>1 DEF PlacedInv, Placed
<1>3. CASE StageSig
  <2>1. run'.pc \notin {"promote signatures", "promote packages", "extras", "promote extras",
                       "publish db", "prune"}
      BY <1>3, StageSigDoes DEF Chooses
  <2>. QED
      BY <2>1 DEF PlacedInv, Placed
<1>4. CASE CheckSig
  <2>1. run'.pc \notin {"promote signatures", "promote packages", "extras", "promote extras",
                       "publish db", "prune"}
      BY <1>4, CheckSigDoes DEF Chooses
  <2>. QED
      BY <2>1 DEF PlacedInv, Placed
<1>5. CASE BeginRefetchDb
  <2>1. run'.pc \notin {"promote signatures", "promote packages", "extras", "promote extras",
                       "publish db", "prune"}
      BY <1>5, BeginRefetchDbDoes DEF Chooses
  <2>. QED
      BY <2>1 DEF PlacedInv, Placed
<1>6. ASSUME NEW d \in Doc, RefetchDb(d) PROVE PlacedInv'
  <2>1. run'.pc \notin {"promote signatures", "promote packages", "extras", "promote extras",
                       "publish db", "prune"}
      BY <1>6, RefetchDbDoes DEF Chooses
  <2>. QED
      BY <2>1 DEF PlacedInv, Placed
<1>7. ASSUME NEW f \in File, KeepFile(f) PROVE PlacedInv'
  <2>1. run'.pc \notin {"promote signatures", "promote packages", "extras", "promote extras",
                       "publish db", "prune"}
      BY <1>7, KeepFileDoes DEF Chooses
  <2>. QED
      BY <2>1 DEF PlacedInv, Placed
<1>8. ASSUME NEW f \in File, GetFile(f) PROVE PlacedInv'
  <2>1. run'.pc \notin {"promote signatures", "promote packages", "extras", "promote extras",
                       "publish db", "prune"}
      BY <1>8, GetFileDoes DEF Chooses
  <2>. QED
      BY <2>1 DEF PlacedInv, Placed
<1>9. ASSUME NEW f \in File, MissFile(f) PROVE PlacedInv'
  <2>1. run'.pc \notin {"promote signatures", "promote packages", "extras", "promote extras",
                       "publish db", "prune"}
      BY <1>9, MissFileDoes DEF Chooses
  <2>. QED
      BY <2>1 DEF PlacedInv, Placed
<1>10. CASE PackagesDone
  <2>1. CASE Checked
    <3>1. run'.pc = "verify"
        BY <1>10, <2>1, PackagesDoneDoes
    <3>. QED
        BY <3>1 DEF PlacedInv, Placed
  <2>2. CASE ~Checked
    <3>1. /\ run.pc = "packages" /\ run.todo = {} /\ run'.gone = run.gone /\ run'.got = run.got
          /\ disk' = disk /\ run'.pc \in {"extras", "publish db"}
        BY <1>10, <2>2, PackagesDoneDoes
    <3>2. ASSUME NEW f \in OfKind("package"), f \notin run.gone PROVE PackagePlaced(f)
      <4>1. Obtained(f)
          BY <3>1, <3>2, Kinds DEF GatheredInv
      <4>. QED
          BY <2>2, <4>1 DEF Obtained, PackagePlaced, Checked
    <3>3. ASSUME NEW f \in OfKind("package"), f \notin run.gone PROVE PackagePlaced(f)'
        BY <1>a, <3>1, <3>2, <3>3, PlaceStays, Kinds
    <3>. QED
        BY <3>1, <3>3, KindStays DEF PlacedInv, Placed
  <2>. QED
      BY <2>1, <2>2
<1>11. ASSUME NEW f \in File, VerifyPair(f) PROVE PlacedInv'
  <2>1. run'.pc \notin {"promote signatures", "promote packages", "extras", "promote extras",
                       "publish db", "prune"}
      BY <1>11, VerifyPairDoes DEF Chooses
  <2>. QED
      BY <2>1 DEF PlacedInv, Placed
<1>12. ASSUME NEW f \in File, BeginRefetchPair(f) PROVE PlacedInv'
  <2>1. run'.pc \notin {"promote signatures", "promote packages", "extras", "promote extras",
                       "publish db", "prune"}
      BY <1>12, BeginRefetchPairDoes DEF Chooses
  <2>. QED
      BY <2>1 DEF PlacedInv, Placed
<1>13. ASSUME NEW f \in File, RefetchPackage(f) PROVE PlacedInv'
  <2>1. run'.pc \notin {"promote signatures", "promote packages", "extras", "promote extras",
                       "publish db", "prune"}
      BY <1>13, RefetchPackageDoes DEF Chooses
  <2>. QED
      BY <2>1 DEF PlacedInv, Placed
<1>14. ASSUME NEW f \in File, RefetchSignature(f) PROVE PlacedInv'
  <2>1. run'.pc \notin {"promote signatures", "promote packages", "extras", "promote extras",
                       "publish db", "prune"}
      BY <1>14, RefetchSignatureDoes DEF Chooses
  <2>. QED
      BY <2>1 DEF PlacedInv, Placed
<1>15. CASE Verified
  <2>1. CASE Stops
      BY <2>1, StopsDoes DEF PlacedInv, Placed
  <2>2. CASE ~Stops
    <3>1. /\ run'.pc = "promote signatures" /\ run'.todo = OfKind("signature") /\ run'.got = run.got
        BY <1>15, <2>2, VerifiedDoes
    <3>. QED
        BY <3>1, KindStays DEF PlacedInv, Placed
  <2>. QED
      BY <2>1, <2>2
<1>16. ASSUME NEW f \in File, PromoteSignature(f) PROVE PlacedInv'
  <2>1. /\ run.pc = "promote signatures" /\ run'.pc = "promote signatures" /\ Promoted(f)
        /\ f \in run.todo /\ run'.todo = run.todo \ {f}
        /\ run'.gone = run.gone /\ run'.got = run.got
        /\ f \in run.gone => disk'[f] = Absent \/ f[1] \in stray'
        /\ stray' \ {f[1]} = stray \ {f[1]}
      BY <1>16, PromoteSignatureDoes
  <2>2. f[2] = "signature"
      BY <2>1, Kinds DEF TodoInv
  <2>3. SignaturePlaced(f)'
      BY <2>1, PromotedDoes DEF SignaturePlaced
  <2>4. ASSUME NEW h \in OfKind("signature"), h # f, SignaturePlaced(h) PROVE SignaturePlaced(h)'
    <3>1. h \in File /\ h[1] # f[1]
        BY <2>2, <2>4, Kinds
    <3>. QED
        BY <2>1, <2>4, <3>1, PromotedDoes DEF SignaturePlaced
  <2>5. \A h \in OfKind("signature") \ run'.todo : SignaturePlaced(h)'
      BY <2>1, <2>3, <2>4, Kinds DEF PlacedInv
  <2>. QED
      BY <2>1, <2>5, KindStays DEF PlacedInv, Placed
<1>17. ASSUME NEW f \in File, PromotePackage(f) PROVE PlacedInv'
  <2>1. /\ run.pc = "promote packages" /\ run'.pc = "promote packages" /\ Promoted(f)
        /\ f \in run.todo /\ run'.todo = run.todo \ {f} /\ stray' = stray
        /\ run'.gone = run.gone /\ run'.got = run.got
      BY <1>17, PromotePackageDoes
  <2>2. f \in OfKind("package") /\ f[2] = "package"
      BY <2>1, Kinds DEF TodoInv
  <2>3. ASSUME f \notin run.gone PROVE disk'[f] # Absent
    <3>1. FileStagedOrFinal(f) # Absent
        BY <2>1, <2>2, <2>3, Kinds DEF GatheredInv, Promoting
    <3>2. disk'[f] = FileStagedOrFinal(f)
        BY <2>1, <2>3, PromotedDoes
    <3>. QED
        BY <3>1, <3>2
  <2>4. \A h \in OfKind("package") \ run'.todo : h \in run.gone \/ disk'[h] # Absent
    <3>1. ASSUME NEW h \in OfKind("package"), h \notin run'.todo PROVE h \in run.gone \/ disk'[h] # Absent
      <4>1. CASE h = f
          BY <2>3, <4>1
      <4>2. CASE h # f
        <5>1. h \in run.gone \/ disk[h] # Absent
            BY <2>1, <3>1, <4>2 DEF PlacedInv
        <5>2. disk'[h] = disk[h]
            BY <2>1, <4>2, PromotedDoes, Kinds
        <5>. QED
            BY <5>1, <5>2
      <4>. QED
          BY <4>1, <4>2
    <3>. QED
        BY <3>1
  <2>5. ASSUME NEW h \in OfKind("signature") PROVE SignaturePlaced(h)'
    <3>1. SignaturePlaced(h) /\ h \in File /\ h # f
        BY <2>1, <2>2, Kinds DEF PlacedInv
    <3>. QED
        BY <2>1, <3>1, PromotedDoes DEF SignaturePlaced
  <2>. QED
      BY <2>1, <2>4, <2>5, KindStays DEF PlacedInv, Placed
<1>18. CASE SignaturesPromoted
  <2>1. /\ run.pc = "promote signatures" /\ run'.pc = "promote packages"
        /\ run.todo = {} /\ run'.todo = OfKind("package")
        /\ run'.gone = run.gone /\ run'.got = run.got /\ UNCHANGED <<disk, next, stray>>
      BY <1>18, SignaturesPromotedDoes
  <2>2. \A h \in OfKind("signature") : SignaturePlaced(h)'
      BY <2>1 DEF PlacedInv, SignaturePlaced
  <2>. QED
      BY <2>1, <2>2, KindStays DEF PlacedInv, Placed
<1>19. CASE PackagesPromoted
  <2>1. /\ run.pc = "promote packages" /\ run'.pc = "extras" /\ run.todo = {}
        /\ run'.gone = run.gone /\ run'.got = run.got /\ disk' = disk
      BY <1>19, PackagesPromotedDoes
  <2>2. ASSUME NEW h \in OfKind("package"), h \notin run.gone PROVE PackagePlaced(h)
    <3>1. h \in File /\ Signature(h) \in OfKind("signature") /\ Signature(h) \in File
          /\ Signature(h)[1] \in Listed(run.got)
        BY Kinds
    <3>2. disk[h] # Absent
        BY <2>1, <2>2 DEF PlacedInv
    <3>3. ASSUME conf.mode = "required" PROVE Signature(h) \notin run.gone
        BY <2>1, <2>2, <3>3 DEF VerifiedInv, Promoting, PairOK
    <3>4. ASSUME Signature(h) \notin run.gone PROVE disk[Signature(h)] # Absent
      <4>1. next[Signature(h)] = Absent
          BY <2>1, <3>1, <3>4 DEF PlacedInv, SignaturePlaced
      <4>2. FileStagedOrFinal(Signature(h)) # Absent
          BY <2>1, <3>1, <3>4 DEF GatheredInv, Promoting
      <4>. QED
          BY <4>1, <4>2 DEF FileStagedOrFinal
    <3>. QED
        BY <3>2, <3>3, <3>4 DEF PackagePlaced
  <2>3. ASSUME NEW h \in OfKind("package"), h \notin run.gone PROVE PackagePlaced(h)'
      BY <1>a, <2>1, <2>2, <2>3, PlaceStays, Kinds
  <2>. QED
      BY <2>1, <2>3, KindStays DEF PlacedInv, Placed
<1>20. ASSUME NEW e \in Extra, StageExtra(e) PROVE PlacedInv'
  <2>1. /\ run.pc \in {"extras", "promote extras", "publish db", "prune"}
        /\ run'.pc \in {"extras", "promote extras", "publish db", "prune"}
        /\ run'.gone = run.gone /\ run'.got = run.got /\ disk' = disk
      BY <1>20, StageExtraDoes
  <2>2. ASSUME NEW h \in OfKind("package"), h \notin run.gone PROVE PackagePlaced(h)'
    <3>1. PackagePlaced(h)
        BY <2>1, <2>2 DEF PlacedInv, Placed
    <3>. QED
        BY <1>a, <2>1, <3>1, PlaceStays, Kinds
  <2>. QED
      BY <2>1, <2>2, KindStays DEF PlacedInv, Placed
<1>21. ASSUME NEW e \in Extra, PromoteExtra(e) PROVE PlacedInv'
  <2>1. /\ run.pc \in {"extras", "promote extras", "publish db", "prune"}
        /\ run'.pc \in {"extras", "promote extras", "publish db", "prune"}
        /\ run'.gone = run.gone /\ run'.got = run.got /\ disk' = disk
      BY <1>21, PromoteExtraDoes
  <2>2. ASSUME NEW h \in OfKind("package"), h \notin run.gone PROVE PackagePlaced(h)'
    <3>1. PackagePlaced(h)
        BY <2>1, <2>2 DEF PlacedInv, Placed
    <3>. QED
        BY <1>a, <2>1, <3>1, PlaceStays, Kinds
  <2>. QED
      BY <2>1, <2>2, KindStays DEF PlacedInv, Placed
<1>22. CASE ExtrasStaged
  <2>1. /\ run.pc \in {"extras", "promote extras", "publish db", "prune"}
        /\ run'.pc \in {"extras", "promote extras", "publish db", "prune"}
        /\ run'.gone = run.gone /\ run'.got = run.got /\ disk' = disk
      BY <1>22, ExtrasStagedDoes
  <2>2. ASSUME NEW h \in OfKind("package"), h \notin run.gone PROVE PackagePlaced(h)'
    <3>1. PackagePlaced(h)
        BY <2>1, <2>2 DEF PlacedInv, Placed
    <3>. QED
        BY <1>a, <2>1, <3>1, PlaceStays, Kinds
  <2>. QED
      BY <2>1, <2>2, KindStays DEF PlacedInv, Placed
<1>23. CASE PublishSig
  <2>1. /\ run.pc \in {"extras", "promote extras", "publish db", "prune"}
        /\ run'.pc \in {"extras", "promote extras", "publish db", "prune"}
        /\ run'.gone = run.gone /\ run'.got = run.got /\ disk' = disk
      BY <1>23, PublishSigDoes
  <2>2. ASSUME NEW h \in OfKind("package"), h \notin run.gone PROVE PackagePlaced(h)'
    <3>1. PackagePlaced(h)
        BY <2>1, <2>2 DEF PlacedInv, Placed
    <3>. QED
        BY <1>a, <2>1, <3>1, PlaceStays, Kinds
  <2>. QED
      BY <2>1, <2>2, KindStays DEF PlacedInv, Placed
<1>24. CASE PublishDb
  <2>1. /\ run.pc \in {"extras", "promote extras", "publish db", "prune"}
        /\ run'.pc \in {"extras", "promote extras", "publish db", "prune"}
        /\ run'.gone = run.gone /\ run'.got = run.got /\ disk' = disk
      BY <1>24, PublishDbDoes
  <2>2. ASSUME NEW h \in OfKind("package"), h \notin run.gone PROVE PackagePlaced(h)'
    <3>1. PackagePlaced(h)
        BY <2>1, <2>2 DEF PlacedInv, Placed
    <3>. QED
        BY <1>a, <2>1, <3>1, PlaceStays, Kinds
  <2>. QED
      BY <2>1, <2>2, KindStays DEF PlacedInv, Placed
<1>25. ASSUME NEW f \in File, PruneFile(f) PROVE PlacedInv'
  <2>1. /\ run.pc = "prune" /\ run'.pc = "prune" /\ run'.gone = run.gone /\ run'.got = run.got
        /\ \A h \in File : h \in Kept => disk'[h] = disk[h]
      BY <1>25, PruneFileDoes
  <2>2. ASSUME NEW h \in OfKind("package"), h \notin run.gone PROVE PackagePlaced(h)'
    <3>1. PackagePlaced(h) /\ h \in File /\ h[1] \in Listed(run.got) /\ Signature(h) \in File
          /\ Signature(h)[1] \in Listed(run.got) /\ Signature(h)' = Signature(h)
        BY <1>a, <2>1, <2>2, Kinds DEF PlacedInv, Placed, Signature
    <3>2. disk'[h] = disk[h]
        BY <2>1, <2>2, <3>1 DEF Kept
    <3>3. Signature(h) \notin run.gone => disk'[Signature(h)] = disk[Signature(h)]
        BY <2>1, <3>1 DEF Kept
    <3>. QED
        BY <1>a, <2>1, <3>1, <3>2, <3>3 DEF PackagePlaced
  <2>. QED
      BY <2>1, <2>2, KindStays DEF PlacedInv, Placed
<1>26. CASE Rotate
  <2>1. UNCHANGED <<run, conf, disk, next, stray>>
      BY <1>26, RotateDoes
  <2>2. ASSUME NEW h \in OfKind("package"), PackagePlaced(h) PROVE PackagePlaced(h)'
      BY <1>a, <2>1, <2>2, PlaceStays, Kinds
  <2>3. \A h \in OfKind("signature") : SignaturePlaced(h)' <=> SignaturePlaced(h)
      BY <2>1 DEF SignaturePlaced
  <2>. QED
      BY <2>1, <2>2, <2>3, KindStays DEF PlacedInv, Placed
<1>27. CASE UNCHANGED vars
  <2>1. UNCHANGED <<run, conf, disk, next, stray>>
      BY <1>27 DEF vars, files, history
  <2>2. ASSUME NEW h \in OfKind("package"), PackagePlaced(h) PROVE PackagePlaced(h)'
      BY <1>a, <2>1, <2>2, PlaceStays, Kinds
  <2>3. \A h \in OfKind("signature") : SignaturePlaced(h)' <=> SignaturePlaced(h)
      BY <2>1 DEF SignaturePlaced
  <2>. QED
      BY <2>1, <2>2, <2>3, KindStays DEF PlacedInv, Placed
<1>28. ASSUME Stops PROVE PlacedInv'
    BY <1>28, StopsDoes DEF PlacedInv, Placed
<1>29. ASSUME NEW d \in Doc, PruneDoc(d) PROVE PlacedInv'
  <2>1. run.pc = "prune" /\ run' = run /\ UNCHANGED <<conf, disk, next, stray>>
      BY <1>29, PruneDocDoes
  <2>. QED
      BY <2>1 DEF PlacedInv, Placed, PackagePlaced, Signature, OfKind
<1>. QED
    BY <1>1, <1>2, <1>3, <1>4, <1>5, <1>6, <1>7, <1>8, <1>9, <1>10, <1>11, <1>12, <1>13,
       <1>14, <1>15, <1>16, <1>17, <1>18, <1>19, <1>20, <1>21, <1>22, <1>23, <1>24, <1>25,
       <1>26, <1>27, <1>28, <1>29, EndsDo DEF Next, Database, Packages, Publish


-----------------------------------------------------------------------------
(* Packages beside their signatures *)
LEMMA PairStep ==
    ASSUME TypeOK, TodoInv, VerifiedInv, PlacedInv, PairInv, [Next]_vars
    PROVE  PairInv'
<1>. DEFINE Goal == \A p \in Package \ (torn' \cup stray') :
                       disk'[<<p, "signature">>] # Absent /\ disk'[<<p, "package">>] # Absent
                         => disk'[<<p, "signature">>] = disk'[<<p, "package">>]
<1>a. SUFFICES ASSUME Checked PROVE Goal
    BY ConfStays DEF PairInv
<1>b. \A p \in Package \ (torn \cup stray) :
         disk[<<p, "signature">>] # Absent /\ disk[<<p, "package">>] # Absent
           => disk[<<p, "signature">>] = disk[<<p, "package">>]
    BY <1>a DEF PairInv
<1>c. "db" \notin Package
    BY ArchSyncAssumption
<1>1. CASE Begin
  <2>1. disk' = disk /\ torn' \cap Package = torn \cap Package /\ stray' = stray
      BY <1>1, <1>c, BeginDoes
  <2>. QED
      BY <1>b, <2>1
<1>2. CASE StageDb
  <2>1. disk' = disk /\ torn' \cap Package = torn \cap Package /\ stray' = stray
      BY <1>2, <1>c, StageDbDoes
  <2>. QED
      BY <1>b, <2>1
<1>3. CASE StageSig
  <2>1. disk' = disk /\ torn' \cap Package = torn \cap Package /\ stray' = stray
      BY <1>3, <1>c, StageSigDoes
  <2>. QED
      BY <1>b, <2>1
<1>4. CASE CheckSig
  <2>1. disk' = disk /\ torn' \cap Package = torn \cap Package /\ stray' = stray
      BY <1>4, <1>c, CheckSigDoes
  <2>. QED
      BY <1>b, <2>1
<1>5. CASE BeginRefetchDb
  <2>1. disk' = disk /\ torn' \cap Package = torn \cap Package /\ stray' = stray
      BY <1>5, <1>c, BeginRefetchDbDoes
  <2>. QED
      BY <1>b, <2>1
<1>6. ASSUME NEW d \in Doc, RefetchDb(d) PROVE Goal
  <2>1. disk' = disk /\ torn' \cap Package = torn \cap Package /\ stray' = stray
      BY <1>6, <1>c, RefetchDbDoes
  <2>. QED
      BY <1>b, <2>1
<1>7. ASSUME NEW f \in File, KeepFile(f) PROVE Goal
  <2>1. disk' = disk /\ torn' \cap Package = torn \cap Package /\ stray' = stray
      BY <1>7, <1>c, KeepFileDoes
  <2>. QED
      BY <1>b, <2>1
<1>8. ASSUME NEW f \in File, GetFile(f) PROVE Goal
  <2>1. UNCHANGED <<torn, stray>> /\ \A h \in File : disk'[h] = disk[h]
      BY <1>a, <1>8, GetFileDoes
  <2>. QED
      BY <1>b, <2>1, Files
<1>9. ASSUME NEW f \in File, MissFile(f) PROVE Goal
  <2>1. disk' = disk /\ torn' \cap Package = torn \cap Package /\ stray' = stray
      BY <1>9, <1>c, MissFileDoes
  <2>. QED
      BY <1>b, <2>1
<1>10. CASE PackagesDone
  <2>1. disk' = disk /\ torn' \cap Package = torn \cap Package /\ stray' = stray
      BY <1>10, <1>c, PackagesDoneDoes
  <2>. QED
      BY <1>b, <2>1
<1>11. ASSUME NEW f \in File, VerifyPair(f) PROVE Goal
  <2>1. disk' = disk /\ torn' \cap Package = torn \cap Package /\ stray' = stray
      BY <1>11, <1>c, VerifyPairDoes
  <2>. QED
      BY <1>b, <2>1
<1>12. ASSUME NEW f \in File, BeginRefetchPair(f) PROVE Goal
  <2>1. disk' = disk /\ torn' \cap Package = torn \cap Package /\ stray' = stray
      BY <1>12, <1>c, BeginRefetchPairDoes
  <2>. QED
      BY <1>b, <2>1
<1>13. ASSUME NEW f \in File, RefetchPackage(f) PROVE Goal
  <2>1. disk' = disk /\ torn' \cap Package = torn \cap Package /\ stray' = stray
      BY <1>13, <1>c, RefetchPackageDoes
  <2>. QED
      BY <1>b, <2>1
<1>14. ASSUME NEW f \in File, RefetchSignature(f) PROVE Goal
  <2>1. disk' = disk /\ torn' \cap Package = torn \cap Package /\ stray' = stray
      BY <1>14, <1>c, RefetchSignatureDoes
  <2>. QED
      BY <1>b, <2>1
<1>15. CASE Verified
  <2>1. UNCHANGED <<disk, torn, stray>>
      BY <1>15, VerifiedDoes, StopsDoes
  <2>. QED
      BY <1>b, <2>1
<1>16. ASSUME NEW f \in File, PromoteSignature(f) PROVE Goal
  <2>1. /\ torn' = torn \cup {f[1]} /\ stray' \ {f[1]} = stray \ {f[1]}
        /\ \A h \in File : h # f => disk'[h] = disk[h]
      BY <1>16, PromoteSignatureDoes, PromotedDoes
  <2>2. \A p \in Package \ (torn' \cup stray') :
           <<p, "signature">> # f /\ <<p, "package">> # f /\ p \notin torn \cup stray
      BY <2>1
  <2>. QED
      BY <1>b, <2>1, <2>2, Files
<1>17. ASSUME NEW f \in File, PromotePackage(f) PROVE Goal
  <2>1. /\ run.pc = "promote packages" /\ Promoted(f) /\ f \in run.todo
        /\ torn' = (IF f \in run.gone THEN torn ELSE torn \ {f[1]}) /\ stray' = stray
        /\ f \in run.gone => disk' = disk
      BY <1>17, PromotePackageDoes
  <2>2. /\ f \in OfKind("package") /\ f[2] = "package" /\ f = <<f[1], "package">>
        /\ Signature(f) \in OfKind("signature") /\ Signature(f) = <<f[1], "signature">>
        /\ Signature(f) \in File /\ Signature(f) # f
      BY <2>1, Kinds, Files DEF TodoInv
  <2>3. \A h \in File : h # f => disk'[h] = disk[h]
      BY <2>1, PromotedDoes
  <2>4. CASE f \in run.gone
    <3>1. UNCHANGED <<torn, stray>> /\ \A h \in File : disk'[h] = disk[h]
        BY <2>1, <2>4
    <3>. QED
        BY <1>b, <3>1, Files
  <2>5. CASE f \notin run.gone
    <3>1. disk'[f] = FileStagedOrFinal(f) /\ PairOK(f) /\ SignaturePlaced(Signature(f))
        BY <2>1, <2>2, <2>5, PromotedDoes DEF VerifiedInv, Promoting, PlacedInv
    <3>2. disk'[Signature(f)] = disk[Signature(f)]
        BY <2>2, <2>3
    <3>3. f[1] \in stray \/ disk[Signature(f)] = Absent \/ disk[Signature(f)] = disk'[f]
        BY <2>2, <3>1, Files DEF SignaturePlaced, PairOK, FileStagedOrFinal
    <3>4. ASSUME NEW p \in Package \ (torn' \cup stray'), disk'[<<p, "signature">>] # Absent,
                 disk'[<<p, "package">>] # Absent
          PROVE  disk'[<<p, "signature">>] = disk'[<<p, "package">>]
      <4>1. CASE p = f[1]
          BY <2>1, <2>2, <3>2, <3>3, <3>4, <4>1
      <4>2. CASE p # f[1]
        <5>1. p \notin torn \cup stray /\ <<p, "signature">> # f /\ <<p, "package">> # f
              /\ <<p, "signature">> \in File /\ <<p, "package">> \in File
            BY <2>1, <2>2, <2>5, <3>4, <4>2, Files
        <5>. QED
            BY <1>b, <2>3, <3>4, <5>1
      <4>. QED
          BY <4>1, <4>2
    <3>. QED
        BY <3>4
  <2>. QED
      BY <2>4, <2>5
<1>18. CASE SignaturesPromoted
  <2>1. disk' = disk /\ torn' \cap Package = torn \cap Package /\ stray' = stray
      BY <1>18, <1>c, SignaturesPromotedDoes
  <2>. QED
      BY <1>b, <2>1
<1>19. CASE PackagesPromoted
  <2>1. disk' = disk /\ torn' \cap Package = torn \cap Package /\ stray' = stray
      BY <1>19, <1>c, PackagesPromotedDoes
  <2>. QED
      BY <1>b, <2>1
<1>20. ASSUME NEW e \in Extra, StageExtra(e) PROVE Goal
  <2>1. disk' = disk /\ torn' \cap Package = torn \cap Package /\ stray' = stray
      BY <1>20, <1>c, StageExtraDoes
  <2>. QED
      BY <1>b, <2>1
<1>21. ASSUME NEW e \in Extra, PromoteExtra(e) PROVE Goal
  <2>1. disk' = disk /\ torn' \cap Package = torn \cap Package /\ stray' = stray
      BY <1>21, <1>c, PromoteExtraDoes
  <2>. QED
      BY <1>b, <2>1
<1>22. CASE ExtrasStaged
  <2>1. disk' = disk /\ torn' \cap Package = torn \cap Package /\ stray' = stray
      BY <1>22, <1>c, ExtrasStagedDoes
  <2>. QED
      BY <1>b, <2>1
<1>23. CASE PublishSig
  <2>1. disk' = disk /\ torn' \cap Package = torn \cap Package /\ stray' = stray
      BY <1>23, <1>c, PublishSigDoes
  <2>. QED
      BY <1>b, <2>1
<1>24. CASE PublishDb
  <2>1. disk' = disk /\ torn' \cap Package = torn \cap Package /\ stray' = stray
      BY <1>24, <1>c, PublishDbDoes
  <2>. QED
      BY <1>b, <2>1
<1>25. ASSUME NEW f \in File, PruneFile(f) PROVE Goal
  <2>1. UNCHANGED <<torn, stray>> /\ \A h \in File : disk'[h] \in {disk[h], Absent}
      BY <1>25, PruneFileDoes
  <2>. QED
      BY <1>b, <2>1, Files
<1>26. CASE Rotate
  <2>1. UNCHANGED <<disk, torn, stray>>
      BY <1>26, RotateDoes
  <2>. QED
      BY <1>b, <2>1
<1>27. CASE UNCHANGED vars
  <2>1. UNCHANGED <<disk, torn, stray>>
      BY <1>27 DEF vars, files, history
  <2>. QED
      BY <1>b, <2>1
<1>28. ASSUME Stops PROVE Goal
  <2>1. UNCHANGED <<disk, torn, stray>>
      BY <1>28, StopsDoes
  <2>. QED
      BY <1>b, <2>1
<1>29. ASSUME NEW d \in Doc, PruneDoc(d) PROVE Goal
  <2>1. UNCHANGED <<disk, torn, stray>>
      BY <1>29, PruneDocDoes
  <2>. QED
      BY <1>b, <2>1
<1>. QED
    BY <1>1, <1>2, <1>3, <1>4, <1>5, <1>6, <1>7, <1>8, <1>9, <1>10, <1>11, <1>12, <1>13,
       <1>14, <1>15, <1>16, <1>17, <1>18, <1>19, <1>20, <1>21, <1>22, <1>23, <1>24, <1>25,
       <1>26, <1>27, <1>28, <1>29, EndsDo DEF Next, Database, Packages, Publish

-----------------------------------------------------------------------------
(* What the live database promises *)
LEMMA LiveStep ==
    ASSUME TypeOK, DocInv, ContentInv, TodoInv, GatheredInv, VerifiedInv, PlacedInv, LiveInv, [Next]_vars
    PROVE  LiveInv'
<1>. DEFINE Here(p) == /\ disk[<<p, "package">>] # Absent /\ <<p, "package">> \notin run.gone
                       /\ conf.mode = "required" => disk[<<p, "signature">>] # Absent
            There(p) == /\ disk'[<<p, "package">>] # Absent /\ <<p, "package">> \notin run'.gone
                        /\ conf.mode = "required" => disk'[<<p, "signature">>] # Absent
            Same == live'["db"] = live["db"] /\ accepted' = accepted
<1>a. SUFFICES ASSUME NEW p \in Package, p \in Listed(live["db"])' \ accepted', Settled(p) PROVE There(p)
  <2>1. conf' = conf /\ Listed(live["db"])' \subseteq Package
      BY ConfStays DEF Listed
  <2>2. \A p \in Listed(live["db"])' \ accepted' : Settled(p) => There(p)
      BY <2>1, <1>a
  <2>. QED
      BY <2>1, <2>2 DEF LiveInv, Settled
<1>b. Same => Here(p)
    BY <1>a DEF LiveInv, Listed
<1>c. <<p, "package">> \in File /\ <<p, "signature">> \in File
    BY Files
<1>1. CASE Begin
  <2>1. Same /\ disk' = disk /\ run'.gone = run.gone
      BY <1>1, BeginDoes
  <2>. QED
      BY <1>b, <2>1
<1>2. CASE StageDb
  <2>1. Same /\ disk' = disk /\ run'.gone = run.gone
      BY <1>2, StageDbDoes
  <2>. QED
      BY <1>b, <2>1
<1>3. CASE StageSig
  <2>1. Same /\ disk' = disk /\ run'.gone = run.gone
      BY <1>3, StageSigDoes
  <2>. QED
      BY <1>b, <2>1
<1>4. CASE CheckSig
  <2>1. Same /\ disk' = disk /\ run'.gone = run.gone
      BY <1>4, CheckSigDoes
  <2>. QED
      BY <1>b, <2>1
<1>5. CASE BeginRefetchDb
  <2>1. Same /\ disk' = disk /\ run'.gone = run.gone
      BY <1>5, BeginRefetchDbDoes
  <2>. QED
      BY <1>b, <2>1
<1>6. ASSUME NEW d \in Doc, RefetchDb(d) PROVE There(p)
  <2>1. Same /\ disk' = disk /\ run'.gone = run.gone
      BY <1>6, RefetchDbDoes
  <2>. QED
      BY <1>b, <2>1
<1>7. ASSUME NEW f \in File, KeepFile(f) PROVE There(p)
  <2>1. Same /\ disk' = disk /\ run'.gone = run.gone
      BY <1>7, KeepFileDoes
  <2>. QED
      BY <1>b, <2>1
<1>8. ASSUME NEW f \in File, GetFile(f) PROVE There(p)
  <2>1. Same /\ run'.gone = run.gone /\ \A h \in File : disk[h] # Absent => disk'[h] # Absent
      BY <1>8, GetFileDoes
  <2>. QED
      BY <1>b, <1>c, <2>1
<1>9. ASSUME NEW f \in File, MissFile(f) PROVE There(p)
  <2>1. /\ Same /\ disk' = disk /\ run'.gone = run.gone \cup {f}
        /\ run.pc = "packages" /\ f \in run.todo /\ (f[2] = "package" => disk[f] # Wanted(f))
      BY <1>9, MissFileDoes
  <2>2. ASSUME f = <<p, "package">> PROVE FALSE
    <3>1. disk[f] # Want[run.got][p] /\ disk[f] # Absent
        BY <1>b, <2>1, <2>2 DEF Wanted
    <3>2. p \in Listed(run.got)
        BY <2>1, <2>2 DEF TodoInv
    <3>3. run.got \in Gen /\ Want[run.got][p] # Absent
        BY <3>2 DEF Listed, TypeOK, RunState
    <3>4. ContentOf(p, disk[f])
        BY <2>2 DEF ContentInv
    <3>5. PICK g \in Gen : disk[f] = Want[g][p]
        BY <3>1, <3>4 DEF ContentOf
    <3>. QED
        BY <1>a, <3>1, <3>3, <3>5 DEF Settled
  <2>. QED
      BY <1>b, <2>1, <2>2
<1>10. CASE PackagesDone
  <2>1. Same /\ disk' = disk /\ run'.gone = run.gone
      BY <1>10, PackagesDoneDoes
  <2>. QED
      BY <1>b, <2>1
<1>11. ASSUME NEW f \in File, VerifyPair(f) PROVE There(p)
  <2>1. Same /\ disk' = disk /\ run'.gone = run.gone
      BY <1>11, VerifyPairDoes
  <2>. QED
      BY <1>b, <2>1
<1>12. ASSUME NEW f \in File, BeginRefetchPair(f) PROVE There(p)
  <2>1. Same /\ disk' = disk /\ run'.gone = run.gone
      BY <1>12, BeginRefetchPairDoes
  <2>. QED
      BY <1>b, <2>1
<1>13. ASSUME NEW f \in File, RefetchPackage(f) PROVE There(p)
  <2>1. Same /\ disk' = disk /\ run'.gone = run.gone
      BY <1>13, RefetchPackageDoes
  <2>. QED
      BY <1>b, <2>1
<1>14. ASSUME NEW f \in File, RefetchSignature(f) PROVE There(p)
  <2>1. Same /\ disk' = disk /\ run'.gone = run.gone
      BY <1>14, RefetchSignatureDoes
  <2>. QED
      BY <1>b, <2>1
<1>15. CASE Verified
  <2>1. Same /\ disk' = disk /\ run'.gone \subseteq run.gone
      BY <1>15, VerifiedDoes, StopsDoes
  <2>. QED
      BY <1>b, <2>1
<1>16. ASSUME NEW f \in File, PromoteSignature(f) PROVE There(p)
  <2>1. /\ run.pc = "promote signatures" /\ Promoted(f) /\ f \in run.todo
        /\ Same /\ run'.gone = run.gone
      BY <1>16, PromoteSignatureDoes
  <2>2. Here(p) /\ f \in OfKind("signature") /\ f[2] = "signature" /\ f[1] \in Listed(run.got)
      BY <1>b, <2>1, Kinds DEF TodoInv
  <2>3. \A h \in File : h # f => disk'[h] = disk[h]
      BY <2>1, PromotedDoes
  <2>4. ASSUME conf.mode = "required" PROVE disk'[<<p, "signature">>] # Absent
    <3>1. CASE f # <<p, "signature">>
        BY <1>c, <2>2, <2>3, <2>4, <3>1
    <3>2. CASE f = <<p, "signature">>
      <4>1. <<p, "package">> \in OfKind("package") /\ Signature(<<p, "package">>) = f
          BY <1>c, <2>2, <3>2 DEF OfKind, Signature
      <4>2. PairOK(<<p, "package">>)
          BY <2>1, <2>2, <4>1 DEF VerifiedInv, Promoting
      <4>3. f \notin run.gone
          BY <2>4, <4>1, <4>2 DEF PairOK
      <4>4. disk'[f] = FileStagedOrFinal(f)
          BY <2>1, <4>3, PromotedDoes
      <4>. QED
          BY <2>1, <2>2, <3>2, <4>3, <4>4 DEF GatheredInv, Promoting
    <3>. QED
        BY <3>1, <3>2
  <2>5. disk'[<<p, "package">>] = disk[<<p, "package">>]
    <3>1. <<p, "package">> # f
        BY <2>2
    <3>. QED
        BY <1>c, <2>3, <3>1
  <2>. QED
      BY <2>1, <2>2, <2>4, <2>5
<1>17. ASSUME NEW f \in File, PromotePackage(f) PROVE There(p)
  <2>1. /\ run.pc = "promote packages" /\ Promoted(f) /\ f \in run.todo
        /\ Same /\ run'.gone = run.gone /\ (f \in run.gone => disk' = disk)
      BY <1>17, PromotePackageDoes
  <2>2. f[2] = "package" /\ f[1] \in Listed(run.got)
      BY <2>1, Kinds DEF TodoInv
  <2>3. \A h \in File : h # f => disk'[h] = disk[h]
      BY <2>1, PromotedDoes
  <2>4. disk[f] # Absent => disk'[f] # Absent
      BY <2>1, <2>2, PromotedDoes DEF GatheredInv, Promoting
  <2>. QED
      BY <1>b, <1>c, <2>1, <2>3, <2>4
<1>18. CASE SignaturesPromoted
  <2>1. Same /\ disk' = disk /\ run'.gone = run.gone
      BY <1>18, SignaturesPromotedDoes
  <2>. QED
      BY <1>b, <2>1
<1>19. CASE PackagesPromoted
  <2>1. Same /\ disk' = disk /\ run'.gone = run.gone
      BY <1>19, PackagesPromotedDoes
  <2>. QED
      BY <1>b, <2>1
<1>20. ASSUME NEW e \in Extra, StageExtra(e) PROVE There(p)
  <2>1. Same /\ disk' = disk /\ run'.gone = run.gone
      BY <1>20, StageExtraDoes
  <2>. QED
      BY <1>b, <2>1
<1>21. ASSUME NEW e \in Extra, PromoteExtra(e) PROVE There(p)
  <2>1. Promote(e) /\ accepted' = accepted /\ disk' = disk /\ run'.gone = run.gone
      BY <1>21, PromoteExtraDoes
  <2>2. e \in Doc /\ "db" \in Doc \ {e}
      BY Documents
  <2>3. live'["db"] = live["db"]
      BY <2>1, <2>2, PromoteDoes
  <2>. QED
      BY <1>b, <2>1, <2>3
<1>22. CASE ExtrasStaged
  <2>1. Same /\ disk' = disk /\ run'.gone = run.gone
      BY <1>22, ExtrasStagedDoes
  <2>. QED
      BY <1>b, <2>1
<1>23. CASE PublishSig
  <2>1. Promote("sig") /\ accepted' = accepted /\ disk' = disk /\ run'.gone = run.gone
      BY <1>23, PublishSigDoes
  <2>2. "sig" \in Doc /\ "db" \in Doc \ {"sig"}
      BY Documents
  <2>3. live'["db"] = live["db"]
      BY <2>1, <2>2, PromoteDoes
  <2>. QED
      BY <1>b, <2>1, <2>3
<1>24. CASE PublishDb
  <2>1. /\ run.pc = "publish db" /\ Promote("db") /\ accepted' = Missed
        /\ run'.gone = run.gone /\ disk' = disk
      BY <1>24, PublishDbDoes
  <2>2. live'["db"] = run.got
      BY <2>1, PromoteDoes, Documents DEF DocInv, Chosen
  <2>3. p \in Listed(run.got) /\ p \notin Missed
      BY <1>a, <2>1, <2>2 DEF Listed
  <2>4. <<p, "package">> \in OfKind("package")
      BY <1>c, <2>3 DEF OfKind
  <2>5. <<p, "package">> \notin run.gone
    <3>1. <<p, "package">>[1] = p /\ <<p, "package">>[2] = "package"
        OBVIOUS
    <3>. QED
        BY <2>3, <3>1 DEF Missed
  <2>6. PackagePlaced(<<p, "package">>)
      BY <2>1, <2>4, <2>5 DEF PlacedInv, Placed
  <2>. QED
      BY <2>1, <2>5, <2>6 DEF PackagePlaced, Signature
<1>25. ASSUME NEW f \in File, PruneFile(f) PROVE There(p)
  <2>1. /\ run.pc = "prune" /\ Same /\ run'.gone = run.gone
        /\ \A h \in File : h \in Kept => disk'[h] = disk[h]
      BY <1>25, PruneFileDoes
  <2>2. Here(p) /\ p \in Listed(run.got)
      BY <1>a, <1>b, <2>1 DEF DocInv, Listed
  <2>3. PackagePlaced(<<p, "package">>)
      BY <1>c, <2>1, <2>2 DEF PlacedInv, Placed, OfKind
  <2>4. <<p, "package">> \in Kept
      BY <1>c, <2>2 DEF Kept
  <2>5. conf.mode = "required" => <<p, "signature">> \in Kept
      BY <1>c, <2>2, <2>3 DEF Kept, PackagePlaced, Signature
  <2>. QED
      BY <1>c, <2>1, <2>2, <2>4, <2>5
<1>26. CASE Rotate
  <2>1. Same /\ UNCHANGED <<disk, run>>
      BY <1>26, RotateDoes
  <2>. QED
      BY <1>b, <2>1
<1>27. CASE UNCHANGED vars
  <2>1. Same /\ UNCHANGED <<disk, run>>
      BY <1>27 DEF vars, docs, files, history
  <2>. QED
      BY <1>b, <2>1
<1>28. ASSUME Stops PROVE There(p)
  <2>1. Same /\ disk' = disk /\ run'.gone = {}
      BY <1>28, StopsDoes
  <2>. QED
      BY <1>b, <2>1
<1>29. ASSUME NEW d \in Doc, PruneDoc(d) PROVE There(p)
  <2>1. /\ run' = run /\ UNCHANGED <<conf, disk, accepted>> /\ d \in run.lacks
        /\ \A e \in Doc : e # d => live'[e] = live[e]
      BY <1>29, PruneDocDoes
  <2>2. live'["db"] = live["db"]
      BY <1>a, <2>1, Documents DEF DocInv
  <2>. QED
      BY <1>b, <2>1, <2>2
<1>. QED
    BY <1>1, <1>2, <1>3, <1>4, <1>5, <1>6, <1>7, <1>8, <1>9, <1>10, <1>11, <1>12, <1>13,
       <1>14, <1>15, <1>16, <1>17, <1>18, <1>19, <1>20, <1>21, <1>22, <1>23, <1>24, <1>25,
       <1>26, <1>27, <1>28, <1>29, EndsDo DEF Next, Database, Packages, Publish


-----------------------------------------------------------------------------
(* The theorems *)
LEMMA ArchInvInit == Init => ArchInv
<1>. SUFFICES ASSUME Init PROVE ArchInv
    OBVIOUS
<1>1. TypeOK
    BY TypeOKInit
<1>2. /\ run.pc = "idle" /\ run.lacks = {} /\ run.gone = {} /\ run.todo = {} /\ up = 1
      /\ \A d \in Doc : live[d] = Absent /\ staged[d] = Absent /\ StagedOrFinal(d) = Absent
      /\ \A f \in File : disk[f] = Absent /\ next[f] = Absent
    BY DEF Init, Idle, StagedOrFinal
<1>3. ~Chosen /\ ~Verifying /\ ~Promoting /\ ~Placed
    BY <1>2 DEF Chosen, Verifying, Promoting, Placed
<1>4. live["db"] = Absent /\ live["sig"] = Absent
    BY <1>2, Documents
<1>5. WhereInv
    BY <1>2, <1>3 DEF WhereInv
<1>6. DocInv
    BY <1>2, <1>3 DEF DocInv, Absent
<1>7. SigInv
    BY <1>2, <1>3, <1>4 DEF SigInv
<1>8. CompanionInv
    BY <1>2, <1>3 DEF CompanionInv, Current
<1>9. ContentInv
    BY <1>2 DEF ContentInv, ContentOf
<1>10. TodoInv
    BY <1>2, <1>3 DEF TodoInv
<1>11. GatheredInv /\ VerifiedInv /\ PlacedInv
    BY <1>2, <1>3 DEF GatheredInv, VerifiedInv, PlacedInv
<1>12. PairInv
    BY <1>2, Files DEF PairInv
<1>13. LiveInv
    BY <1>4 DEF LiveInv, Listed
<1>. QED
    BY <1>1, <1>5, <1>6, <1>7, <1>8, <1>9, <1>10, <1>11, <1>12, <1>13 DEF ArchInv

LEMMA ArchInvStep == ArchInv /\ [Next]_vars => ArchInv'
BY TypeOKStep, WhereStep, DocStep, SigStep, CompanionStep, ContentStep, TodoStep, GatheredStep,
   VerifiedStep, PlacedStep, PairStep, LiveStep DEF ArchInv

LEMMA ArchSyncInvariant == Spec => []ArchInv
BY ArchInvInit, ArchInvStep, PTL DEF Spec

(* The fields of the documents, of the files and of a run keep their types   *)
(* (mirror/arch.go syncArch, apk.go syncApk).                                *)
THEOREM ArchSyncTypes == Spec => []TypeOK
<1>1. ArchInv => TypeOK
    BY DEF ArchInv
<1>. QED
    BY <1>1, ArchSyncInvariant, PTL

\* What is there of a package some generation lists, when they agree on its
\* content, is what any of them lists.
LEMMA SettledContent ==
    ASSUME ContentInv, NEW f \in File, NEW g \in Gen, f[1] \in Listed(g), Settled(f[1]), disk[f] # Absent
    PROVE  disk[f] = Want[g][f[1]]
<1>1. ContentOf(f[1], disk[f])
    BY DEF ContentInv
<1>2. PICK h \in Gen : disk[f] = Want[h][f[1]]
    BY <1>1 DEF ContentOf
<1>3. Want[g][f[1]] # Absent
    BY DEF Listed
<1>. QED
    BY <1>2, <1>3 DEF Settled

(* What the live database lists is in place, but for the packages its run    *)
(* missed, and in required mode with its signature, while later runs         *)
(* download, verify, promote, prune, fail and die (arch.go syncArch,         *)
(* "Promote the database last so the published metadata chain is complete"). *)
THEOREM ArchSyncStaysComplete == Spec => []LiveComplete
<1>1. ASSUME ArchInv PROVE LiveComplete
  <2>. SUFFICES ASSUME NEW p \in Listed(live["db"]) \ accepted, Settled(p)
                PROVE  /\ disk[<<p, "package">>] = Want[live["db"]][p]
                       /\ conf.mode = "required" => disk[<<p, "signature">>] = Want[live["db"]][p]
      BY DEF LiveComplete
  <2>1. /\ disk[<<p, "package">>] # Absent
        /\ conf.mode = "required" => disk[<<p, "signature">>] # Absent
      BY <1>1 DEF ArchInv, LiveInv
  <2>2. live["db"] \in Gen /\ p \in Package
      BY <1>1, Documents, DocTypes DEF ArchInv, Listed
  <2>3. /\ <<p, "package">> \in File /\ <<p, "package">>[1] = p
        /\ <<p, "signature">> \in File /\ <<p, "signature">>[1] = p
      BY <2>2, Files
  <2>4. disk[<<p, "package">>] = Want[live["db"]][p]
      BY <1>1, <2>1, <2>2, <2>3, SettledContent DEF ArchInv
  <2>5. conf.mode = "required" => disk[<<p, "signature">>] = Want[live["db"]][p]
      BY <1>1, <2>1, <2>2, <2>3, SettledContent DEF ArchInv
  <2>. QED
      BY <2>4, <2>5
<1>. QED
    BY <1>1, ArchSyncInvariant, PTL

(* With signature checks on, no signature stands beside another package than *)
(* the one it signs, but for a pair a run ended in the middle of, whose      *)
(* package was missed, or whose signature upstream lacks and could not be    *)
(* removed; and the live database's is its own and trusted, unless a run     *)
(* ended before the database or failed to remove the signature (arch.go      *)
(* "Signed modes stage both members so no unverified package becomes         *)
(* visible").                                                                *)
THEOREM ArchSyncPairsMatch == Spec => []PairsMatch
<1>1. ASSUME ArchInv PROVE PairsMatch
  <2>. SUFFICES ASSUME Checked
                PROVE  /\ \A p \in Package \ (torn \cup stray) :
                             disk[<<p, "signature">>] # Absent /\ disk[<<p, "package">>] # Absent
                               => disk[<<p, "signature">>] = disk[<<p, "package">>]
                       /\ "db" \notin torn /\ "sig" \notin stuck =>
                             live["sig"] \in {Absent, live["db"]} \cap ({Absent} \cup Trusted)
      BY DEF PairsMatch
  <2>1. PairInv /\ SigInv
      BY <1>1 DEF ArchInv
  <2>. QED
      BY <2>1 DEF PairInv, SigInv
<1>. QED
    BY <1>1, ArchSyncInvariant, PTL

LEMMA OnlyThenPruned ==
    ASSUME TypeOK, [Next]_vars, run.pc = "publish db", run'.pc = "prune"
    PROVE  PublishDb
<1>1. CASE Begin
    BY <1>1, BeginDoes
<1>2. CASE StageDb
    BY <1>2, StageDbDoes DEF Chooses
<1>3. CASE StageSig
    BY <1>3, StageSigDoes DEF Chooses
<1>4. CASE CheckSig
    BY <1>4, CheckSigDoes DEF Chooses
<1>5. CASE BeginRefetchDb
    BY <1>5, BeginRefetchDbDoes
<1>6. ASSUME NEW d \in Doc, RefetchDb(d) PROVE PublishDb
    BY <1>6, RefetchDbDoes
<1>7. ASSUME NEW f \in File, KeepFile(f) PROVE PublishDb
    BY <1>7, KeepFileDoes
<1>8. ASSUME NEW f \in File, GetFile(f) PROVE PublishDb
    BY <1>8, GetFileDoes
<1>9. ASSUME NEW f \in File, MissFile(f) PROVE PublishDb
    BY <1>9, MissFileDoes
<1>10. CASE PackagesDone
    BY <1>10, PackagesDoneDoes
<1>11. ASSUME NEW f \in File, VerifyPair(f) PROVE PublishDb
    BY <1>11, VerifyPairDoes
<1>12. ASSUME NEW f \in File, BeginRefetchPair(f) PROVE PublishDb
    BY <1>12, BeginRefetchPairDoes
<1>13. ASSUME NEW f \in File, RefetchPackage(f) PROVE PublishDb
    BY <1>13, RefetchPackageDoes
<1>14. ASSUME NEW f \in File, RefetchSignature(f) PROVE PublishDb
    BY <1>14, RefetchSignatureDoes
<1>15. CASE Verified
    BY <1>15, VerifiedDoes, StopsDoes
<1>16. ASSUME NEW f \in File, PromoteSignature(f) PROVE PublishDb
    BY <1>16, PromoteSignatureDoes
<1>17. ASSUME NEW f \in File, PromotePackage(f) PROVE PublishDb
    BY <1>17, PromotePackageDoes
<1>18. CASE SignaturesPromoted
    BY <1>18, SignaturesPromotedDoes
<1>19. CASE PackagesPromoted
    BY <1>19, PackagesPromotedDoes
<1>20. ASSUME NEW e \in Extra, StageExtra(e) PROVE PublishDb
    BY <1>20, StageExtraDoes
<1>21. ASSUME NEW e \in Extra, PromoteExtra(e) PROVE PublishDb
    BY <1>21, PromoteExtraDoes
<1>22. CASE ExtrasStaged
    BY <1>22, ExtrasStagedDoes
<1>23. CASE PublishSig
    BY <1>23, PublishSigDoes
<1>24. CASE PublishDb
    BY <1>24
<1>25. ASSUME NEW f \in File, PruneFile(f) PROVE PublishDb
    BY <1>25, PruneFileDoes
<1>26. CASE Rotate
    BY <1>26, RotateDoes
<1>27. CASE UNCHANGED vars
    BY <1>27 DEF vars
<1>28. ASSUME Stops PROVE PublishDb
    BY <1>28, StopsDoes
<1>29. ASSUME NEW d \in Doc, PruneDoc(d) PROVE PublishDb
    BY <1>29, PruneDocDoes
<1>. QED
    BY <1>1, <1>2, <1>3, <1>4, <1>5, <1>6, <1>7, <1>8, <1>9, <1>10, <1>11, <1>12, <1>13,
       <1>14, <1>15, <1>16, <1>17, <1>18, <1>19, <1>20, <1>21, <1>22, <1>23, <1>24, <1>25,
       <1>26, <1>27, <1>28, <1>29, EndsDo DEF Next, Database, Packages, Publish

(* A companion file or a signature that is there when the database goes live *)
(* is no older than the database, but for one that could not be removed      *)
(* (arch.go "drop the local copy so a stale companion or signature is never  *)
(* served").                                                                 *)
THEOREM ArchSyncCompanions == Spec => NoStaleCompanion
<1>1. ASSUME ArchInv, [Next]_vars, run.pc = "publish db", run'.pc = "prune"
      PROVE  \A e \in (Extra \cup {"sig"}) \ stuck : live[e] = Absent \/ live[e] >= live'["db"]
  <2>1. PublishDb /\ TypeOK
      BY <1>1, OnlyThenPruned DEF ArchInv
  <2>2. live'["db"] = run.got
      BY <1>1, <2>1, PublishDbDoes, PromoteDoes, Documents DEF ArchInv, DocInv, Chosen
  <2>3. conf.format \in {"arch", "apk"}
      BY <2>1, ArchSyncAssumption DEF TypeOK
  <2>4. \A e \in Doc \ {"db"} : live[e] = Absent \/ e \in stuck \/ live[e] >= run.got
      BY <1>1, <2>3 DEF ArchInv, CompanionInv, Current
  <2>. QED
      BY <2>2, <2>4, Documents
<1>2. ArchInv /\ [Next]_vars =>
        [run.pc = "publish db" /\ run'.pc = "prune" =>
         \A e \in (Extra \cup {"sig"}) \ stuck : live[e] = Absent \/ live[e] >= live'["db"]]_vars
    BY <1>1
<1>. QED
    BY <1>2, ArchSyncInvariant, PTL DEF Spec, NoStaleCompanion
=============================================================================
