---------------------------- MODULE DebSyncProofs ----------------------------
(***************************************************************************)
(* Proofs about DebSync for every upstream, every set of index variants and*)
(* pool files and every choice of options: the release that clients follow *)
(* is complete, signed, and never an older one.  All of it rests on what a *)
(* run has settled at each step of its way, from the release documents to  *)
(* the indexes, the pool files and the by-hash names, while the live tree  *)
(* stays as an earlier run left it.                                        *)
(***************************************************************************)
EXTENDS DebSync, FiniteSetTheorems, TLAPS

\* A run has chosen the generation it mirrors, and has not published all of it.
Chosen == run.pc \in {"indexes", "pool", "promote"} \/ Publishing

\* Everything the run wants is fetched, or was missed.
Gathered == run.pc \in {"promote", "prune"} \/ Publishing

\* The run has asked upstream for d.
Past(d) ==
    \/ run.pc \in {"check InRelease", "check Release.gpg", "again Release",
                   "again Release.gpg", "select"}
    \/ Chosen
    \/ run.pc = "Release" /\ d = "InRelease"
    \/ run.pc = "Release.gpg" /\ d # "Release.gpg"

\* The release documents: what is staged is no older than what is live, a
\* document upstream did not lack is there, and the Release that may replace
\* the live InRelease is no older than that.
DocInv ==
    /\ \A d \in Doc : live[d] <= up /\ staged[d] <= up
    /\ \A d \in Doc : staged[d] # Absent => live[d] <= staged[d]
    /\ \A d \in Doc : Past(d) /\ d \notin run.lacks => StagedOrFinal(d) # Absent
    /\ Past("Release") /\ "Release" \notin run.lacks => live["InRelease"] <= StagedOrFinal("Release")

\* The generation a run mirrors is that of its data document, and is the one
\* clients follow once it is published.
GotInv ==
    /\ Chosen => DataDoc \notin run.lacks /\ run.got = StagedOrFinal(DataDoc) /\ run.got # Absent
    /\ run.pc = "publish InRelease" =>
          IF "InRelease" \in run.lacks THEN ~ahead /\ live["Release"] = run.got
          ELSE ahead = (live["Release"] # run.got)
    /\ run.pc = "prune" =>
          /\ run.got # Absent /\ accepted[run.got] = Lacking
          /\ "InRelease" \in stuck \/ Main = run.got
          /\ DataDoc \notin run.lacks /\ live[DataDoc] = run.got
          /\ "InRelease" \in run.lacks => ~ahead /\ live["InRelease"] <= run.got

\* The pair of Release and its signature that the run is going to publish.
PairChecked ==
    "Release.gpg" \in run.lacks \/
        /\ "Release" \notin run.lacks
        /\ StagedOrFinal("Release.gpg") = StagedOrFinal("Release")
        /\ StagedOrFinal("Release") \in Trusted

\* The run is past the check of InRelease, and past that of the pair.
InReleasePast ==
    Chosen \/ run.pc \in {"check Release.gpg", "again Release", "again Release.gpg", "select"}
PairPast == run.pc \in {"select", "indexes", "pool", "promote", "publish Release.gpg"}

\* The signatures: what a run has verified is what it is going to publish.
SigInv ==
    /\ conf.mode # "off" =>
        /\ InReleasePast => "InRelease" \in run.lacks \/ StagedOrFinal("InRelease") \in Trusted
        /\ PairPast => PairChecked
        /\ Halfway => live["Release.gpg"] = Absent \/ "Release.gpg" \in stuck \/
              ("Release" \notin run.lacks /\ live["Release.gpg"] = StagedOrFinal("Release"))
        /\ run.pc = "publish InRelease" \/ (~torn /\ ~Halfway) =>
              "Release.gpg" \in stuck \/ live["Release.gpg"] \in {live["Release"], Absent}
        /\ run.pc \in {"publish InRelease", "prune"} /\ "Release" \in run.lacks =>
              "Release.gpg" \in stuck \/ live["Release.gpg"] = Absent
    /\ conf.mode = "required" =>
        /\ Chosen => run.got \in Trusted
        /\ live["InRelease"] \in Trusted \cup {Absent}
        /\ ahead \/ live["Release"] \in Trusted \cup {Absent}

\* What the run reads of v, staged or in place.
Read(v) == IF next[v] # Absent THEN next[v] ELSE index[v]

\* v is there, and is the issue the release lists unless it was taken for it.
Has(v) == Read(v) # Absent /\ (flawed \/ Read(v) = Listed)

\* The indexes: each that is listed is still to be fetched, there, or not
\* served; and published under its digest, if it has one there, once it is
\* promoted.
IndexInv ==
    /\ run.pc = "indexes" =>
          /\ run.todo \subseteq Variant
          /\ \A v \in Variant : v \in run.todo \cup run.unserved \/ Has(v)
    /\ run.pc = "pool" \/ Gathered => \A v \in Variant : v \in run.unserved \/ Has(v)
    /\ run.pc = "promote" => run.todo \subseteq Variant \ run.unserved
    /\ \A v \in run.naming : /\ run.pc = "promote" /\ v \in Variant \ (run.unserved \cup run.todo)
                             /\ run.naming = {v}
    /\ Gathered => \A v \in Variant \ run.unserved :
          (run.pc = "promote" /\ v \in run.todo) \/ next[v] = Absent
    /\ Gathered /\ ~flawed /\ conf.nested => \A v \in Variant \ run.unserved :
          \/ run.pc = "promote" /\ v \in run.todo \cup run.naming
          \/ byhash[v][Listed] = Listed
    /\ ~flawed => \A v \in Variant, n \in Issues : byhash[v][n] \in {n, Absent}

\* The pool files: each that is listed is still to be fetched, there, or missed;
\* and what was missed in the end has used its budget up.
PoolInv ==
    /\ run.gone # {} => conf.missing # "fail" /\ (run.pc = "pool" \/ Gathered)
    /\ run.pc = "pool" => run.todo \subseteq Pool
    /\ ~flawed /\ run.unserved # Variant =>
          /\ run.pc = "pool" => Lists[Listed] \subseteq pool \cup run.gone \cup run.todo
          /\ Gathered => Lists[Listed] \subseteq pool \cup run.gone
    /\ Chosen /\ Gathered => Lacking \subseteq accepted[run.got]
    /\ Gathered /\ run.auth => \A p \in run.gone :
          conf.missing = "ignore" \/ budget[p] >= Retries

DebInv == TypeOK /\ DocInv /\ GotInv /\ SigInv /\ IndexInv /\ PoolInv /\ LiveComplete
-----------------------------------------------------------------------------
(* Types *)
LEMMA GenIsNat == Absent \in Nat /\ \A g \in Gen : g \in Nat /\ g # Absent
BY DebSyncAssumption DEF Gen, Absent

LEMMA IssuesAre ==
    /\ \A g \in Gen : Issue[g] \in Issues
    /\ \A n \in Issues : n \in Nat /\ n # Absent /\ n # Partial
BY DebSyncAssumption DEF Issues, Absent, Partial

LEMMA VersionsAreNat ==
    ASSUME TypeOK, NEW d \in Doc
    PROVE  /\ live[d] \in Gen \cup {Absent} /\ staged[d] \in Gen \cup {Absent}
           /\ StagedOrFinal(d) \in Gen \cup {Absent}
           /\ live[d] \in Nat /\ staged[d] \in Nat /\ StagedOrFinal(d) \in Nat
           /\ up \in Nat /\ up # Absent
<1>1. live[d] \in Gen \cup {Absent} /\ staged[d] \in Gen \cup {Absent} /\ up \in Gen
    BY DEF TypeOK
<1>2. StagedOrFinal(d) \in Gen \cup {Absent}
    BY <1>1 DEF StagedOrFinal
<1>. QED
    BY <1>1, <1>2, GenIsNat

LEMMA DataDocIsDoc == DataDoc \in Doc
BY DEF DataDoc, Doc

LEMMA GotIsGen ==
    ASSUME TypeOK, GotInv, Chosen \/ run.pc = "prune"
    PROVE  run.got \in Gen /\ Listed \in Issues
<1>1. run.got \in Gen
    BY DEF TypeOK, RunState, GotInv
<1>. QED
    BY <1>1, IssuesAre DEF Listed

LEMMA IdleType == Idle \in RunState
BY DEF Idle, RunState, Place

LEMMA UnstagedType == Unstaged \in [Doc -> Gen \cup {Absent}]
BY DEF Unstaged

LEMMA LacksType == ASSUME TypeOK, NEW d \in Doc PROVE Lacks(d) \in SUBSET Doc
BY DEF TypeOK, RunState, Lacks

LEMMA FetchedType ==
    ASSUME TypeOK, NEW d \in Doc, NEW fresh, Fetched(d, fresh)
    PROVE  staged' \in [Doc -> Gen \cup {Absent}]
BY DEF TypeOK, Fetched

LEMMA PromoteType ==
    ASSUME TypeOK, NEW d \in Doc, Promote(d)
    PROVE  /\ live' \in [Doc -> Gen \cup {Absent}] /\ staged' \in [Doc -> Gen \cup {Absent}]
           /\ stuck' \in SUBSET Doc
<1>. USE DEF TypeOK
<1>1. staged' \in [Doc -> Gen \cup {Absent}]
    BY DEF Promote
<1>2. CASE RemoveStale(d)
    BY <1>1, <1>2 DEF RemoveStale
<1>3. CASE PromoteStaged(d)
    BY <1>1, <1>3, VersionsAreNat DEF PromoteStaged
<1>. QED
    BY <1>2, <1>3 DEF Promote

LEMMA BudgetType ==
    ASSUME TypeOK, FinishMissing
    PROVE  budget' \in [Pool -> 0..Retries]
<1>1. \A p \in Pool : Counted(p) \in 0..Retries
    BY DebSyncAssumption DEF TypeOK, Counted
<1>. QED
    BY <1>1 DEF TypeOK, FinishMissing

(* A set of natural numbers has a least one.  The library says so of finite  *)
(* sets under strict inclusion, here the intervals from 0.                   *)
LEMMA LeastNumber ==
    ASSUME NEW S \in SUBSET Nat, NEW k \in S
    PROVE  \E m \in S : \A n \in S : m <= n
<1>. DEFINE Below == {0..n : n \in {n \in S : n <= k}}
<1>1. IsWellFoundedOn(StrictSubsetOrdering(0..k), FiniteSubsetsOf(0..k))
    BY FS_Interval, FS_StrictSubsetOrderingWellFounded
<1>2. Below \subseteq FiniteSubsetsOf(0..k)
  <2>1. ASSUME NEW n \in S, n <= k PROVE 0..n \subseteq 0..k /\ IsFiniteSet(0..n)
      BY <2>1, FS_Interval
  <2>. QED
      BY <2>1 DEF FiniteSubsetsOf
<1>3. 0..k \in Below
    OBVIOUS
<1>4. PICK I \in Below : \A J \in Below : <<J, I>> \notin StrictSubsetOrdering(0..k)
  <2>. HIDE DEF Below
  <2>. QED
      BY <1>1, <1>2, <1>3, WFMin
<1>5. PICK m \in S : I = 0..m /\ m <= k
    OBVIOUS
<1>6. ASSUME NEW n \in S, n < m PROVE FALSE
  <2>1. 0..n \in Below
      BY <1>5, <1>6
  <2>2. 0..n \subseteq 0..m /\ m \in 0..m /\ m \notin 0..n /\ 0..m \subseteq 0..k
      BY <1>5, <1>6
  <2>3. <<0..n, 0..m>> \in StrictSubsetOrdering(0..k)
      BY <2>2 DEF StrictSubsetOrdering
  <2>. QED
      BY <1>4, <1>5, <2>1, <2>3
<1>. QED
    BY <1>6

(* The variant that is parsed is one of those that were served. *)
LEMMA ParsedIsServed ==
    ASSUME TypeOK, run.unserved # Variant
    PROVE  Parsed \in Variant \ run.unserved
<1>. DEFINE Served == Variant \ run.unserved
            Ranks == {Rank[v] : v \in Served}
<1>1. Ranks \subseteq Nat /\ Ranks # {}
  <2>1. run.unserved \subseteq Variant
      BY DEF TypeOK, RunState
  <2>2. Served # {}
      BY <2>1
  <2>3. \A v \in Variant : Rank[v] \in Nat
      BY DebSyncAssumption
  <2>. QED
      BY <2>2, <2>3
<1>2. PICK m \in Ranks : \A n \in Ranks : m <= n
  <2>. HIDE DEF Ranks
  <2>. QED
      BY <1>1, LeastNumber
<1>3. PICK v \in Served : \A w \in Served : Rank[v] <= Rank[w]
    BY <1>2
<1>. QED
    BY <1>3 DEF Parsed

LEMMA WantedIsListed ==
    ASSUME TypeOK, run.unserved # Variant, \A v \in Variant : v \in run.unserved \/ Has(v)
    PROVE  Wanted \subseteq Pool /\ (~flawed => Wanted = Lists[Listed])
<1>1. Parsed \in Variant \ run.unserved
    BY ParsedIsServed
<1>2. Has(Parsed) /\ Wanted = Lists[Read(Parsed)]
    BY <1>1 DEF Wanted, Read
<1>3. Read(Parsed) \in Issues
    BY <1>1, <1>2 DEF Has, Read, TypeOK
<1>. QED
    BY <1>2, <1>3, DebSyncAssumption DEF Has

LEMMA WantedType ==
    ASSUME TypeOK, IndexInv, (run.pc = "indexes" /\ run.todo = {}) \/ run.pc = "pool" \/ Gathered
    PROVE  Wanted \subseteq Pool
BY WantedIsListed DEF IndexInv, Wanted

LEMMA TypeOKInit == Init => TypeOK
<1>1. 1 \in Gen /\ 0 \in 0..Retries
    BY DebSyncAssumption DEF Gen
<1>. SUFFICES ASSUME Init PROVE TypeOK
    OBVIOUS
<1>2. /\ live \in [Doc -> Gen \cup {Absent}] /\ staged \in [Doc -> Gen \cup {Absent}]
      /\ index \in [Variant -> Issues \cup {Absent}] /\ next \in [Variant -> Issues \cup {Absent}]
      /\ byhash \in [Variant -> [Issues -> Issues \cup {Absent, Partial}]]
    BY DEF Init
<1>3. budget \in [Pool -> 0..Retries] /\ accepted \in [Gen -> SUBSET (Pool \cup Variant)]
    BY <1>1 DEF Init
<1>. QED
    BY <1>1, <1>2, <1>3, IdleType DEF Init, TypeOK

LEMMA TypeOKStep ==
    ASSUME TypeOK, GotInv, IndexInv, PoolInv, [Next]_vars
    PROVE  TypeOK'
<1>. USE DEF TypeOK
<1>1. CASE Begin
  <2>1. run' \in RunState
      BY <1>1 DEF Begin, Goto, RunState, Place, Doc
  <2>. QED
      BY <1>1, <2>1 DEF Begin, docs, files, history
<1>2. ASSUME NEW d \in Doc, StageDoc(d) PROVE TypeOK'
  <2>1. AfterDoc(d) \in Place
    <3>1. d \in {"InRelease", "Release", "Release.gpg"}
        BY DEF Doc
    <3>2. AfterDoc(d) \in {"Release", "Release.gpg", "select", "check InRelease"}
        BY <3>1 DEF AfterDoc
    <3>. QED
        BY <3>2 DEF Place, Doc
  <2>2. Lacks(d) \in SUBSET Doc
      BY LacksType
  <2>3. run' \in RunState
      BY <1>2, <2>1, <2>2 DEF StageDoc, RunState
  <2>. QED
      BY <1>2, <2>3, FetchedType DEF StageDoc, files, history
<1>3. ASSUME NEW d \in Doc, RefetchPair(d) PROVE TypeOK'
  <2>1. run' \in RunState
      BY <1>3, LacksType DEF RefetchPair, RunState, Place
  <2>. QED
      BY <1>3, <2>1, FetchedType DEF RefetchPair, files, history
<1>4. CASE CheckInRelease
  <2>1. run' \in RunState
    <3>1. CASE run' = [run EXCEPT !.pc = "check Release.gpg"]
        BY <3>1 DEF RunState, Place
    <3>2. CASE run' = [run EXCEPT !.pc = "check Release.gpg", !.auth = TRUE, !.again = FALSE]
        BY <3>2 DEF RunState, Place
    <3>. QED
        BY <1>4, <3>1, <3>2 DEF CheckInRelease
  <2>2. UNCHANGED <<up, conf, docs, files, budget, history>>
      BY <1>4 DEF CheckInRelease
  <2>. QED
      BY <2>1, <2>2 DEF docs, files, history
<1>5. CASE RefetchInRelease
  <2>0. Lacks("InRelease") \in SUBSET Doc
      BY LacksType DEF Doc
  <2>1. run' \in RunState
    <3>. DEFINE served == "InRelease" \in Serves[up]
    <3>1. served \in BOOLEAN
        OBVIOUS
    <3>2. run' = [run EXCEPT !.lacks = Lacks("InRelease"), !.again = served]
        BY <1>5 DEF RefetchInRelease
    <3>. HIDE DEF served
    <3>. QED
        BY <2>0, <3>1, <3>2 DEF RunState
  <2>2. staged' \in [Doc -> Gen \cup {Absent}]
      BY <1>5, FetchedType DEF RefetchInRelease, Doc
  <2>3. UNCHANGED <<up, conf, live, files, budget, history>>
      BY <1>5 DEF RefetchInRelease
  <2>. QED
      BY <2>1, <2>2, <2>3 DEF files, history
<1>6. CASE CheckRelease
  <2>1. run' \in RunState
    <3>1. CASE Goto("select")
        BY <3>1 DEF Goto, RunState, Place
    <3>2. CASE run' = [run EXCEPT !.pc = "select", !.auth = @ \/ "InRelease" \in run.lacks]
      <4>. DEFINE counts == run.auth \/ "InRelease" \in run.lacks
      <4>1. counts \in BOOLEAN
          OBVIOUS
      <4>2. run' = [run EXCEPT !.pc = "select", !.auth = counts]
          BY <3>2
      <4>. HIDE DEF counts
      <4>. QED
          BY <4>1, <4>2 DEF RunState, Place
    <3>. QED
        BY <1>6, <3>1, <3>2 DEF CheckRelease
  <2>2. UNCHANGED <<up, conf, docs, files, budget, history>>
      BY <1>6 DEF CheckRelease
  <2>. QED
      BY <2>1, <2>2 DEF docs, files, history
<1>7. CASE BeginRefetchPair
  <2>1. run' \in RunState
      BY <1>7 DEF BeginRefetchPair, RunState, Place
  <2>. QED
      BY <1>7, <2>1 DEF BeginRefetchPair, docs, files, history
<1>8. CASE Select
  <2>1. StagedOrFinal(DataDoc) \in Gen \cup {Absent}
      BY VersionsAreNat, DataDocIsDoc
  <2>2. run' \in RunState
      BY <1>8, <2>1 DEF Select, RunState, Place
  <2>. QED
      BY <1>8, <2>2 DEF Select, docs, files, history
<1>9. CASE Fail
    BY <1>9, IdleType, UnstagedType DEF Fail, files, history
<1>10. ASSUME NEW v \in Variant, KeepIndex(v) PROVE TypeOK'
  <2>1. run' \in RunState
      BY <1>10 DEF KeepIndex, RunState
  <2>. QED
      BY <1>10, <2>1 DEF KeepIndex, docs
<1>11. ASSUME NEW v \in Variant, StageIndex(v) PROVE TypeOK'
  <2>1. run' \in RunState
      BY <1>11 DEF StageIndex, RunState
  <2>2. Listed \in Issues
      BY <1>11, IssuesAre DEF StageIndex
  <2>. QED
      BY <1>11, <2>1, <2>2 DEF StageIndex, docs, history
<1>12. ASSUME NEW v \in Variant, MissIndex(v) PROVE TypeOK'
  <2>1. run' \in RunState
      BY <1>12 DEF MissIndex, RunState
  <2>. QED
      BY <1>12, <2>1 DEF MissIndex, docs, history
<1>13. CASE IndexesDone
  <2>1. Wanted \subseteq Pool
      BY <1>13, WantedType DEF IndexesDone
  <2>2. run' \in RunState
      BY <1>13, <2>1 DEF IndexesDone, RunState, Place
  <2>. QED
      BY <1>13, <2>2 DEF IndexesDone, docs, files, history
<1>14. ASSUME NEW p \in Pool, FetchPoolFile(p) PROVE TypeOK'
  <2>1. run' \in RunState
      BY <1>14 DEF FetchPoolFile, RunState
  <2>. QED
      BY <1>14, <2>1 DEF FetchPoolFile, docs, history
<1>15. ASSUME NEW p \in Pool, MissPoolFile(p) PROVE TypeOK'
  <2>1. run' \in RunState
      BY <1>15 DEF MissPoolFile, RunState
  <2>. QED
      BY <1>15, <2>1 DEF MissPoolFile, docs, files, history
<1>16. CASE PoolDone
  <2>1. run' \in RunState
    <3>1. [run EXCEPT !.pc = "promote", !.todo = Variant \ run.unserved] \in RunState
        BY DEF RunState, Place
    <3>. QED
        BY <1>16, <3>1, IdleType DEF PoolDone, Promoting
  <2>2. staged' \in [Doc -> Gen \cup {Absent}] /\ budget' \in [Pool -> 0..Retries]
      BY <1>16, UnstagedType, BudgetType DEF PoolDone
  <2>3. Lacking \subseteq Pool \cup Variant
      BY DEF Lacking, RunState
  <2>4. accepted' \in [Gen -> SUBSET (Pool \cup Variant)]
      BY <1>16, <2>3 DEF PoolDone
  <2>. QED
      BY <1>16, <2>1, <2>2, <2>4 DEF PoolDone, files
<1>17. ASSUME NEW v \in Variant, PromoteIndex(v) PROVE TypeOK'
  <2>1. run' \in RunState
      BY <1>17 DEF PromoteIndex, RunState
  <2>. QED
      BY <1>17, <2>1 DEF PromoteIndex, docs
<1>18. ASSUME NEW v \in Variant, AddByHash(v) PROVE TypeOK'
  <2>1. run' \in RunState
      BY <1>18 DEF AddByHash, RunState
  <2>2. byhash' \in [Variant -> [Issues -> Issues \cup {Absent, Partial}]]
      BY <1>18 DEF AddByHash
  <2>. QED
      BY <1>18, <2>1, <2>2 DEF AddByHash, docs
<1>19. CASE IndexesPromoted
  <2>1. run' \in RunState
      BY <1>19 DEF IndexesPromoted, Goto, RunState, Place
  <2>. QED
      BY <1>19, <2>1 DEF IndexesPromoted, docs, files, history
<1>20. CASE PublishSignature
  <2>1. run' \in RunState
      BY <1>20 DEF PublishSignature, Goto, RunState, Place
  <2>2. /\ live' \in [Doc -> Gen \cup {Absent}] /\ staged' \in [Doc -> Gen \cup {Absent}]
        /\ stuck' \in SUBSET Doc
      BY <1>20, PromoteType DEF PublishSignature, Doc
  <2>. QED
      BY <1>20, <2>1, <2>2 DEF PublishSignature, files, history
<1>21. CASE PublishRelease
  <2>1. run' \in RunState
      BY <1>21 DEF PublishRelease, Goto, RunState, Place
  <2>2. /\ live' \in [Doc -> Gen \cup {Absent}] /\ staged' \in [Doc -> Gen \cup {Absent}]
        /\ stuck' \in SUBSET Doc
      BY <1>21, PromoteType DEF PublishRelease, Doc
  <2>3. ahead' \in BOOLEAN
      BY <1>21 DEF PublishRelease
  <2>. QED
      BY <1>21, <2>1, <2>2, <2>3 DEF PublishRelease, files
<1>22. CASE PublishInRelease
  <2>1. run' \in RunState
      BY <1>22 DEF PublishInRelease, Goto, RunState, Place
  <2>2. /\ live' \in [Doc -> Gen \cup {Absent}] /\ staged' \in [Doc -> Gen \cup {Absent}]
        /\ stuck' \in SUBSET Doc
      BY <1>22, PromoteType DEF PublishInRelease, Doc
  <2>3. Lacking \subseteq Pool \cup Variant
      BY DEF Lacking, RunState
  <2>. QED
      BY <1>22, <2>1, <2>2, <2>3 DEF PublishInRelease, files
<1>23. CASE PublicationFails
  <2>1. torn' \in BOOLEAN
      BY <1>23 DEF PublicationFails, Halfway
  <2>. QED
      BY <1>23, <2>1, IdleType, UnstagedType DEF PublicationFails, files
<1>24. ASSUME NEW v \in Variant, PruneIndex(v) PROVE TypeOK'
  <2>1. index' \in [Variant -> Issues \cup {Absent}] /\ next' \in [Variant -> Issues \cup {Absent}]
      BY <1>24 DEF PruneIndex
  <2>. QED
      BY <1>24, <2>1 DEF PruneIndex, docs, history
<1>25. ASSUME NEW v \in Variant, NEW n \in Issues, PruneName(v, n) PROVE TypeOK'
  <2>1. byhash' \in [Variant -> [Issues -> Issues \cup {Absent, Partial}]]
      BY <1>25 DEF PruneName
  <2>. QED
      BY <1>25, <2>1 DEF PruneName, docs, history
<1>26. ASSUME NEW p \in Pool, PrunePoolFile(p) PROVE TypeOK'
    BY <1>26 DEF PrunePoolFile, docs, history
<1>27. CASE Finish
  <2>1. budget' \in [Pool -> 0..Retries]
      BY <1>27, BudgetType DEF Finish
  <2>. QED
      BY <1>27, <2>1, IdleType DEF Finish, docs, files, history
<1>28. CASE Crash
  <2>1. byhash' \in [Variant -> [Issues -> Issues \cup {Absent, Partial}]] /\ flawed' \in BOOLEAN
    <3>1. CASE UNCHANGED <<byhash, flawed>>
        BY <3>1
    <3>2. ASSUME NEW v, byhash' = [byhash EXCEPT ![v][Listed] = Partial], flawed' = TRUE
          PROVE  byhash' \in [Variant -> [Issues -> Issues \cup {Absent, Partial}]] /\ flawed' \in BOOLEAN
        BY <3>2
    <3>. QED
        BY <1>28, <3>1, <3>2 DEF Crash
  <2>2. torn' \in BOOLEAN
      BY <1>28 DEF Crash, Halfway
  <2>. QED
      BY <1>28, <2>1, <2>2, IdleType DEF Crash, docs
<1>29. CASE Rotate
    BY <1>29, DebSyncAssumption DEF Rotate, docs, files, history, Gen
<1>30. CASE UNCHANGED vars
    BY <1>30 DEF vars, docs, files, history
<1>31. ASSUME NEW d \in Doc, PruneDoc(d) PROVE TypeOK'
    BY <1>31 DEF PruneDoc, files
<1>. QED
    BY <1>1, <1>2, <1>3, <1>4, <1>5, <1>6, <1>7, <1>8, <1>9, <1>10, <1>11, <1>12, <1>13, <1>14,
       <1>15, <1>16, <1>17, <1>18, <1>19, <1>20, <1>21, <1>22, <1>23, <1>24, <1>25, <1>26, <1>27,
       <1>28, <1>29, <1>30, <1>31 DEF Next, Stage, Fetch, Publish, Prune

-----------------------------------------------------------------------------
(* The release documents *)

(* A document that was asked for is now upstream's, unless upstream lacks it. *)
LEMMA FetchedDoc ==
    ASSUME TypeOK, DocInv, NEW d \in Doc, NEW fresh, Fetched(d, fresh), live' = live
    PROVE  /\ staged'[d] \in {up, Absent}
           /\ d \in Serves[up] => StagedOrFinal(d)' = up
           /\ \A e \in Doc : e # d => staged'[e] = staged[e] /\ StagedOrFinal(e)' = StagedOrFinal(e)
BY VersionsAreNat DEF TypeOK, Fetched, StagedOrFinal

(* A document that is promoted is the one that was staged, or that is live;  *)
(* one that is removed goes, or stays and is known to have stayed.           *)
LEMMA PromotedDoc ==
    ASSUME TypeOK, NEW d \in Doc, Promote(d)
    PROVE  /\ staged'[d] = Absent
           /\ d \notin run.lacks => /\ live'[d] = StagedOrFinal(d)
                                   /\ StagedOrFinal(d)' = StagedOrFinal(d)
           /\ d \in run.lacks => live'[d] = Absent \/ (live'[d] = live[d] /\ d \in stuck')
           /\ \A e \in Doc : e # d => /\ staged'[e] = staged[e] /\ live'[e] = live[e]
                                      /\ StagedOrFinal(e)' = StagedOrFinal(e)
                                      /\ e \in stuck' <=> e \in stuck
BY DEF TypeOK, Promote, PromoteStaged, RemoveStale, StagedOrFinal

LEMMA DocFrame ==
    ASSUME TypeOK, DocInv, UNCHANGED <<up, docs>>, run'.lacks = run.lacks,
           \A d \in Doc : Past(d)' => Past(d)
    PROVE  DocInv'
BY DEF DocInv, docs, StagedOrFinal, Doc

LEMMA DocAtRest ==
    ASSUME TypeOK, DocInv, UNCHANGED <<up, live>>, staged' = staged \/ staged' = Unstaged,
           run' = Idle
    PROVE  DocInv'
<1>1. \A d \in Doc : ~Past(d)'
    BY DEF Past, Chosen, Publishing, Idle, Doc
<1>2. "Release" \in Doc
    BY DEF Doc
<1>3. \A d \in Doc : 0 <= up /\ Unstaged[d] = Absent /\ Absent = 0
    BY VersionsAreNat DEF Unstaged, Absent
<1>. QED
    BY <1>1, <1>2, <1>3 DEF DocInv

(* The places that lie behind the release documents. *)
LEMMA PastAll ==
    ASSUME \/ run.pc \in {"check InRelease", "check Release.gpg", "again Release", "again Release.gpg",
                          "select", "indexes", "pool", "promote"}
           \/ Publishing
    PROVE  \A d \in Doc : Past(d)
BY DEF Past, Chosen

LEMMA DocRefetched ==
    ASSUME TypeOK, DocInv, NEW d \in Doc, NEW fresh, Fetched(d, fresh),
           UNCHANGED <<up, live>>, run'.lacks = Lacks(d),
           \A e \in Doc : Past(e)' => e = d \/ Past(e)
    PROVE  DocInv'
<1>1. /\ staged'[d] \in {up, Absent}
      /\ d \in Serves[up] => StagedOrFinal(d)' = up
      /\ \A e \in Doc : e # d => staged'[e] = staged[e] /\ StagedOrFinal(e)' = StagedOrFinal(e)
    BY FetchedDoc
<1>2. /\ d \in run'.lacks <=> d \notin Serves[up]
      /\ \A e \in Doc : e # d => (e \in run'.lacks <=> e \in run.lacks)
    BY DEF Lacks
<1>3. \A e \in Doc : live[e] <= up /\ staged'[e] <= up
    BY <1>1, VersionsAreNat DEF DocInv, Absent
<1>4. \A e \in Doc : staged'[e] # Absent => live[e] <= staged'[e]
    BY <1>1, <1>3 DEF DocInv
<1>5. \A e \in Doc : Past(e)' /\ e \notin run'.lacks => StagedOrFinal(e)' # Absent
    BY <1>1, <1>2, VersionsAreNat DEF DocInv
<1>6. Past("Release")' /\ "Release" \notin run'.lacks => live["InRelease"] <= StagedOrFinal("Release")'
  <2>1. "Release" \in Doc /\ "InRelease" \in Doc
      BY DEF Doc
  <2>. QED
      BY <1>1, <1>2, <2>1 DEF DocInv
<1>. QED
    BY <1>3, <1>4, <1>5, <1>6 DEF DocInv

LEMMA DocPromoted ==
    ASSUME TypeOK, DocInv, NEW d \in Doc, Promote(d), Publishing, up' = up, run'.lacks = run.lacks,
           d = "InRelease" => ~Past("Release")' /\ ~Past("InRelease")'
    PROVE  DocInv'
<1>1. /\ staged'[d] = Absent
      /\ d \notin run.lacks => live'[d] = StagedOrFinal(d) /\ StagedOrFinal(d)' = StagedOrFinal(d)
      /\ d \in run.lacks => live'[d] \in {Absent, live[d]}
      /\ \A e \in Doc : e # d => /\ staged'[e] = staged[e] /\ live'[e] = live[e]
                                 /\ StagedOrFinal(e)' = StagedOrFinal(e)
    BY PromotedDoc
<1>2. \A e \in Doc : live'[e] <= up /\ staged'[e] <= up
    BY <1>1, VersionsAreNat DEF DocInv, StagedOrFinal, Absent
<1>3. \A e \in Doc : staged'[e] # Absent => live'[e] <= staged'[e]
    BY <1>1 DEF DocInv
<1>4. \A e \in Doc : e \notin run.lacks => StagedOrFinal(e)' = StagedOrFinal(e) /\ StagedOrFinal(e) # Absent
    BY <1>1, PastAll DEF DocInv
<1>5. Past("Release")' /\ "Release" \notin run.lacks => live'["InRelease"] <= StagedOrFinal("Release")'
  <2>1. "Release" \in Doc /\ "InRelease" \in Doc /\ Past("Release")
      BY PastAll DEF Doc
  <2>. QED
      BY <1>1, <1>4, <2>1 DEF DocInv
<1>. QED
    BY <1>2, <1>3, <1>4, <1>5 DEF DocInv

LEMMA DocStep ==
    ASSUME TypeOK, DocInv, [Next]_vars
    PROVE  DocInv'
<1>. USE DEF TypeOK, RunState
<1>1. CASE Begin
  <2>1. UNCHANGED <<up, docs>> /\ run'.lacks = run.lacks /\ \A d \in Doc : Past(d)' => Past(d)
      BY <1>1 DEF Begin, Goto, Past, Chosen, Publishing, docs, Doc
  <2>. QED
      BY <2>1, DocFrame
<1>2. CASE CheckInRelease
  <2>1. UNCHANGED <<up, docs>> /\ run'.lacks = run.lacks /\ \A d \in Doc : Past(d)' => Past(d)
      BY <1>2 DEF CheckInRelease, Past, Chosen, Publishing, docs, Doc
  <2>. QED
      BY <2>1, DocFrame
<1>3. CASE CheckRelease
  <2>1. UNCHANGED <<up, docs>> /\ run'.lacks = run.lacks /\ \A d \in Doc : Past(d)' => Past(d)
      BY <1>3 DEF CheckRelease, Goto, Past, Chosen, Publishing, docs, Doc
  <2>. QED
      BY <2>1, DocFrame
<1>4. CASE BeginRefetchPair
  <2>1. UNCHANGED <<up, docs>> /\ run'.lacks = run.lacks /\ \A d \in Doc : Past(d)' => Past(d)
      BY <1>4 DEF BeginRefetchPair, Past, Chosen, Publishing, docs, Doc
  <2>. QED
      BY <2>1, DocFrame
<1>5. CASE Select
  <2>1. UNCHANGED <<up, docs>> /\ run'.lacks = run.lacks /\ \A d \in Doc : Past(d)' => Past(d)
      BY <1>5 DEF Select, Past, Chosen, Publishing, docs, Doc
  <2>. QED
      BY <2>1, DocFrame
<1>6. ASSUME NEW v \in Variant, KeepIndex(v) PROVE DocInv'
  <2>1. UNCHANGED <<up, docs>> /\ run'.lacks = run.lacks /\ \A d \in Doc : Past(d)' => Past(d)
      BY <1>6 DEF KeepIndex, Take, Past, Chosen, Publishing, docs, Doc
  <2>. QED
      BY <2>1, DocFrame
<1>7. ASSUME NEW v \in Variant, StageIndex(v) PROVE DocInv'
  <2>1. UNCHANGED <<up, docs>> /\ run'.lacks = run.lacks /\ \A d \in Doc : Past(d)' => Past(d)
      BY <1>7 DEF StageIndex, Take, Past, Chosen, Publishing, docs, Doc
  <2>. QED
      BY <2>1, DocFrame
<1>8. ASSUME NEW v \in Variant, MissIndex(v) PROVE DocInv'
  <2>1. UNCHANGED <<up, docs>> /\ run'.lacks = run.lacks /\ \A d \in Doc : Past(d)' => Past(d)
      BY <1>8 DEF MissIndex, Take, Past, Chosen, Publishing, docs, Doc
  <2>. QED
      BY <2>1, DocFrame
<1>9. CASE IndexesDone
  <2>1. UNCHANGED <<up, docs>> /\ run'.lacks = run.lacks /\ \A d \in Doc : Past(d)' => Past(d)
      BY <1>9 DEF IndexesDone, Past, Chosen, Publishing, docs, Doc
  <2>. QED
      BY <2>1, DocFrame
<1>10. ASSUME NEW p \in Pool, FetchPoolFile(p) PROVE DocInv'
  <2>1. UNCHANGED <<up, docs>> /\ run'.lacks = run.lacks /\ \A d \in Doc : Past(d)' => Past(d)
      BY <1>10 DEF FetchPoolFile, Take, Past, Chosen, Publishing, docs, Doc
  <2>. QED
      BY <2>1, DocFrame
<1>11. ASSUME NEW p \in Pool, MissPoolFile(p) PROVE DocInv'
  <2>1. UNCHANGED <<up, docs>> /\ run'.lacks = run.lacks /\ \A d \in Doc : Past(d)' => Past(d)
      BY <1>11 DEF MissPoolFile, Take, Past, Chosen, Publishing, docs, Doc
  <2>. QED
      BY <2>1, DocFrame
<1>12. ASSUME NEW v \in Variant, PromoteIndex(v) PROVE DocInv'
  <2>1. UNCHANGED <<up, docs>> /\ run'.lacks = run.lacks /\ \A d \in Doc : Past(d)' => Past(d)
      BY <1>12 DEF PromoteIndex, Past, Chosen, Publishing, docs, Doc
  <2>. QED
      BY <2>1, DocFrame
<1>13. ASSUME NEW v \in Variant, AddByHash(v) PROVE DocInv'
  <2>1. UNCHANGED <<up, docs>> /\ run'.lacks = run.lacks /\ \A d \in Doc : Past(d)' => Past(d)
      BY <1>13 DEF AddByHash, Past, Chosen, Publishing, docs, Doc
  <2>. QED
      BY <2>1, DocFrame
<1>14. CASE IndexesPromoted
  <2>1. UNCHANGED <<up, docs>> /\ run'.lacks = run.lacks /\ \A d \in Doc : Past(d)' => Past(d)
      BY <1>14 DEF IndexesPromoted, Goto, Past, Chosen, Publishing, docs, Doc
  <2>. QED
      BY <2>1, DocFrame
<1>15. ASSUME NEW v \in Variant, PruneIndex(v) PROVE DocInv'
  <2>1. UNCHANGED <<up, docs>> /\ run'.lacks = run.lacks /\ \A d \in Doc : Past(d)' => Past(d)
      BY <1>15 DEF PruneIndex, Past, Chosen, Publishing, docs, Doc
  <2>. QED
      BY <2>1, DocFrame
<1>16. ASSUME NEW v \in Variant, NEW n \in Issues, PruneName(v, n) PROVE DocInv'
  <2>1. UNCHANGED <<up, docs>> /\ run'.lacks = run.lacks /\ \A d \in Doc : Past(d)' => Past(d)
      BY <1>16 DEF PruneName, Past, Chosen, Publishing, docs, Doc
  <2>. QED
      BY <2>1, DocFrame
<1>17. ASSUME NEW p \in Pool, PrunePoolFile(p) PROVE DocInv'
  <2>1. UNCHANGED <<up, docs>> /\ run'.lacks = run.lacks /\ \A d \in Doc : Past(d)' => Past(d)
      BY <1>17 DEF PrunePoolFile, Past, Chosen, Publishing, docs, Doc
  <2>. QED
      BY <2>1, DocFrame
<1>18. CASE UNCHANGED vars
  <2>1. UNCHANGED <<up, docs>> /\ run'.lacks = run.lacks /\ \A d \in Doc : Past(d)' => Past(d)
      BY <1>18 DEF vars, Past, Chosen, Publishing, docs, Doc
  <2>. QED
      BY <2>1, DocFrame
<1>19. CASE Fail
    BY <1>19, DocAtRest DEF Fail, docs
<1>20. CASE PublicationFails
    BY <1>20, DocAtRest DEF PublicationFails, docs
<1>21. CASE Finish
    BY <1>21, DocAtRest DEF Finish, docs
<1>22. CASE Crash
    BY <1>22, DocAtRest DEF Crash, docs
<1>23. CASE PoolDone
  <2>1. CASE run' = Idle /\ staged' = Unstaged
      BY <1>23, <2>1, DocAtRest DEF PoolDone
  <2>2. CASE Promoting /\ staged' = staged
    <3>1. UNCHANGED <<up, docs>> /\ run'.lacks = run.lacks /\ \A d \in Doc : Past(d)' => Past(d)
        BY <1>23, <2>2 DEF PoolDone, Promoting, Past, Chosen, Publishing, docs
    <3>. QED
        BY <3>1, DocFrame
  <2>. QED
      BY <1>23, <2>1, <2>2 DEF PoolDone
<1>24. ASSUME NEW d \in Doc, StageDoc(d) PROVE DocInv'
  <2>1. /\ Fetched(d, FALSE) /\ UNCHANGED <<up, live>> /\ run.pc = d
        /\ run'.lacks = Lacks(d) /\ run'.pc = AfterDoc(d)
      BY <1>24 DEF StageDoc
  <2>2. \A e \in Doc : Past(e)' => e = d \/ Past(e)
      BY <2>1 DEF AfterDoc, Past, Chosen, Publishing, Doc
  <2>. QED
      BY <2>1, <2>2, DocRefetched
<1>25. ASSUME NEW d \in Doc, RefetchPair(d) PROVE DocInv'
  <2>1. /\ Fetched(d, TRUE) /\ UNCHANGED <<up, live>>
        /\ run'.lacks = Lacks(d) /\ \A e \in Doc : Past(e)
      BY <1>25, PastAll DEF RefetchPair
  <2>. QED
      BY <2>1, DocRefetched
<1>26. CASE RefetchInRelease
  <2>1. /\ Fetched("InRelease", TRUE) /\ UNCHANGED <<up, live>> /\ "InRelease" \in Doc
        /\ run'.lacks = Lacks("InRelease") /\ \A e \in Doc : Past(e)
      BY <1>26, PastAll DEF RefetchInRelease, Doc
  <2>. QED
      BY <2>1, DocRefetched
<1>27. CASE PublishSignature
  <2>1. "Release.gpg" \in Doc /\ Promote("Release.gpg") /\ Publishing /\ up' = up /\ run'.lacks = run.lacks
      BY <1>27 DEF PublishSignature, Publishing, Goto, Doc
  <2>. QED
      BY <2>1, DocPromoted
<1>28. CASE PublishRelease
  <2>1. "Release" \in Doc /\ Promote("Release") /\ Publishing /\ up' = up /\ run'.lacks = run.lacks
      BY <1>28 DEF PublishRelease, Publishing, Goto, Doc
  <2>. QED
      BY <2>1, DocPromoted
<1>29. CASE PublishInRelease
  <2>1. "InRelease" \in Doc /\ Promote("InRelease") /\ Publishing /\ up' = up /\ run'.lacks = run.lacks
      BY <1>29 DEF PublishInRelease, Publishing, Goto, Doc
  <2>2. ~Past("Release")' /\ ~Past("InRelease")'
      BY <1>29 DEF PublishInRelease, Goto, Past, Chosen, Publishing
  <2>. QED
      BY <2>1, <2>2, DocPromoted
<1>30. CASE Rotate
  <2>1. up' = up + 1 /\ UNCHANGED <<docs, run>>
      BY <1>30 DEF Rotate
  <2>2. \A d \in Doc : live'[d] <= up' /\ staged'[d] <= up'
      BY <2>1, VersionsAreNat DEF DocInv, docs
  <2>3. \A d \in Doc : (Past(d)' <=> Past(d)) /\ StagedOrFinal(d)' = StagedOrFinal(d)
      BY <2>1 DEF docs, Past, Chosen, Publishing, StagedOrFinal
  <2>. QED
      BY <2>1, <2>2, <2>3 DEF DocInv, docs, Doc
<1>31. ASSUME NEW d \in Doc, PruneDoc(d) PROVE DocInv'
  <2>1. /\ UNCHANGED <<up, staged, run>> /\ run.pc = "prune"
        /\ \A e \in Doc : live'[e] \in {Absent, live[e]}
      BY <1>31 DEF PruneDoc
  <2>2. \A e \in Doc : ~Past(e)'
      BY <2>1 DEF Past, Chosen, Publishing
  <2>3. \A e \in Doc : live'[e] <= live[e]
      BY <2>1, VersionsAreNat DEF Absent
  <2>4. \A e \in Doc : live'[e] <= up /\ (staged[e] # Absent => live'[e] <= staged[e])
      BY <2>1, <2>3, VersionsAreNat DEF DocInv, Absent
  <2>. QED
      BY <2>1, <2>2, <2>4 DEF DocInv, Doc
<1>. QED
    BY <1>1, <1>2, <1>3, <1>4, <1>5, <1>6, <1>7, <1>8, <1>9, <1>10, <1>11, <1>12, <1>13,
       <1>14, <1>15, <1>16, <1>17, <1>18, <1>19, <1>20, <1>21, <1>22, <1>23, <1>24, <1>25,
       <1>26, <1>27, <1>28, <1>29, <1>30, <1>31
       DEF Next, Stage, Fetch, Publish, Prune

-----------------------------------------------------------------------------
(* The generation that is mirrored *)
LEMMA GotFrame ==
    ASSUME TypeOK, GotInv, UNCHANGED docs, run'.lacks = run.lacks, run'.got = run.got,
           Chosen' => Chosen, run'.pc \notin {"publish InRelease", "prune"}
    PROVE  GotInv'
BY DEF GotInv, DataDoc, StagedOrFinal, docs

LEMMA GotUndecided ==
    ASSUME ~Chosen', run'.pc # "prune"
    PROVE  GotInv'
BY DEF GotInv, Chosen, Publishing

LEMMA GotStays ==
    ASSUME GotInv, UNCHANGED <<docs, run, accepted, ahead, stuck>>
    PROVE  GotInv'
BY DEF GotInv, DataDoc, StagedOrFinal, docs, Chosen, Publishing, Main, Lacking

(* Pruning may remove a document that could not be removed before: an        *)
(* InRelease gives way to the Release that was published with it.            *)
LEMMA DocPruned ==
    ASSUME TypeOK, GotInv, NEW d \in Doc, PruneDoc(d)
    PROVE  /\ GotInv'
           /\ Main' = Main \/ (Main' = run.got /\ Main <= run.got)
           /\ "InRelease" \in stuck' \/ Main' = run.got
           /\ ("InRelease" \in stuck /\ "InRelease" \notin stuck') \/ Main' = Main
<1>1. /\ UNCHANGED <<run, accepted, ahead>> /\ run.pc = "prune" /\ d \in run.lacks /\ d \in stuck
      /\ \A e \in Doc : e # d => live'[e] = live[e] /\ (e \in stuck' <=> e \in stuck)
      /\ live'[d] = Absent /\ d \notin stuck'
    BY DEF PruneDoc, TypeOK
<1>2. DataDoc' = DataDoc /\ Lacking' = Lacking /\ ~Chosen' /\ {"InRelease", "Release", "Release.gpg"} = Doc
    BY <1>1 DEF DataDoc, Lacking, Chosen, Publishing, Doc
<1>3. d # DataDoc /\ live'[DataDoc] = run.got /\ run.got # Absent /\ live[DataDoc] = run.got
    BY <1>1, <1>2, DataDocIsDoc DEF GotInv
<1>4. CASE d = "InRelease"
  <2>1. DataDoc = "Release" /\ ~ahead /\ live["InRelease"] <= run.got
      BY <1>1, <1>4 DEF DataDoc, GotInv
  <2>2. Main' = run.got /\ live'["InRelease"] = Absent
      BY <1>1, <1>3, <1>4, <2>1 DEF Main
  <2>3. run.got \in Nat /\ 0 <= run.got
      BY <1>3, VersionsAreNat, DataDocIsDoc
  <2>4. Main <= run.got
      BY <1>3, <2>1, <2>3 DEF Main, Absent
  <2>. QED
      BY <1>1, <1>2, <1>3, <1>4, <2>1, <2>2, <2>3, <2>4 DEF GotInv, Absent
<1>5. CASE d # "InRelease"
  <2>1. live'["InRelease"] = live["InRelease"] /\ ("InRelease" \in stuck' <=> "InRelease" \in stuck)
      BY <1>1, <1>2, <1>5
  <2>2. CASE "InRelease" \in run.lacks
    <3>1. live'["Release"] = live["Release"]
        BY <1>1, <1>2, <1>3, <1>5, <2>2 DEF DataDoc
    <3>2. Main' = Main
        BY <1>1, <2>1, <3>1 DEF Main
    <3>. QED
        BY <1>1, <1>2, <1>3, <2>1, <3>2 DEF GotInv
  <2>3. CASE "InRelease" \notin run.lacks
    <3>1. Main' = Main
        BY <1>3, <2>1, <2>3 DEF Main, DataDoc
    <3>. QED
        BY <1>1, <1>2, <1>3, <2>1, <2>3, <3>1 DEF GotInv
  <2>. QED
      BY <2>2, <2>3
<1>. QED
    BY <1>4, <1>5

LEMMA GotStep ==
    ASSUME TypeOK, DocInv, GotInv, [Next]_vars
    PROVE  GotInv'
<1>. USE DEF TypeOK, RunState
<1>1. CASE Begin
    BY <1>1, GotUndecided DEF Begin, Goto, Chosen, Publishing
<1>2. ASSUME NEW d \in Doc, StageDoc(d) PROVE GotInv'
    BY <1>2, GotUndecided DEF StageDoc, AfterDoc, Doc, Chosen, Publishing
<1>3. ASSUME NEW d \in Doc, RefetchPair(d) PROVE GotInv'
    BY <1>3, GotUndecided DEF RefetchPair, Chosen, Publishing
<1>4. CASE CheckInRelease
    BY <1>4, GotUndecided DEF CheckInRelease, Chosen, Publishing
<1>5. CASE RefetchInRelease
    BY <1>5, GotUndecided DEF RefetchInRelease, Chosen, Publishing
<1>6. CASE CheckRelease
    BY <1>6, GotUndecided DEF CheckRelease, Goto, Chosen, Publishing
<1>7. CASE BeginRefetchPair
    BY <1>7, GotUndecided DEF BeginRefetchPair, Chosen, Publishing
<1>8. CASE Select
  <2>1. /\ run' = [run EXCEPT !.pc = "indexes", !.got = StagedOrFinal(DataDoc), !.todo = Variant]
        /\ UNCHANGED docs /\ DataDoc \notin run.lacks
      BY <1>8 DEF Select, Unusable
  <2>2. StagedOrFinal(DataDoc) # Absent
      BY <1>8, <2>1, DataDocIsDoc, PastAll DEF Select, DocInv
  <2>3. DataDoc' = DataDoc /\ StagedOrFinal(DataDoc)' = StagedOrFinal(DataDoc) /\ run'.lacks = run.lacks
      BY <2>1 DEF DataDoc, StagedOrFinal, docs
  <2>4. run'.got = StagedOrFinal(DataDoc) /\ run'.pc = "indexes"
      BY <2>1
  <2>. QED
      BY <2>1, <2>2, <2>3, <2>4 DEF GotInv
<1>9. CASE Fail
    BY <1>9, GotUndecided DEF Fail, Idle, Chosen, Publishing
<1>10. ASSUME NEW v \in Variant, KeepIndex(v) PROVE GotInv'
    BY <1>10, GotFrame DEF KeepIndex, Take, Chosen, Publishing
<1>11. ASSUME NEW v \in Variant, StageIndex(v) PROVE GotInv'
    BY <1>11, GotFrame DEF StageIndex, Take, Chosen, Publishing
<1>12. ASSUME NEW v \in Variant, MissIndex(v) PROVE GotInv'
    BY <1>12, GotFrame DEF MissIndex, Take, Chosen, Publishing
<1>13. CASE IndexesDone
    BY <1>13, GotFrame DEF IndexesDone, Chosen, Publishing
<1>14. ASSUME NEW p \in Pool, FetchPoolFile(p) PROVE GotInv'
    BY <1>14, GotFrame DEF FetchPoolFile, Take, Chosen, Publishing
<1>15. ASSUME NEW p \in Pool, MissPoolFile(p) PROVE GotInv'
    BY <1>15, GotFrame DEF MissPoolFile, Take, Chosen, Publishing
<1>16. CASE PoolDone
  <2>1. CASE run' = Idle
      BY <2>1, GotUndecided DEF Idle, Chosen, Publishing
  <2>2. CASE Promoting /\ staged' = staged
      BY <1>16, <2>2, GotFrame DEF PoolDone, Promoting, Chosen, Publishing, docs
  <2>. QED
      BY <1>16, <2>1, <2>2 DEF PoolDone
<1>17. ASSUME NEW v \in Variant, PromoteIndex(v) PROVE GotInv'
    BY <1>17, GotFrame DEF PromoteIndex, Chosen, Publishing
<1>18. ASSUME NEW v \in Variant, AddByHash(v) PROVE GotInv'
    BY <1>18, GotFrame DEF AddByHash, Chosen, Publishing
<1>19. CASE IndexesPromoted
    BY <1>19, GotFrame DEF IndexesPromoted, Goto, Chosen, Publishing
<1>20. CASE PublishSignature
  <2>1. Promote("Release.gpg") /\ run' = [run EXCEPT !.pc = "publish Release"]
      BY <1>20 DEF PublishSignature, Goto
  <2>2. DataDoc' = DataDoc /\ StagedOrFinal(DataDoc)' = StagedOrFinal(DataDoc)
      BY <2>1, PromotedDoc DEF DataDoc, Doc
  <2>. QED
      BY <1>20, <2>1, <2>2 DEF PublishSignature, GotInv, Chosen, Publishing
<1>21. CASE PublishRelease
  <2>1. /\ Promote("Release") /\ run' = [run EXCEPT !.pc = "publish InRelease"]
        /\ ahead' = ("InRelease" \notin run.lacks /\ live'["Release"] # run.got)
        /\ Chosen
      BY <1>21 DEF PublishRelease, Goto, Chosen, Publishing
  <2>2. DataDoc' = DataDoc /\ run'.lacks = run.lacks /\ run'.got = run.got /\ run'.pc = "publish InRelease"
      BY <2>1 DEF DataDoc
  <2>3. /\ DataDoc \notin run.lacks /\ run.got = StagedOrFinal(DataDoc) /\ run.got # Absent
      BY <2>1 DEF GotInv
  <2>4. StagedOrFinal(DataDoc)' = StagedOrFinal(DataDoc)
      BY <2>1, <2>2, <2>3, PromotedDoc DEF DataDoc, Doc
  <2>5. CASE "InRelease" \in run.lacks
    <3>1. DataDoc = "Release" /\ "Release" \in Doc
        BY <2>5 DEF DataDoc, Doc
    <3>2. live'["Release"] = run.got /\ ~ahead'
        BY <2>1, <2>3, <2>5, <3>1, PromotedDoc
    <3>. QED
        BY <2>2, <2>3, <2>4, <2>5, <3>2 DEF GotInv
  <2>6. CASE "InRelease" \notin run.lacks
      BY <2>1, <2>2, <2>3, <2>4, <2>6 DEF GotInv
  <2>. QED
      BY <2>5, <2>6
<1>22. CASE PublishInRelease
  <2>1. /\ Promote("InRelease") /\ run' = [run EXCEPT !.pc = "prune"]
        /\ accepted' = [accepted EXCEPT ![run.got] = Lacking] /\ ahead' = ahead
        /\ Chosen /\ run.pc = "publish InRelease"
      BY <1>22 DEF PublishInRelease, Goto, Chosen, Publishing
  <2>2. /\ run'.pc = "prune" /\ run'.got = run.got /\ Lacking' = Lacking /\ ~Chosen'
      BY <2>1 DEF Lacking, Chosen, Publishing
  <2>3. DataDoc \notin run.lacks /\ run.got = StagedOrFinal(DataDoc) /\ run.got # Absent
      BY <2>1 DEF GotInv
  <2>4. run.got \in Gen
      BY <2>3
  <2>5. accepted'[run.got] = Lacking
      BY <2>1, <2>4
  <2>6. /\ "InRelease" \in run.lacks => live'["InRelease"] = Absent \/ "InRelease" \in stuck'
        /\ "InRelease" \notin run.lacks => live'["InRelease"] = StagedOrFinal("InRelease")
        /\ live'["Release"] = live["Release"]
      BY <2>1, PromotedDoc DEF Doc
  <2>7. "InRelease" \in stuck' \/ Main' = run.got
    <3>1. CASE "InRelease" \in run.lacks
      <4>1. (live'["InRelease"] = Absent \/ "InRelease" \in stuck') /\ ~ahead /\ live["Release"] = run.got
          BY <2>1, <2>6, <3>1 DEF GotInv
      <4>. QED
          BY <2>1, <2>6, <4>1 DEF Main
    <3>2. CASE "InRelease" \notin run.lacks
        BY <2>3, <2>6, <3>2 DEF Main, DataDoc
    <3>. QED
        BY <3>1, <3>2
  <2>8. live'[DataDoc] = run.got
    <3>1. CASE "InRelease" \in run.lacks
        BY <2>1, <2>6, <3>1 DEF GotInv, DataDoc
    <3>2. CASE "InRelease" \notin run.lacks
        BY <2>3, <2>6, <3>2 DEF DataDoc
    <3>. QED
        BY <3>1, <3>2
  <2>9. ASSUME "InRelease" \in run.lacks PROVE ~ahead /\ live'["InRelease"] <= run.got
    <3>1. ~ahead /\ DataDoc = "Release"
        BY <2>1, <2>9 DEF GotInv, DataDoc
    <3>2. live["InRelease"] <= run.got
        BY <2>1, <2>3, <3>1, PastAll DEF DocInv, Publishing, Doc
    <3>3. live'["InRelease"] \in {Absent, live["InRelease"]}
        BY <2>1, <2>9, PromotedDoc DEF Doc
    <3>. QED
        BY <2>4, <3>1, <3>2, <3>3, GenIsNat DEF Absent
  <2>10. DataDoc' = DataDoc /\ run'.lacks = run.lacks
      BY <2>1 DEF DataDoc
  <2>. QED
      BY <2>1, <2>2, <2>3, <2>5, <2>7, <2>8, <2>9, <2>10 DEF GotInv
<1>23. CASE PublicationFails
    BY <1>23, GotUndecided DEF PublicationFails, Idle, Chosen, Publishing
<1>24. ASSUME NEW v \in Variant, PruneIndex(v) PROVE GotInv'
    BY <1>24, GotStays DEF PruneIndex, history
<1>25. ASSUME NEW v \in Variant, NEW n \in Issues, PruneName(v, n) PROVE GotInv'
    BY <1>25, GotStays DEF PruneName, history
<1>26. ASSUME NEW p \in Pool, PrunePoolFile(p) PROVE GotInv'
    BY <1>26, GotStays DEF PrunePoolFile, history
<1>27. CASE Finish
    BY <1>27, GotUndecided DEF Finish, Idle, Chosen, Publishing
<1>28. CASE Crash
    BY <1>28, GotUndecided DEF Crash, Idle, Chosen, Publishing
<1>29. CASE Rotate
    BY <1>29, GotStays DEF Rotate, history
<1>30. CASE UNCHANGED vars
    BY <1>30, GotStays DEF vars, history
<1>31. ASSUME NEW d \in Doc, PruneDoc(d) PROVE GotInv'
    BY <1>31, DocPruned
<1>. QED
    BY <1>1, <1>2, <1>3, <1>4, <1>5, <1>6, <1>7, <1>8, <1>9, <1>10, <1>11, <1>12, <1>13,
       <1>14, <1>15, <1>16, <1>17, <1>18, <1>19, <1>20, <1>21, <1>22, <1>23, <1>24, <1>25,
       <1>26, <1>27, <1>28, <1>29, <1>30, <1>31 DEF Next, Stage, Fetch, Publish, Prune

-----------------------------------------------------------------------------
(* The signatures *)
LEMMA SigFrame ==
    ASSUME SigInv, UNCHANGED <<conf, docs, torn, ahead, stuck>>, run'.lacks = run.lacks,
           InReleasePast' => InReleasePast, PairPast' => PairPast,
           Halfway' <=> Halfway, run'.pc \in {"publish InRelease", "prune"} => run'.pc = run.pc,
           Chosen' => Chosen /\ run'.got = run.got
    PROVE  SigInv'
BY DEF SigInv, PairChecked, StagedOrFinal, docs

(* A run that ends in the middle of the pair says so. *)
LEMMA SigAtRest ==
    ASSUME SigInv, UNCHANGED <<conf, live, ahead, stuck>>, run' = Idle, ~torn' => ~torn /\ ~Halfway
    PROVE  SigInv'
<1>1. run'.pc = "idle"
    BY DEF Idle
<1>2. ~InReleasePast' /\ ~PairPast' /\ ~Chosen' /\ ~Halfway'
    BY <1>1 DEF InReleasePast, PairPast, Chosen, Publishing, Halfway
<1>. QED
    BY <1>1, <1>2 DEF SigInv

LEMMA SigStep ==
    ASSUME TypeOK, DocInv, GotInv, SigInv, [Next]_vars
    PROVE  SigInv'
<1>. USE DEF TypeOK, RunState
<1>1. CASE Begin
    BY <1>1, SigFrame DEF Begin, Goto, history, InReleasePast, PairPast, Halfway, Chosen, Publishing
<1>2. ASSUME NEW d \in Doc, StageDoc(d) PROVE SigInv'
  <2>1. UNCHANGED <<conf, live, torn, ahead, stuck>> /\ run.pc = d /\ run'.pc = AfterDoc(d)
      BY <1>2 DEF StageDoc, history
  <2>2. /\ conf.mode # "off" => ~InReleasePast' /\ ~PairPast'
        /\ ~Chosen' /\ ~Halfway' /\ ~Halfway /\ run'.pc \notin {"publish InRelease", "prune"}
      BY <2>1 DEF AfterDoc, InReleasePast, PairPast, Chosen, Publishing, Halfway, Doc
  <2>. QED
      BY <2>1, <2>2 DEF SigInv
<1>3. ASSUME NEW d \in Doc, RefetchPair(d) PROVE SigInv'
  <2>1. /\ UNCHANGED <<conf, live, torn, ahead, stuck>> /\ Fetched(d, TRUE) /\ d # "InRelease"
        /\ run.pc \in {"again Release", "again Release.gpg"}
        /\ run'.pc \in {"again Release.gpg", "check Release.gpg"} /\ run'.lacks = Lacks(d)
      BY <1>3 DEF RefetchPair, history
  <2>2. ~PairPast' /\ ~Chosen' /\ ~Halfway' /\ ~Halfway /\ run'.pc \notin {"publish InRelease", "prune"}
        /\ InReleasePast
      BY <2>1 DEF InReleasePast, PairPast, Chosen, Publishing, Halfway
  <2>3. /\ "InRelease" \in run'.lacks <=> "InRelease" \in run.lacks
        /\ StagedOrFinal("InRelease")' = StagedOrFinal("InRelease")
    <3>1. "InRelease" \in run'.lacks <=> "InRelease" \in run.lacks
        BY <2>1 DEF Lacks
    <3>2. StagedOrFinal("InRelease")' = StagedOrFinal("InRelease")
        BY <2>1, FetchedDoc DEF Doc
    <3>. QED
        BY <3>1, <3>2
  <2>4. conf.mode # "off" =>
          "InRelease" \in run'.lacks \/ StagedOrFinal("InRelease")' \in Trusted
      BY <2>2, <2>3 DEF SigInv
  <2>5. conf' = conf /\ live' = live /\ torn' = torn /\ ahead' = ahead /\ stuck' = stuck
      BY <2>1
  <2>. QED
      BY <2>2, <2>4, <2>5 DEF SigInv
<1>4. CASE CheckInRelease
  <2>1. /\ UNCHANGED <<conf, docs, torn, ahead, stuck>> /\ run'.lacks = run.lacks
        /\ run.pc = "check InRelease" /\ run'.pc = "check Release.gpg"
        /\ "InRelease" \in run.lacks \/ StagedOrFinal("InRelease") \in Trusted
      BY <1>4 DEF CheckInRelease, history
  <2>2. ~PairPast' /\ ~Chosen' /\ ~Halfway' /\ ~Halfway /\ run'.pc \notin {"publish InRelease", "prune"}
      BY <2>1 DEF PairPast, Chosen, Publishing, Halfway
  <2>. QED
      BY <2>1, <2>2 DEF SigInv, StagedOrFinal, docs
<1>5. CASE RefetchInRelease
  <2>1. UNCHANGED <<conf, live, torn, ahead, stuck>> /\ run.pc = "check InRelease" /\ run'.pc = run.pc
      BY <1>5 DEF RefetchInRelease, history
  <2>2. ~InReleasePast' /\ ~PairPast' /\ ~Chosen' /\ ~Halfway' /\ ~Halfway
        /\ run'.pc \notin {"publish InRelease", "prune"}
      BY <2>1 DEF InReleasePast, PairPast, Chosen, Publishing, Halfway
  <2>. QED
      BY <2>1, <2>2 DEF SigInv
<1>6. CASE CheckRelease
  <2>1. /\ UNCHANGED <<conf, docs, torn, ahead, stuck>> /\ run'.lacks = run.lacks
        /\ run.pc = "check Release.gpg" /\ run'.pc = "select" /\ PairChecked
      BY <1>6 DEF CheckRelease, Goto, PairChecked, history
  <2>2. ~Chosen' /\ ~Halfway' /\ ~Halfway /\ run'.pc \notin {"publish InRelease", "prune"} /\ InReleasePast
      BY <2>1 DEF InReleasePast, Chosen, Publishing, Halfway
  <2>. QED
      BY <2>1, <2>2 DEF SigInv, PairChecked, StagedOrFinal, docs
<1>7. CASE BeginRefetchPair
    BY <1>7, SigFrame DEF BeginRefetchPair, history, InReleasePast, PairPast, Halfway, Chosen, Publishing
<1>8. CASE Select
  <2>1. /\ UNCHANGED <<conf, docs, torn, ahead, stuck>> /\ run'.lacks = run.lacks
        /\ run.pc = "select" /\ run'.pc = "indexes" /\ run'.got = StagedOrFinal(DataDoc) /\ ~Unusable
      BY <1>8 DEF Select, history
  <2>2. InReleasePast /\ PairPast /\ ~Halfway /\ ~Halfway'
      BY <2>1 DEF InReleasePast, PairPast, Halfway
  <2>3. ASSUME conf.mode = "required" PROVE run'.got \in Trusted
    <3>1. CASE "InRelease" \in run.lacks
      <4>1. "Release.gpg" \notin run.lacks
          BY <2>1, <2>3, <3>1 DEF Unusable
      <4>. QED
          BY <2>1, <2>2, <2>3, <3>1, <4>1 DEF SigInv, PairChecked, DataDoc
    <3>2. CASE "InRelease" \notin run.lacks
        BY <2>1, <2>2, <2>3, <3>2 DEF SigInv, DataDoc
    <3>. QED
        BY <3>1, <3>2
  <2>. QED
      BY <2>1, <2>2, <2>3 DEF SigInv, PairChecked, StagedOrFinal, docs
<1>9. CASE Fail
    BY <1>9, SigAtRest DEF Fail, Publishing, Halfway, history
<1>10. ASSUME NEW v \in Variant, KeepIndex(v) PROVE SigInv'
    BY <1>10, SigFrame DEF KeepIndex, Take, InReleasePast, PairPast, Halfway, Chosen, Publishing
<1>11. ASSUME NEW v \in Variant, StageIndex(v) PROVE SigInv'
    BY <1>11, SigFrame DEF StageIndex, Take, history, InReleasePast, PairPast, Halfway, Chosen, Publishing
<1>12. ASSUME NEW v \in Variant, MissIndex(v) PROVE SigInv'
    BY <1>12, SigFrame DEF MissIndex, Take, history, InReleasePast, PairPast, Halfway, Chosen, Publishing
<1>13. CASE IndexesDone
    BY <1>13, SigFrame DEF IndexesDone, history, InReleasePast, PairPast, Halfway, Chosen, Publishing
<1>14. ASSUME NEW p \in Pool, FetchPoolFile(p) PROVE SigInv'
    BY <1>14, SigFrame DEF FetchPoolFile, Take, history, InReleasePast, PairPast, Halfway, Chosen, Publishing
<1>15. ASSUME NEW p \in Pool, MissPoolFile(p) PROVE SigInv'
    BY <1>15, SigFrame DEF MissPoolFile, Take, history, InReleasePast, PairPast, Halfway, Chosen, Publishing
<1>16. CASE PoolDone
  <2>1. CASE run' = Idle
      BY <1>16, <2>1, SigAtRest DEF PoolDone, Halfway
  <2>2. CASE Promoting /\ staged' = staged
      BY <1>16, <2>2, SigFrame DEF PoolDone, Promoting, InReleasePast, PairPast, Halfway,
         Chosen, Publishing, docs
  <2>. QED
      BY <1>16, <2>1, <2>2 DEF PoolDone
<1>17. ASSUME NEW v \in Variant, PromoteIndex(v) PROVE SigInv'
    BY <1>17, SigFrame DEF PromoteIndex, InReleasePast, PairPast, Halfway, Chosen, Publishing
<1>18. ASSUME NEW v \in Variant, AddByHash(v) PROVE SigInv'
    BY <1>18, SigFrame DEF AddByHash, InReleasePast, PairPast, Halfway, Chosen, Publishing
<1>19. CASE IndexesPromoted
    BY <1>19, SigFrame DEF IndexesPromoted, Goto, history, InReleasePast, PairPast, Halfway, Chosen, Publishing
<1>20. CASE PublishSignature
  <2>1. /\ UNCHANGED <<conf, torn, ahead>> /\ run'.lacks = run.lacks /\ Promote("Release.gpg")
        /\ run.pc = "publish Release.gpg" /\ run'.pc = "publish Release" /\ run'.got = run.got
      BY <1>20 DEF PublishSignature, Goto
  <2>2. InReleasePast /\ PairPast /\ Chosen /\ ~PairPast' /\ Halfway'
      BY <2>1 DEF InReleasePast, PairPast, Chosen, Publishing, Halfway
  <2>3. /\ "Release.gpg" \in run.lacks => live'["Release.gpg"] = Absent \/ "Release.gpg" \in stuck'
        /\ "Release.gpg" \notin run.lacks => live'["Release.gpg"] = StagedOrFinal("Release.gpg")
        /\ \A e \in {"Release", "InRelease"} : /\ live'[e] = live[e]
                                               /\ StagedOrFinal(e)' = StagedOrFinal(e)
      BY <2>1, PromotedDoc DEF Doc
  <2>. QED
      BY <2>1, <2>2, <2>3 DEF SigInv, PairChecked
<1>21. CASE PublishRelease
  <2>1. /\ UNCHANGED <<conf, torn>> /\ run'.lacks = run.lacks /\ Promote("Release")
        /\ run.pc = "publish Release" /\ run'.pc = "publish InRelease" /\ run'.got = run.got
        /\ ahead' = ("InRelease" \notin run.lacks /\ live'["Release"] # run.got)
      BY <1>21 DEF PublishRelease, Goto
  <2>2. InReleasePast /\ Chosen /\ ~PairPast' /\ Halfway /\ ~Halfway'
      BY <2>1 DEF InReleasePast, PairPast, Chosen, Publishing, Halfway
  <2>3. /\ "Release" \notin run.lacks => live'["Release"] = StagedOrFinal("Release")
        /\ "Release" \in run.lacks => live'["Release"] \in {Absent, live["Release"]}
        /\ \A e \in {"Release.gpg", "InRelease"} : /\ live'[e] = live[e]
                                                   /\ StagedOrFinal(e)' = StagedOrFinal(e)
                                                   /\ e \in stuck' <=> e \in stuck
      BY <2>1, PromotedDoc DEF Doc
  <2>4. ~ahead' => live'["Release"] = run.got
    <3>1. CASE "InRelease" \in run.lacks
        BY <2>2, <2>3, <3>1 DEF GotInv, DataDoc
    <3>2. CASE "InRelease" \notin run.lacks
        BY <2>1, <3>2
    <3>. QED
        BY <3>1, <3>2
  <2>5. conf.mode # "off" => "Release.gpg" \in stuck' \/ live'["Release.gpg"] \in {live'["Release"], Absent}
    <3>1. CASE live["Release.gpg"] = Absent \/ "Release.gpg" \in stuck
        BY <2>3, <3>1
    <3>2. CASE "Release" \notin run.lacks /\ live["Release.gpg"] = StagedOrFinal("Release")
        BY <2>3, <3>2
    <3>. QED
        BY <2>2, <3>1, <3>2 DEF SigInv
  <2>6. conf.mode # "off" => "InRelease" \in run'.lacks \/ StagedOrFinal("InRelease")' \in Trusted
      BY <2>1, <2>2, <2>3 DEF SigInv, StagedOrFinal
  <2>7. conf.mode = "required" => /\ run'.got \in Trusted /\ live'["InRelease"] \in Trusted \cup {Absent}
                                  /\ ahead' \/ live'["Release"] \in Trusted \cup {Absent}
      BY <2>1, <2>2, <2>3, <2>4 DEF SigInv
  <2>8. conf.mode # "off" /\ "Release" \in run.lacks => "Release.gpg" \in stuck' \/ live'["Release.gpg"] = Absent
      BY <2>2, <2>3 DEF SigInv
  <2>. QED
      BY <2>1, <2>2, <2>5, <2>6, <2>7, <2>8 DEF SigInv
<1>22. CASE PublishInRelease
  <2>1. /\ conf' = conf /\ ahead' = ahead /\ run'.lacks = run.lacks /\ Promote("InRelease")
        /\ run.pc = "publish InRelease" /\ run'.pc = "prune"
      BY <1>22 DEF PublishInRelease, Goto
  <2>2. Chosen /\ ~Chosen' /\ ~InReleasePast' /\ ~PairPast' /\ ~Halfway'
      BY <2>1 DEF InReleasePast, PairPast, Chosen, Publishing, Halfway
  <2>3. /\ "InRelease" \notin run.lacks => live'["InRelease"] = StagedOrFinal("InRelease")
        /\ "InRelease" \in run.lacks => live'["InRelease"] \in {Absent, live["InRelease"]}
        /\ \A e \in {"Release.gpg", "Release"} : live'[e] = live[e] /\ (e \in stuck' <=> e \in stuck)
      BY <2>1, PromotedDoc DEF Doc
  <2>4. conf.mode = "required" => live'["InRelease"] \in Trusted \cup {Absent}
      BY <2>2, <2>3 DEF SigInv, GotInv, DataDoc
  <2>. QED
      BY <2>1, <2>2, <2>3, <2>4 DEF SigInv
<1>23. CASE PublicationFails
    BY <1>23, SigAtRest DEF PublicationFails
<1>24. ASSUME NEW v \in Variant, PruneIndex(v) PROVE SigInv'
    BY <1>24, SigFrame DEF PruneIndex, history, InReleasePast, PairPast, Halfway, Chosen, Publishing
<1>25. ASSUME NEW v \in Variant, NEW n \in Issues, PruneName(v, n) PROVE SigInv'
    BY <1>25, SigFrame DEF PruneName, history, InReleasePast, PairPast, Halfway, Chosen, Publishing
<1>26. ASSUME NEW p \in Pool, PrunePoolFile(p) PROVE SigInv'
    BY <1>26, SigFrame DEF PrunePoolFile, history, InReleasePast, PairPast, Halfway, Chosen, Publishing
<1>27. CASE Finish
    BY <1>27, SigAtRest DEF Finish, Halfway, docs, history
<1>28. CASE Crash
    BY <1>28, SigAtRest DEF Crash, docs
<1>29. CASE Rotate
    BY <1>29, SigFrame DEF Rotate, history, InReleasePast, PairPast, Halfway, Chosen, Publishing
<1>30. CASE UNCHANGED vars
    BY <1>30, SigFrame DEF vars, history, InReleasePast, PairPast, Halfway, Chosen, Publishing
<1>31. ASSUME NEW d \in Doc, PruneDoc(d) PROVE SigInv'
  <2>1. /\ UNCHANGED <<conf, torn, ahead, run>> /\ run.pc = "prune" /\ d \in run.lacks
        /\ live' = [live EXCEPT ![d] = Absent] /\ stuck' = stuck \ {d}
      BY <1>31 DEF PruneDoc
  <2>2. ~InReleasePast' /\ ~PairPast' /\ ~Halfway' /\ ~Chosen' /\ ~Halfway
      BY <2>1 DEF InReleasePast, PairPast, Chosen, Publishing, Halfway
  <2>3. /\ \A e \in Doc : e # d => live'[e] = live[e] /\ (e \in stuck' <=> e \in stuck)
        /\ live'[d] = Absent /\ {"InRelease", "Release", "Release.gpg"} = Doc
      BY <2>1 DEF Doc
  <2>4. conf.mode # "off" /\ "Release" \in run.lacks => "Release.gpg" \in stuck' \/ live'["Release.gpg"] = Absent
      BY <2>1, <2>3 DEF SigInv
  <2>5. conf.mode # "off" /\ ~torn => "Release.gpg" \in stuck' \/ live'["Release.gpg"] \in {live'["Release"], Absent}
    <3>1. CASE d = "Release"
        BY <2>1, <2>4, <3>1
    <3>2. CASE d # "Release"
        BY <2>1, <2>2, <2>3, <3>2 DEF SigInv
    <3>. QED
        BY <3>1, <3>2
  <2>6. conf.mode = "required" => /\ live'["InRelease"] \in Trusted \cup {Absent}
                                  /\ ahead \/ live'["Release"] \in Trusted \cup {Absent}
      BY <2>3 DEF SigInv
  <2>. QED
      BY <2>1, <2>2, <2>4, <2>5, <2>6 DEF SigInv
<1>. QED
    BY <1>1, <1>2, <1>3, <1>4, <1>5, <1>6, <1>7, <1>8, <1>9, <1>10, <1>11, <1>12, <1>13,
       <1>14, <1>15, <1>16, <1>17, <1>18, <1>19, <1>20, <1>21, <1>22, <1>23, <1>24, <1>25,
       <1>26, <1>27, <1>28, <1>29, <1>30, <1>31 DEF Next, Stage, Fetch, Publish, Prune

LEMMA SigInvMatches == SigInv /\ GotInv => SignatureMatches
BY DEF SigInv, GotInv, SignatureMatches, Main

-----------------------------------------------------------------------------
(* The indexes *)
LEMMA IndexFrame ==
    ASSUME IndexInv, UNCHANGED <<conf, index, next, byhash, flawed>>,
           run'.unserved = run.unserved, run'.got = run.got, run'.naming = run.naming,
           run'.todo = run.todo \/ run.pc # "promote",
           \/ run'.pc = run.pc /\ run.pc # "indexes"
           \/ /\ run'.pc \notin {"indexes", "pool", "promote"} /\ Gathered
              /\ run.naming = {} /\ (run.pc = "promote" => run.todo = {})
    PROVE  IndexInv'
<1>1. Gathered' => Gathered
    BY DEF Gathered, Publishing
<1>2. Listed' = Listed
    BY DEF Listed
<1>3. \A v \in Variant : (Has(v)' <=> Has(v)) /\ next'[v] = next[v]
    BY <1>2 DEF Has, Read
<1>. QED
    BY <1>1, <1>2, <1>3 DEF IndexInv

(* Before a generation is chosen nothing is said of the indexes, but that a  *)
(* digest's name holds what it should.                                       *)
LEMMA IndexUndecided ==
    ASSUME IndexInv, run'.pc \notin {"indexes", "pool"}, ~Gathered', run'.naming = {},
           ~flawed' => ~flawed /\ byhash' = byhash
    PROVE  IndexInv'
BY DEF IndexInv, Gathered

LEMMA IndexStep ==
    ASSUME TypeOK, GotInv, IndexInv, PoolInv, [Next]_vars
    PROVE  IndexInv'
<1>. USE DEF TypeOK, RunState
<1>1. CASE Begin
  <2>1. run.naming = {} /\ run'.naming = run.naming /\ UNCHANGED <<byhash, flawed>>
      BY <1>1 DEF Begin, Goto, IndexInv, files, history
  <2>2. run'.pc \notin {"indexes", "pool"} /\ ~Gathered'
      BY <1>1 DEF Begin, Goto, Gathered, Publishing
  <2>. QED
      BY <2>1, <2>2, IndexUndecided
<1>2. ASSUME NEW d \in Doc, StageDoc(d) PROVE IndexInv'
  <2>1. run.naming = {} /\ run'.naming = run.naming /\ UNCHANGED <<byhash, flawed>>
      BY <1>2 DEF StageDoc, AfterDoc, Doc, IndexInv, files, history
  <2>2. run'.pc \notin {"indexes", "pool"} /\ ~Gathered'
      BY <1>2 DEF StageDoc, AfterDoc, Doc, Gathered, Publishing
  <2>. QED
      BY <2>1, <2>2, IndexUndecided
<1>3. ASSUME NEW d \in Doc, RefetchPair(d) PROVE IndexInv'
  <2>1. run.naming = {} /\ run'.naming = run.naming /\ UNCHANGED <<byhash, flawed>>
      BY <1>3 DEF RefetchPair, IndexInv, files, history
  <2>2. run'.pc \notin {"indexes", "pool"} /\ ~Gathered'
      BY <1>3 DEF RefetchPair, Gathered, Publishing
  <2>. QED
      BY <2>1, <2>2, IndexUndecided
<1>4. CASE CheckInRelease
  <2>1. run.naming = {} /\ run'.naming = run.naming /\ UNCHANGED <<byhash, flawed>>
      BY <1>4 DEF CheckInRelease, IndexInv, files, history
  <2>2. run'.pc \notin {"indexes", "pool"} /\ ~Gathered'
      BY <1>4 DEF CheckInRelease, Gathered, Publishing
  <2>. QED
      BY <2>1, <2>2, IndexUndecided
<1>5. CASE RefetchInRelease
  <2>1. run.naming = {} /\ run'.naming = run.naming /\ UNCHANGED <<byhash, flawed>>
      BY <1>5 DEF RefetchInRelease, IndexInv, files, history
  <2>2. run'.pc \notin {"indexes", "pool"} /\ ~Gathered'
      BY <1>5 DEF RefetchInRelease, Gathered, Publishing
  <2>. QED
      BY <2>1, <2>2, IndexUndecided
<1>6. CASE CheckRelease
  <2>1. run.naming = {} /\ run'.naming = run.naming /\ UNCHANGED <<byhash, flawed>>
      BY <1>6 DEF CheckRelease, Goto, IndexInv, files, history
  <2>2. run'.pc \notin {"indexes", "pool"} /\ ~Gathered'
      BY <1>6 DEF CheckRelease, Goto, Gathered, Publishing
  <2>. QED
      BY <2>1, <2>2, IndexUndecided
<1>7. CASE BeginRefetchPair
  <2>1. run.naming = {} /\ run'.naming = run.naming /\ UNCHANGED <<byhash, flawed>>
      BY <1>7 DEF BeginRefetchPair, IndexInv, files, history
  <2>2. run'.pc \notin {"indexes", "pool"} /\ ~Gathered'
      BY <1>7 DEF BeginRefetchPair, Gathered, Publishing
  <2>. QED
      BY <2>1, <2>2, IndexUndecided
<1>8. CASE Select
  <2>1. /\ run'.pc = "indexes" /\ run'.todo = Variant /\ run'.naming = run.naming
        /\ run.pc = "select" /\ UNCHANGED <<byhash, flawed>>
      BY <1>8 DEF Select, files, history
  <2>2. run.naming = {} /\ ~Gathered'
      BY <2>1 DEF IndexInv, Gathered, Publishing
  <2>. QED
      BY <2>1, <2>2 DEF IndexInv
<1>9. CASE Fail
    BY <1>9, IndexUndecided DEF Fail, files, history, Idle, Gathered, Publishing
<1>10. ASSUME NEW v \in Variant, KeepIndex(v) PROVE IndexInv'
  <2>1. run.pc = "indexes"
    <3>1. Take(v) /\ v \notin Pool
        BY <1>10, DebSyncAssumption DEF KeepIndex
    <3>. QED
        BY <3>1 DEF Take, PoolInv
  <2>2. /\ run'.pc = "indexes" /\ run'.todo = run.todo \ {v} /\ run'.naming = run.naming
        /\ run'.got = run.got /\ UNCHANGED <<index, byhash>>
        /\ flawed' = (flawed \/ index[v] # Listed) /\ InPlace(v)
        /\ next' = [next EXCEPT ![v] = Absent] /\ run'.unserved = run.unserved
      BY <1>10, <2>1 DEF KeepIndex, history
  <2>3. Listed \in Issues /\ Listed' = Listed
      BY <2>1, <2>2, GotIsGen DEF Chosen, Listed
  <2>4. Has(v)'
    <3>1. index[v] # Absent
        BY <2>2 DEF InPlace
    <3>2. ~flawed' => index[v] = Listed
        BY <2>2
    <3>. QED
        BY <2>2, <2>3, <3>1, <3>2 DEF Has, Read
  <2>5. \A w \in Variant : w # v /\ Has(w) => Has(w)'
      BY <2>2, <2>3 DEF Has, Read
  <2>6. run.naming = {} /\ ~Gathered'
      BY <2>1, <2>2 DEF IndexInv, Gathered, Publishing
  <2>7. ~flawed' => ~flawed
      BY <2>2
  <2>. QED
      BY <2>1, <2>2, <2>4, <2>5, <2>6, <2>7 DEF IndexInv
<1>11. ASSUME NEW v \in Variant, StageIndex(v) PROVE IndexInv'
  <2>1. run.pc = "indexes"
    <3>1. Take(v) /\ v \notin Pool
        BY <1>11, DebSyncAssumption DEF StageIndex
    <3>. QED
        BY <3>1 DEF Take, PoolInv
  <2>2. /\ run'.pc = "indexes" /\ run'.todo = run.todo \ {v} /\ run'.naming = run.naming
        /\ run'.got = run.got /\ UNCHANGED <<index, byhash>>
        /\ flawed' = flawed
        /\ next' = [next EXCEPT ![v] = Listed] /\ run'.unserved = run.unserved
      BY <1>11, <2>1 DEF StageIndex, history
  <2>3. Listed \in Issues /\ Listed' = Listed
      BY <2>1, <2>2, GotIsGen DEF Chosen, Listed
  <2>4. Has(v)'
      BY <2>2, <2>3, IssuesAre DEF Has, Read
  <2>5. \A w \in Variant : w # v /\ Has(w) => Has(w)'
      BY <2>2, <2>3 DEF Has, Read
  <2>6. run.naming = {} /\ ~Gathered'
      BY <2>1, <2>2 DEF IndexInv, Gathered, Publishing
  <2>7. ~flawed' => ~flawed
      BY <2>2
  <2>. QED
      BY <2>1, <2>2, <2>4, <2>5, <2>6, <2>7 DEF IndexInv
<1>12. ASSUME NEW v \in Variant, MissIndex(v) PROVE IndexInv'
  <2>1. run.pc = "indexes"
    <3>1. Take(v) /\ v \notin Pool
        BY <1>12, DebSyncAssumption DEF MissIndex
    <3>. QED
        BY <3>1 DEF Take, PoolInv
  <2>2. /\ run'.pc = "indexes" /\ run'.todo = run.todo \ {v} /\ run'.naming = run.naming
        /\ run'.got = run.got /\ UNCHANGED <<index, byhash>>
        /\ flawed' = flawed
        /\ next' = [next EXCEPT ![v] = Absent] /\ run'.unserved = run.unserved \cup {v}
      BY <1>12, <2>1 DEF MissIndex, history
  <2>3. Listed \in Issues /\ Listed' = Listed
      BY <2>1, <2>2, GotIsGen DEF Chosen, Listed
  <2>4. v \in run'.unserved
      BY <2>2
  <2>5. \A w \in Variant : w # v /\ Has(w) => Has(w)'
      BY <2>2, <2>3 DEF Has, Read
  <2>6. run.naming = {} /\ ~Gathered'
      BY <2>1, <2>2 DEF IndexInv, Gathered, Publishing
  <2>7. ~flawed' => ~flawed
      BY <2>2
  <2>. QED
      BY <2>1, <2>2, <2>4, <2>5, <2>6, <2>7 DEF IndexInv
<1>13. CASE IndexesDone
  <2>1. /\ run.pc = "indexes" /\ run.todo = {} /\ run'.pc = "pool" /\ run'.naming = run.naming
        /\ run'.unserved = run.unserved /\ run'.got = run.got
        /\ UNCHANGED <<index, next, byhash, flawed>>
      BY <1>13 DEF IndexesDone, files, history
  <2>2. run.naming = {} /\ ~Gathered'
      BY <2>1 DEF IndexInv, Gathered, Publishing
  <2>3. \A v \in Variant : Has(v)' <=> Has(v)
      BY <2>1 DEF Has, Read, Listed
  <2>. QED
      BY <2>1, <2>2, <2>3 DEF IndexInv
<1>14. ASSUME NEW p \in Pool, FetchPoolFile(p) PROVE IndexInv'
  <2>1. run.pc = "pool"
    <3>1. Take(p) /\ p \notin Variant
        BY <1>14, DebSyncAssumption DEF FetchPoolFile
    <3>. QED
        BY <3>1 DEF Take, IndexInv
  <2>. QED
      BY <1>14, <2>1, IndexFrame DEF FetchPoolFile, files, history
<1>15. ASSUME NEW p \in Pool, MissPoolFile(p) PROVE IndexInv'
  <2>1. run.pc = "pool"
    <3>1. Take(p) /\ p \notin Variant
        BY <1>15, DebSyncAssumption DEF MissPoolFile
    <3>. QED
        BY <3>1 DEF Take, IndexInv
  <2>. QED
      BY <1>15, <2>1, IndexFrame DEF MissPoolFile, files, history, files, history
<1>16. CASE PoolDone
  <2>1. run.pc = "pool" /\ run.naming = {} /\ UNCHANGED <<index, next, byhash, flawed>>
      BY <1>16 DEF PoolDone, IndexInv, files
  <2>2. CASE run' = Idle
      BY <2>1, <2>2, IndexUndecided DEF Idle, Gathered, Publishing
  <2>3. CASE Promoting
    <3>1. /\ run'.pc = "promote" /\ run'.todo = Variant \ run.unserved
          /\ run'.unserved = run.unserved /\ run'.got = run.got /\ run'.naming = {}
        BY <2>1, <2>3 DEF Promoting
    <3>2. \A v \in Variant : Has(v)' <=> Has(v)
        BY <2>1, <3>1 DEF Has, Read, Listed
    <3>. QED
        BY <2>1, <3>1, <3>2 DEF IndexInv
  <2>. QED
      BY <1>16, <2>2, <2>3 DEF PoolDone
<1>17. ASSUME NEW v \in Variant, PromoteIndex(v) PROVE IndexInv'
  <2>1. /\ run.pc = "promote" /\ v \in run.todo /\ run.naming = {}
        /\ index' = [index EXCEPT ![v] = IF next[v] # Absent THEN next[v] ELSE @]
        /\ next' = [next EXCEPT ![v] = Absent] /\ UNCHANGED <<conf, byhash, flawed>>
      BY <1>17 DEF PromoteIndex
  <2>2. /\ run'.pc = "promote" /\ run'.todo = run.todo \ {v} /\ run'.naming = {v}
        /\ run'.unserved = run.unserved /\ run'.got = run.got
      BY <1>17 DEF PromoteIndex
  <2>3. Gathered /\ Listed' = Listed /\ v \in Variant \ run.unserved
      BY <2>1, <2>2 DEF IndexInv, Gathered, Listed
  <2>4. \A w \in Variant : Read(w)' = Read(w) /\ (Has(w)' <=> Has(w))
    <3>1. \A w \in Variant : Read(w)' = Read(w)
        BY <2>1 DEF Read
    <3>. QED
        BY <2>1, <2>3, <3>1 DEF Has
  <2>5. \A w \in Variant : w # v => next'[w] = next[w]
      BY <2>1
  <2>6. next'[v] = Absent
      BY <2>1
  <2>. QED
      BY <2>1, <2>2, <2>3, <2>4, <2>5, <2>6 DEF IndexInv
<1>18. ASSUME NEW v \in Variant, AddByHash(v) PROVE IndexInv'
  <2>1. /\ run.pc = "promote" /\ v \in run.naming /\ UNCHANGED <<conf, index, next>>
        /\ run'.pc = "promote" /\ run'.naming = {} /\ run'.todo = run.todo
        /\ run'.unserved = run.unserved /\ run'.got = run.got
      BY <1>18 DEF AddByHash
  <2>2. /\ Gathered /\ Listed \in Issues /\ Listed' = Listed
        /\ v \in Variant \ (run.unserved \cup run.todo) /\ run.naming = {v}
      BY <2>1, GotIsGen DEF IndexInv, Gathered, Chosen, Listed
  <2>3. next[v] = Absent /\ Has(v)
      BY <2>1, <2>2 DEF IndexInv
  <2>4. index[v] # Absent /\ (flawed \/ index[v] = Listed)
      BY <2>3 DEF Has, Read
  <2>5. ~flawed' => ~flawed
      BY <1>18 DEF AddByHash
  <2>6. ~flawed' =>
            /\ \A w \in Variant, n \in Issues :
                  byhash'[w][n] = byhash[w][n] \/ (w = v /\ n = Listed /\ byhash'[w][n] = Listed)
            /\ conf.nested => byhash'[v][Listed] = Listed
    <3>1. CASE (~conf.nested \/ byhash[v][Listed] # Absent) /\ UNCHANGED <<byhash, flawed>>
      <4>1. ~flawed /\ conf.nested => byhash[v][Listed] = Listed
          BY <2>2, <3>1 DEF IndexInv
      <4>. QED
          BY <3>1, <4>1
    <3>2. CASE byhash' = [byhash EXCEPT ![v][Listed] = index[v]] /\ flawed' = flawed
      <4>1. byhash'[v][Listed] = index[v] /\ (~flawed' => index[v] = Listed)
          BY <2>2, <2>4, <3>2
      <4>2. \A w \in Variant, n \in Issues : w # v \/ n # Listed => byhash'[w][n] = byhash[w][n]
          BY <2>2, <3>2
      <4>. QED
          BY <4>1, <4>2
    <3>3. CASE flawed' = TRUE
        BY <3>3
    <3>. QED
        BY <1>18, <3>1, <3>2, <3>3 DEF AddByHash
  <2>7. \A w \in Variant : (Has(w) => Has(w)') /\ next'[w] = next[w]
    <3>1. flawed => flawed'
        BY <2>5
    <3>. QED
        BY <2>1, <2>2, <3>1 DEF Has, Read
  <2>8. Gathered'
      BY <2>1 DEF Gathered
  <2>. QED
      BY <2>1, <2>2, <2>5, <2>6, <2>7, <2>8 DEF IndexInv
<1>19. CASE IndexesPromoted
  <2>1. run.naming = {} /\ Gathered
      BY <1>19 DEF IndexesPromoted, IndexInv, Gathered, Publishing
  <2>. QED
      BY <1>19, <2>1, IndexFrame DEF IndexesPromoted, Goto, files, history, history
<1>20. CASE PublishSignature
  <2>1. run.naming = {} /\ Gathered
      BY <1>20 DEF PublishSignature, IndexInv, Gathered, Publishing
  <2>. QED
      BY <1>20, <2>1, IndexFrame DEF PublishSignature, Goto, files, history, history
<1>21. CASE PublishRelease
  <2>1. run.naming = {} /\ Gathered
      BY <1>21 DEF PublishRelease, IndexInv, Gathered, Publishing
  <2>. QED
      BY <1>21, <2>1, IndexFrame DEF PublishRelease, Goto, files, history
<1>22. CASE PublishInRelease
  <2>1. run.naming = {} /\ Gathered
      BY <1>22 DEF PublishInRelease, IndexInv, Gathered, Publishing
  <2>. QED
      BY <1>22, <2>1, IndexFrame DEF PublishInRelease, Goto, files, history
<1>23. CASE PublicationFails
    BY <1>23, IndexUndecided DEF PublicationFails, files, Idle, Gathered, Publishing
<1>24. ASSUME NEW v \in Variant, PruneIndex(v) PROVE IndexInv'
  <2>1. run.pc = "prune" /\ UNCHANGED <<conf, byhash, run, flawed>> /\ Gathered /\ Gathered'
      BY <1>24 DEF PruneIndex, history, Gathered
  <2>2. \A w \in Variant \ run.unserved : index'[w] = index[w] /\ next[w] = Absent /\ next'[w] = Absent
      BY <1>24, <2>1 DEF PruneIndex, IndexInv
  <2>3. \A w \in Variant \ run.unserved : Has(w)' <=> Has(w)
      BY <2>1, <2>2 DEF Has, Read, Listed
  <2>. QED
      BY <2>1, <2>2, <2>3 DEF IndexInv, Listed
<1>25. ASSUME NEW v \in Variant, NEW n \in Issues, PruneName(v, n) PROVE IndexInv'
  <2>1. run.pc = "prune" /\ UNCHANGED <<conf, index, next, run, flawed>> /\ Gathered /\ Gathered'
      BY <1>25 DEF PruneName, history, Gathered
  <2>2. \A w \in Variant : (Has(w)' <=> Has(w)) /\ next'[w] = next[w]
      BY <2>1 DEF Has, Read, Listed
  <2>3. conf.nested => \A w \in Variant \ run.unserved : byhash'[w][Listed] = byhash[w][Listed]
      BY <1>25 DEF PruneName, KeptName
  <2>4. \A w \in Variant, m \in Issues : byhash'[w][m] \in {byhash[w][m], Absent}
      BY <1>25 DEF PruneName
  <2>5. Listed' = Listed
      BY <2>1 DEF Listed
  <2>. QED
      BY <2>1, <2>2, <2>3, <2>4, <2>5 DEF IndexInv
<1>26. ASSUME NEW p \in Pool, PrunePoolFile(p) PROVE IndexInv'
  <2>1. UNCHANGED <<conf, index, next, byhash, flawed, run>>
      BY <1>26 DEF PrunePoolFile, history
  <2>2. \A v \in Variant : Has(v)' <=> Has(v)
      BY <2>1 DEF Has, Read, Listed
  <2>. QED
      BY <2>1, <2>2 DEF IndexInv, Gathered, Publishing, Listed
<1>27. CASE Finish
    BY <1>27, IndexUndecided DEF Finish, files, history, Idle, Gathered, Publishing
<1>28. CASE Crash
  <2>1. ~flawed' => ~flawed /\ byhash' = byhash
      BY <1>28 DEF Crash
  <2>. QED
      BY <1>28, <2>1, IndexUndecided DEF Crash, Idle, Gathered, Publishing
<1>29. CASE Rotate
  <2>1. UNCHANGED <<conf, index, next, byhash, flawed, run>>
      BY <1>29 DEF Rotate, files, history
  <2>2. \A v \in Variant : Has(v)' <=> Has(v)
      BY <2>1 DEF Has, Read, Listed
  <2>. QED
      BY <2>1, <2>2 DEF IndexInv, Gathered, Publishing, Listed
<1>30. CASE UNCHANGED vars
  <2>1. UNCHANGED <<conf, index, next, byhash, flawed, run>>
      BY <1>30 DEF vars, files, history
  <2>2. \A v \in Variant : Has(v)' <=> Has(v)
      BY <2>1 DEF Has, Read, Listed
  <2>. QED
      BY <2>1, <2>2 DEF IndexInv, Gathered, Publishing, Listed
<1>31. ASSUME NEW d \in Doc, PruneDoc(d) PROVE IndexInv'
  <2>1. UNCHANGED <<conf, index, next, byhash, flawed, run>>
      BY <1>31 DEF PruneDoc, files
  <2>2. \A v \in Variant : Has(v)' <=> Has(v)
      BY <2>1 DEF Has, Read, Listed
  <2>. QED
      BY <2>1, <2>2 DEF IndexInv, Gathered, Publishing, Listed
<1>. QED
    BY <1>1, <1>2, <1>3, <1>4, <1>5, <1>6, <1>7, <1>8, <1>9, <1>10, <1>11, <1>12, <1>13,
       <1>14, <1>15, <1>16, <1>17, <1>18, <1>19, <1>20, <1>21, <1>22, <1>23, <1>24, <1>25,
       <1>26, <1>27, <1>28, <1>29, <1>30, <1>31 DEF Next, Stage, Fetch, Publish, Prune

-----------------------------------------------------------------------------
(* The pool files *)
LEMMA PoolFrame ==
    ASSUME PoolInv, UNCHANGED <<conf, pool, budget, accepted>>, flawed => flawed',
           run'.unserved = run.unserved, run'.gone = run.gone, run'.got = run.got,
           run'.auth = run.auth, run' = run \/ (Gathered /\ Gathered' /\ run'.pc # "pool"),
           Chosen' => Chosen
    PROVE  PoolInv'
<1>1. Listed' = Listed /\ Lacking' = Lacking
    BY DEF Listed, Lacking
<1>2. CASE run' = run
  <2>1. run'.pc = run.pc /\ run'.todo = run.todo /\ (Gathered' <=> Gathered)
      BY <1>2 DEF Gathered, Publishing
  <2>. QED
      BY <1>1, <2>1 DEF PoolInv
<1>3. CASE Gathered /\ Gathered' /\ run'.pc # "pool"
    BY <1>1, <1>3 DEF PoolInv
<1>. QED
    BY <1>2, <1>3

LEMMA PoolUndecided ==
    ASSUME run'.pc # "pool", ~Gathered', run'.gone = {}
    PROVE  PoolInv'
BY DEF PoolInv

LEMMA PoolStep ==
    ASSUME TypeOK, GotInv, IndexInv, PoolInv, [Next]_vars
    PROVE  PoolInv'
<1>. USE DEF TypeOK, RunState
<1>1. CASE Begin
  <2>1. run.gone = {} /\ run'.gone = run.gone
      BY <1>1 DEF Begin, Goto, PoolInv, Gathered, Publishing
  <2>2. run'.pc # "pool" /\ ~Gathered'
      BY <1>1 DEF Begin, Goto, Gathered, Publishing
  <2>. QED
      BY <2>1, <2>2, PoolUndecided
<1>2. ASSUME NEW d \in Doc, StageDoc(d) PROVE PoolInv'
  <2>1. run.gone = {} /\ run'.gone = run.gone
      BY <1>2 DEF StageDoc, AfterDoc, Doc, PoolInv, Gathered, Publishing
  <2>2. run'.pc # "pool" /\ ~Gathered'
      BY <1>2 DEF StageDoc, AfterDoc, Doc, Gathered, Publishing
  <2>. QED
      BY <2>1, <2>2, PoolUndecided
<1>3. ASSUME NEW d \in Doc, RefetchPair(d) PROVE PoolInv'
  <2>1. run.gone = {} /\ run'.gone = run.gone
      BY <1>3 DEF RefetchPair, PoolInv, Gathered, Publishing
  <2>2. run'.pc # "pool" /\ ~Gathered'
      BY <1>3 DEF RefetchPair, Gathered, Publishing
  <2>. QED
      BY <2>1, <2>2, PoolUndecided
<1>4. CASE CheckInRelease
  <2>1. run.gone = {} /\ run'.gone = run.gone
      BY <1>4 DEF CheckInRelease, PoolInv, Gathered, Publishing
  <2>2. run'.pc # "pool" /\ ~Gathered'
      BY <1>4 DEF CheckInRelease, Gathered, Publishing
  <2>. QED
      BY <2>1, <2>2, PoolUndecided
<1>5. CASE RefetchInRelease
  <2>1. run.gone = {} /\ run'.gone = run.gone
      BY <1>5 DEF RefetchInRelease, PoolInv, Gathered, Publishing
  <2>2. run'.pc # "pool" /\ ~Gathered'
      BY <1>5 DEF RefetchInRelease, Gathered, Publishing
  <2>. QED
      BY <2>1, <2>2, PoolUndecided
<1>6. CASE CheckRelease
  <2>1. run.gone = {} /\ run'.gone = run.gone
      BY <1>6 DEF CheckRelease, Goto, PoolInv, Gathered, Publishing
  <2>2. run'.pc # "pool" /\ ~Gathered'
      BY <1>6 DEF CheckRelease, Goto, Gathered, Publishing
  <2>. QED
      BY <2>1, <2>2, PoolUndecided
<1>7. CASE BeginRefetchPair
  <2>1. run.gone = {} /\ run'.gone = run.gone
      BY <1>7 DEF BeginRefetchPair, PoolInv, Gathered, Publishing
  <2>2. run'.pc # "pool" /\ ~Gathered'
      BY <1>7 DEF BeginRefetchPair, Gathered, Publishing
  <2>. QED
      BY <2>1, <2>2, PoolUndecided
<1>8. CASE Select
  <2>1. run.gone = {} /\ run'.gone = run.gone
      BY <1>8 DEF Select, PoolInv, Gathered, Publishing
  <2>2. run'.pc # "pool" /\ ~Gathered'
      BY <1>8 DEF Select, Gathered, Publishing
  <2>. QED
      BY <2>1, <2>2, PoolUndecided
<1>9. CASE Fail
    BY <1>9, PoolUndecided DEF Fail, Idle, Gathered, Publishing
<1>10. ASSUME NEW v \in Variant, KeepIndex(v) PROVE PoolInv'
  <2>1. run.pc = "indexes"
    <3>1. Take(v) /\ v \notin Pool
        BY <1>10, DebSyncAssumption DEF KeepIndex
    <3>. QED
        BY <3>1 DEF Take, PoolInv
  <2>2. run.gone = {} /\ run'.gone = run.gone /\ run'.pc = "indexes"
      BY <1>10, <2>1 DEF KeepIndex, PoolInv, Gathered, Publishing
  <2>. QED
      BY <2>2, PoolUndecided DEF Gathered, Publishing
<1>11. ASSUME NEW v \in Variant, StageIndex(v) PROVE PoolInv'
  <2>1. run.pc = "indexes"
    <3>1. Take(v) /\ v \notin Pool
        BY <1>11, DebSyncAssumption DEF StageIndex
    <3>. QED
        BY <3>1 DEF Take, PoolInv
  <2>2. run.gone = {} /\ run'.gone = run.gone /\ run'.pc = "indexes"
      BY <1>11, <2>1 DEF StageIndex, PoolInv, Gathered, Publishing
  <2>. QED
      BY <2>2, PoolUndecided DEF Gathered, Publishing
<1>12. ASSUME NEW v \in Variant, MissIndex(v) PROVE PoolInv'
  <2>1. run.pc = "indexes"
    <3>1. Take(v) /\ v \notin Pool
        BY <1>12, DebSyncAssumption DEF MissIndex
    <3>. QED
        BY <3>1 DEF Take, PoolInv
  <2>2. run.gone = {} /\ run'.gone = run.gone /\ run'.pc = "indexes"
      BY <1>12, <2>1 DEF MissIndex, PoolInv, Gathered, Publishing
  <2>. QED
      BY <2>2, PoolUndecided DEF Gathered, Publishing
<1>13. CASE IndexesDone
  <2>1. /\ run.pc = "indexes" /\ run.todo = {} /\ run'.pc = "pool" /\ run'.todo = Wanted
        /\ run'.unserved = run.unserved /\ run'.gone = run.gone /\ run'.got = run.got
        /\ UNCHANGED <<flawed, pool>>
      BY <1>13 DEF IndexesDone, files, history
  <2>2. Wanted \subseteq Pool
      BY <2>1, WantedType
  <2>3. ~flawed /\ run.unserved # Variant => Wanted = Lists[Listed]
      BY <2>1, WantedIsListed DEF IndexInv
  <2>4. run.gone = {} /\ ~Gathered' /\ Listed' = Listed
      BY <2>1 DEF PoolInv, Gathered, Publishing, Listed
  <2>. QED
      BY <2>1, <2>2, <2>3, <2>4 DEF PoolInv
<1>14. ASSUME NEW p \in Pool, FetchPoolFile(p) PROVE PoolInv'
  <2>1. run.pc = "pool"
    <3>1. Take(p) /\ p \notin Variant
        BY <1>14, DebSyncAssumption DEF FetchPoolFile
    <3>. QED
        BY <3>1 DEF Take, IndexInv
  <2>2. /\ run'.pc = "pool" /\ run'.todo = run.todo \ {p} /\ run'.unserved = run.unserved
        /\ run'.got = run.got /\ UNCHANGED <<conf, flawed>>
        /\ pool' = pool \cup {p} /\ run'.gone = run.gone
      BY <1>14, <2>1 DEF FetchPoolFile, files, history
  <2>3. ~Gathered' /\ Listed' = Listed
      BY <2>2 DEF Gathered, Publishing, Listed
  <2>. QED
      BY <2>1, <2>2, <2>3 DEF PoolInv
<1>15. ASSUME NEW p \in Pool, MissPoolFile(p) PROVE PoolInv'
  <2>1. run.pc = "pool"
    <3>1. Take(p) /\ p \notin Variant
        BY <1>15, DebSyncAssumption DEF MissPoolFile
    <3>. QED
        BY <3>1 DEF Take, IndexInv
  <2>2. /\ run'.pc = "pool" /\ run'.todo = run.todo \ {p} /\ run'.unserved = run.unserved
        /\ run'.got = run.got /\ UNCHANGED <<conf, flawed>>
        /\ pool' = pool /\ run'.gone = run.gone \cup {p} /\ conf.missing # "fail"
      BY <1>15, <2>1 DEF MissPoolFile, files, history
  <2>3. ~Gathered' /\ Listed' = Listed
      BY <2>2 DEF Gathered, Publishing, Listed
  <2>. QED
      BY <2>1, <2>2, <2>3 DEF PoolInv
<1>16. CASE PoolDone
  <2>1. CASE run' = Idle
      BY <2>1, PoolUndecided DEF Idle, Gathered, Publishing
  <2>2. CASE run' # Idle
    <3>1. /\ Promoting /\ accepted' = [accepted EXCEPT ![run.got] = @ \cup Lacking]
          /\ run.pc = "pool" /\ run.todo = {} /\ UNCHANGED <<conf, pool, flawed>>
          /\ run.auth => Unresolved = {} /\ FinishMissing
        BY <1>16, <2>2 DEF PoolDone, files
    <3>2. /\ run'.pc = "promote" /\ run'.unserved = run.unserved /\ run'.gone = run.gone
          /\ run'.got = run.got /\ run'.auth = run.auth
        BY <3>1 DEF Promoting
    <3>3. Listed' = Listed /\ Lacking' = Lacking /\ Gathered'
        BY <3>2 DEF Listed, Lacking, Gathered
    <3>4. run.got \in Gen
        BY <3>1, GotIsGen DEF Chosen
    <3>5. Lacking \subseteq accepted'[run.got]
        BY <3>1, <3>4
    <3>6. ASSUME run.auth, NEW p \in run.gone, conf.missing # "ignore" PROVE budget'[p] >= Retries
      <4>1. conf.missing = "retry"
          BY <3>6, DebSyncAssumption DEF PoolInv
      <4>2. p \in Pool /\ budget'[p] = Counted(p) /\ ~(Counted(p) < Retries)
          BY <3>1, <3>6, <4>1 DEF FinishMissing, Unresolved
      <4>3. Counted(p) \in Nat /\ Retries \in Nat
          BY <4>2, DebSyncAssumption DEF Counted
      <4>. QED
          BY <4>2, <4>3
    <3>. QED
        BY <3>1, <3>2, <3>3, <3>5, <3>6 DEF PoolInv
  <2>. QED
      BY <2>1, <2>2
<1>17. ASSUME NEW v \in Variant, PromoteIndex(v) PROVE PoolInv'
    BY <1>17, PoolFrame DEF PromoteIndex, Gathered, Chosen, Publishing
<1>18. ASSUME NEW v \in Variant, AddByHash(v) PROVE PoolInv'
  <2>1. flawed => flawed'
      BY <1>18 DEF AddByHash
  <2>. QED
      BY <1>18, <2>1, PoolFrame DEF AddByHash, Gathered, Chosen
<1>19. CASE IndexesPromoted
    BY <1>19, PoolFrame DEF IndexesPromoted, Goto, files, history, Gathered, Chosen, Publishing
<1>20. CASE PublishSignature
    BY <1>20, PoolFrame DEF PublishSignature, Goto, files, Gathered, Chosen, Publishing
<1>21. CASE PublishRelease
    BY <1>21, PoolFrame DEF PublishRelease, Goto, files, Gathered, Chosen, Publishing
<1>22. CASE PublishInRelease
  <2>1. /\ run'.pc = "prune" /\ run'.unserved = run.unserved /\ run'.gone = run.gone
        /\ run'.got = run.got /\ UNCHANGED <<conf, pool, budget, flawed>> /\ run'.auth = run.auth
      BY <1>22 DEF PublishInRelease, Goto, files
  <2>2. Gathered /\ ~Chosen' /\ Listed' = Listed
      BY <1>22, <2>1 DEF PublishInRelease, Gathered, Chosen, Publishing, Listed
  <2>3. Gathered'
      BY <2>1 DEF Gathered
  <2>4. run.auth => \A p \in run.gone : conf.missing = "ignore" \/ budget[p] >= Retries
      BY <2>2 DEF PoolInv
  <2>. QED
      BY <2>1, <2>2, <2>3, <2>4 DEF PoolInv
<1>23. CASE PublicationFails
    BY <1>23, PoolUndecided DEF PublicationFails, Idle, Gathered, Publishing
<1>24. ASSUME NEW v \in Variant, PruneIndex(v) PROVE PoolInv'
    BY <1>24, PoolFrame DEF PruneIndex, history, Gathered, Chosen, Publishing
<1>25. ASSUME NEW v \in Variant, NEW n \in Issues, PruneName(v, n) PROVE PoolInv'
    BY <1>25, PoolFrame DEF PruneName, history, Gathered, Chosen, Publishing
<1>26. ASSUME NEW p \in Pool, PrunePoolFile(p) PROVE PoolInv'
  <2>1. /\ run.pc = "prune" /\ pool' = pool \ {p} /\ p \notin Wanted \ run.gone
        /\ UNCHANGED <<conf, budget, flawed, run>>
      BY <1>26 DEF PrunePoolFile, history
  <2>2. Gathered /\ Gathered' /\ ~Chosen' /\ Listed' = Listed
      BY <2>1 DEF Gathered, Chosen, Publishing, Listed
  <2>3. ~flawed /\ run.unserved # Variant => Wanted = Lists[Listed]
      BY <2>2, WantedIsListed DEF IndexInv
  <2>4. ~flawed /\ run.unserved # Variant => Lists[Listed] \subseteq pool' \cup run.gone
      BY <2>1, <2>2, <2>3 DEF PoolInv
  <2>. QED
      BY <2>1, <2>2, <2>4 DEF PoolInv
<1>27. CASE Finish
    BY <1>27, PoolUndecided DEF Finish, Idle, Gathered, Publishing
<1>28. CASE Crash
    BY <1>28, PoolUndecided DEF Crash, Idle, Gathered, Publishing
<1>29. CASE Rotate
  <2>1. UNCHANGED <<conf, pool, budget, accepted, flawed, run>>
      BY <1>29 DEF Rotate, files, history
  <2>. QED
      BY <2>1, PoolFrame DEF Chosen, Publishing
<1>30. CASE UNCHANGED vars
  <2>1. UNCHANGED <<conf, pool, budget, accepted, flawed, run>>
      BY <1>30 DEF vars, files, history
  <2>. QED
      BY <2>1, PoolFrame DEF Chosen, Publishing
<1>31. ASSUME NEW d \in Doc, PruneDoc(d) PROVE PoolInv'
  <2>1. UNCHANGED <<conf, pool, budget, accepted, flawed, run>>
      BY <1>31 DEF PruneDoc, files
  <2>. QED
      BY <2>1, PoolFrame DEF Chosen, Publishing
<1>. QED
    BY <1>1, <1>2, <1>3, <1>4, <1>5, <1>6, <1>7, <1>8, <1>9, <1>10, <1>11, <1>12, <1>13,
       <1>14, <1>15, <1>16, <1>17, <1>18, <1>19, <1>20, <1>21, <1>22, <1>23, <1>24, <1>25,
       <1>26, <1>27, <1>28, <1>29, <1>30, <1>31 DEF Next, Stage, Fetch, Publish, Prune

-----------------------------------------------------------------------------
(* What clients follow, and find *)
LEMMA MainType == ASSUME TypeOK PROVE Main \in Gen \cup {Absent} /\ Main \in Nat
<1>1. live["InRelease"] \in Gen \cup {Absent} /\ live["Release"] \in Gen \cup {Absent}
    BY DEF TypeOK, Doc
<1>. QED
    BY <1>1, GenIsNat DEF Main

(* Publishing Release, where there is no InRelease, or InRelease shows the   *)
(* generation that the run mirrors, or nothing.                              *)
LEMMA ReleasePublished ==
    ASSUME TypeOK, DocInv, GotInv, PublishRelease
    PROVE  Main' \in {Main, Absent} \/ (Main' = run.got /\ Main <= run.got)
<1>1. /\ Promote("Release") /\ Chosen /\ "Release" \in Doc /\ "InRelease" \in Doc
      /\ ahead' = ("InRelease" \notin run.lacks /\ live'["Release"] # run.got)
    BY DEF PublishRelease, Chosen, Publishing, Doc
<1>2. /\ "Release" \notin run.lacks => live'["Release"] = StagedOrFinal("Release")
      /\ "Release" \in run.lacks => live'["Release"] \in {Absent, live["Release"]}
      /\ live'["InRelease"] = live["InRelease"]
    BY <1>1, PromotedDoc
<1>3. CASE live["InRelease"] # Absent \/ ahead'
    BY <1>2, <1>3 DEF Main
<1>4. CASE live["InRelease"] = Absent /\ ~ahead'
  <2>1. live'["Release"] = run.got
    <3>1. CASE "InRelease" \in run.lacks
        BY <1>1, <1>2, <3>1 DEF GotInv, DataDoc
    <3>2. CASE "InRelease" \notin run.lacks
        BY <1>1, <1>4, <3>2
    <3>. QED
        BY <3>1, <3>2
  <2>2. run.got \in {StagedOrFinal("Release"), live["Release"]}
      BY <1>1, <1>2, <2>1 DEF GotInv
  <2>3. live["Release"] <= run.got /\ 0 <= run.got
      BY <1>1, <2>2, VersionsAreNat DEF DocInv, StagedOrFinal
  <2>. QED
      BY <1>2, <1>4, <2>1, <2>3 DEF Main, Absent
<1>. QED
    BY <1>3, <1>4

LEMMA InReleasePublished ==
    ASSUME TypeOK, DocInv, GotInv, PublishInRelease
    PROVE  /\ "InRelease" \in stuck' \/ Main' = run.got
           /\ Main' = Main \/ (Main' = run.got /\ Main <= run.got)
<1>1. Chosen /\ "Release" \in Doc /\ "InRelease" \in Doc /\ run.pc = "publish InRelease"
    BY DEF PublishInRelease, Chosen, Publishing, Doc
<1>2. "InRelease" \in stuck' \/ Main' = run.got
  <2>1. PublishInRelease => [Next]_vars
      BY DEF Next, Publish
  <2>2. GotInv'
      BY <2>1, GotStep
  <2>3. run'.pc = "prune" /\ run'.got = run.got
      BY DEF PublishInRelease, Goto, TypeOK, RunState
  <2>. QED
      BY <2>2, <2>3 DEF GotInv
<1>3. /\ run.got = StagedOrFinal(DataDoc) /\ DataDoc \notin run.lacks
      /\ Past("Release") /\ run.got \in Nat /\ 0 <= run.got /\ run.got # Absent
  <2>1. run.got = StagedOrFinal(DataDoc) /\ DataDoc \notin run.lacks /\ run.got # Absent
      BY <1>1 DEF GotInv
  <2>2. Past("Release")
      BY <1>1, PastAll DEF Publishing
  <2>3. run.got \in Nat
      BY <1>1, GotIsGen, GenIsNat
  <2>. QED
      BY <2>1, <2>2, <2>3
<1>4. ASSUME "InRelease" \in run.lacks PROVE Main <= run.got
  <2>1. DataDoc = "Release"
      BY <1>4 DEF DataDoc
  <2>2. live["InRelease"] <= StagedOrFinal("Release")
      BY <1>3, <2>1 DEF DocInv
  <2>3. live["Release"] = run.got /\ live["InRelease"] <= run.got
      BY <1>1, <1>3, <1>4, <2>1, <2>2 DEF GotInv
  <2>. QED
      BY <1>3, <2>3 DEF Main, Absent
<1>5. ASSUME "InRelease" \notin run.lacks PROVE Main <= run.got
  <2>1. live["InRelease"] <= run.got
    <3>1. run.got = StagedOrFinal("InRelease")
        BY <1>3, <1>5 DEF DataDoc
    <3>2. live["InRelease"] \in Nat /\ (staged["InRelease"] # Absent => live["InRelease"] <= staged["InRelease"])
        BY <1>1, VersionsAreNat DEF DocInv
    <3>. QED
        BY <3>1, <3>2 DEF StagedOrFinal
  <2>2. ~ahead => live["Release"] = run.got
      BY <1>1, <1>5 DEF GotInv
  <2>. QED
      BY <1>3, <2>1, <2>2 DEF Main, Absent
<1>6. Main <= run.got
    BY <1>4, <1>5
<1>7. Main' \in {Main, run.got}
  <2>1. /\ Promote("InRelease") /\ ahead' = ahead
      BY DEF PublishInRelease
  <2>2. /\ live'["InRelease"] \in {Absent, live["InRelease"], StagedOrFinal("InRelease")}
        /\ live'["InRelease"] = StagedOrFinal("InRelease") \/ "InRelease" \in run.lacks
        /\ live'["Release"] = live["Release"]
      BY <1>1, <2>1, PromotedDoc
  <2>3. CASE "InRelease" \notin run.lacks
      BY <1>3, <2>2, <2>3 DEF Main, DataDoc
  <2>4. CASE "InRelease" \in run.lacks
    <3>1. ~ahead /\ live["Release"] = run.got
        BY <1>1, <2>4 DEF GotInv
    <3>2. CASE live'["InRelease"] = live["InRelease"]
        BY <2>1, <2>2, <3>2 DEF Main
    <3>3. CASE live'["InRelease"] = Absent
        BY <2>1, <2>2, <3>1, <3>3 DEF Main
    <3>4. live'["InRelease"] \in {Absent, live["InRelease"]}
        BY <1>1, <2>1, <2>4, PromotedDoc
    <3>. QED
        BY <3>2, <3>3, <3>4
  <2>. QED
      BY <2>3, <2>4
<1>. QED
    BY <1>2, <1>6, <1>7

LEMMA MainStays ==
    ASSUME TypeOK, [Next]_vars, ~PublishRelease, ~PublishInRelease,
           \A d \in Doc : ~PruneDoc(d)
    PROVE  Main' = Main
<1>. USE DEF Main
<1>1. CASE Begin
    BY <1>1 DEF Begin, docs, history
<1>2. ASSUME NEW d \in Doc, StageDoc(d) PROVE Main' = Main
    BY <1>2 DEF StageDoc, history
<1>3. ASSUME NEW d \in Doc, RefetchPair(d) PROVE Main' = Main
    BY <1>3 DEF RefetchPair, history
<1>4. CASE CheckInRelease
    BY <1>4 DEF CheckInRelease, docs, history
<1>5. CASE RefetchInRelease
    BY <1>5 DEF RefetchInRelease, history
<1>6. CASE CheckRelease
    BY <1>6 DEF CheckRelease, docs, history
<1>7. CASE BeginRefetchPair
    BY <1>7 DEF BeginRefetchPair, docs, history
<1>8. CASE Select
    BY <1>8 DEF Select, docs, history
<1>9. CASE Fail
    BY <1>9 DEF Fail, history
<1>10. ASSUME NEW v \in Variant, KeepIndex(v) PROVE Main' = Main
    BY <1>10 DEF KeepIndex, docs
<1>11. ASSUME NEW v \in Variant, StageIndex(v) PROVE Main' = Main
    BY <1>11 DEF StageIndex, docs, history
<1>12. ASSUME NEW v \in Variant, MissIndex(v) PROVE Main' = Main
    BY <1>12 DEF MissIndex, docs, history
<1>13. CASE IndexesDone
    BY <1>13 DEF IndexesDone, docs, history
<1>14. ASSUME NEW p \in Pool, FetchPoolFile(p) PROVE Main' = Main
    BY <1>14 DEF FetchPoolFile, docs, history
<1>15. ASSUME NEW p \in Pool, MissPoolFile(p) PROVE Main' = Main
    BY <1>15 DEF MissPoolFile, docs, history
<1>16. CASE PoolDone
    BY <1>16 DEF PoolDone
<1>17. ASSUME NEW v \in Variant, PromoteIndex(v) PROVE Main' = Main
    BY <1>17 DEF PromoteIndex, docs
<1>18. ASSUME NEW v \in Variant, AddByHash(v) PROVE Main' = Main
    BY <1>18 DEF AddByHash, docs
<1>19. CASE IndexesPromoted
    BY <1>19 DEF IndexesPromoted, docs, history
<1>20. CASE PublishSignature
  <2>1. live'["InRelease"] = live["InRelease"] /\ live'["Release"] = live["Release"] /\ ahead' = ahead
      BY <1>20, PromotedDoc DEF PublishSignature, Doc
  <2>. QED
      BY <2>1
<1>21. CASE PublicationFails
    BY <1>21 DEF PublicationFails
<1>22. ASSUME NEW v \in Variant, PruneIndex(v) PROVE Main' = Main
    BY <1>22 DEF PruneIndex, docs, history
<1>23. ASSUME NEW v \in Variant, NEW n \in Issues, PruneName(v, n) PROVE Main' = Main
    BY <1>23 DEF PruneName, docs, history
<1>24. ASSUME NEW p \in Pool, PrunePoolFile(p) PROVE Main' = Main
    BY <1>24 DEF PrunePoolFile, docs, history
<1>25. CASE Finish
    BY <1>25 DEF Finish, docs, history
<1>26. CASE Crash
    BY <1>26 DEF Crash, docs
<1>27. CASE Rotate
    BY <1>27 DEF Rotate, docs, history
<1>28. CASE UNCHANGED vars
    BY <1>28 DEF vars, docs, history
<1>. QED
    BY <1>1, <1>2, <1>3, <1>4, <1>5, <1>6, <1>7, <1>8, <1>9, <1>10, <1>11, <1>12, <1>13,
       <1>14, <1>15, <1>16, <1>17, <1>18, <1>19, <1>20, <1>21, <1>22, <1>23, <1>24, <1>25,
       <1>26, <1>27, <1>28 DEF Next, Stage, Fetch, Publish, Prune

(* What a run that publishes has to offer, whatever more was missed. *)
LEMMA OfferedIsComplete ==
    ASSUME TypeOK, GotInv, IndexInv, PoolInv, ~flawed, NEW A, Lacking \subseteq A,
           run.pc \in {"publish Release", "publish InRelease", "prune"}
    PROVE  /\ Variant \subseteq A \/ Lists[Listed] \subseteq pool \cup A
           /\ \A v \in Variant \ A : /\ conf.nested => byhash[v][Listed] = Listed
                                     /\ index[v] = Listed
<1>1. Gathered /\ run.unserved \subseteq A /\ run.gone \subseteq A
    BY DEF Gathered, Publishing, Lacking
<1>2. Variant \subseteq A \/ Lists[Listed] \subseteq pool \cup A
    BY <1>1 DEF PoolInv
<1>3. conf.nested => \A v \in Variant \ A : byhash[v][Listed] = Listed
    BY <1>1 DEF IndexInv
<1>4. \A v \in Variant \ A : index[v] = Listed
    BY <1>1 DEF IndexInv, Has, Read
<1>. QED
    BY <1>2, <1>3, <1>4

\* A step that takes nothing away of what a complete release needs.
KeepsFiles ==
    /\ ~flawed' => ~flawed
    /\ conf' = conf
    /\ "InRelease" \in stuck => "InRelease" \in stuck'
    /\ pool \subseteq pool' /\ (byhash' = byhash \/ flawed')
    /\ index' = index \/ behind'
    /\ behind => behind'
    /\ Main # Absent => accepted[Main] \subseteq accepted'[Main]

LEMMA LiveFrame == ASSUME LiveComplete, KeepsFiles, Main' = Main PROVE LiveComplete'
BY DEF LiveComplete, KeepsFiles

LEMMA LiveStep ==
    ASSUME TypeOK, DocInv, GotInv, IndexInv, PoolInv, LiveComplete, [Next]_vars
    PROVE  LiveComplete' 
<1>1. ASSUME Begin PROVE KeepsFiles
    BY <1>1 DEF Begin, files, history, KeepsFiles
<1>2. ASSUME NEW d \in Doc, StageDoc(d) PROVE KeepsFiles
    BY <1>2 DEF StageDoc, files, history, KeepsFiles
<1>3. ASSUME NEW d \in Doc, RefetchPair(d) PROVE KeepsFiles
    BY <1>3 DEF RefetchPair, files, history, KeepsFiles
<1>4. ASSUME CheckInRelease PROVE KeepsFiles
    BY <1>4 DEF CheckInRelease, files, history, KeepsFiles
<1>5. ASSUME RefetchInRelease PROVE KeepsFiles
    BY <1>5 DEF RefetchInRelease, files, history, KeepsFiles
<1>6. ASSUME CheckRelease PROVE KeepsFiles
    BY <1>6 DEF CheckRelease, files, history, KeepsFiles
<1>7. ASSUME BeginRefetchPair PROVE KeepsFiles
    BY <1>7 DEF BeginRefetchPair, files, history, KeepsFiles
<1>8. ASSUME Select PROVE KeepsFiles
    BY <1>8 DEF Select, files, history, KeepsFiles
<1>9. ASSUME Fail PROVE KeepsFiles
    BY <1>9 DEF Fail, files, history, KeepsFiles
<1>10. ASSUME NEW v \in Variant, KeepIndex(v) PROVE KeepsFiles
    BY <1>10 DEF KeepIndex, files, history, KeepsFiles
<1>11. ASSUME NEW v \in Variant, StageIndex(v) PROVE KeepsFiles
    BY <1>11 DEF StageIndex, files, history, KeepsFiles
<1>12. ASSUME NEW v \in Variant, MissIndex(v) PROVE KeepsFiles
    BY <1>12 DEF MissIndex, files, history, KeepsFiles
<1>13. ASSUME IndexesDone PROVE KeepsFiles
    BY <1>13 DEF IndexesDone, files, history, KeepsFiles
<1>14. ASSUME NEW p \in Pool, FetchPoolFile(p) PROVE KeepsFiles
    BY <1>14 DEF FetchPoolFile, files, history, KeepsFiles
<1>15. ASSUME NEW p \in Pool, MissPoolFile(p) PROVE KeepsFiles
    BY <1>15 DEF MissPoolFile, files, history, KeepsFiles
<1>16. ASSUME PoolDone PROVE KeepsFiles
  <2>1. UNCHANGED <<conf, flawed, pool, byhash, index, stuck, behind>>
      BY <1>16 DEF PoolDone, files
  <2>2. Main # Absent => accepted[Main] \subseteq accepted'[Main]
    <3>1. CASE accepted' = accepted
        BY <3>1
    <3>2. CASE accepted' = [accepted EXCEPT ![run.got] = @ \cup Lacking]
        BY <3>2, MainType DEF TypeOK
    <3>. QED
        BY <1>16, <3>1, <3>2 DEF PoolDone
  <2>. QED
      BY <2>1, <2>2 DEF KeepsFiles
<1>17. ASSUME NEW v \in Variant, PromoteIndex(v) PROVE KeepsFiles
  <2>1. index' = index \/ behind'
    <3>1. CASE next[v] = Absent
      <4>1. index' = [index EXCEPT ![v] = index[v]]
          BY <1>17, <3>1 DEF PromoteIndex
      <4>. QED
          BY <4>1 DEF TypeOK
    <3>2. CASE next[v] # Absent
        BY <1>17, <3>2 DEF PromoteIndex
    <3>. QED
        BY <3>1, <3>2
  <2>2. UNCHANGED <<conf, flawed, stuck, pool, byhash, accepted, ahead>> /\ (behind => behind')
      BY <1>17 DEF PromoteIndex
  <2>. QED
      BY <2>1, <2>2 DEF KeepsFiles
<1>18. ASSUME IndexesPromoted PROVE KeepsFiles
    BY <1>18 DEF IndexesPromoted, files, history, KeepsFiles
<1>19. ASSUME PublishSignature PROVE KeepsFiles
  <2>1. "InRelease" \in stuck' <=> "InRelease" \in stuck
      BY <1>19, PromotedDoc DEF PublishSignature, Doc
  <2>. QED
      BY <1>19, <2>1 DEF PublishSignature, files, KeepsFiles
<1>20. ASSUME PublicationFails PROVE KeepsFiles
    BY <1>20 DEF PublicationFails, files, history, KeepsFiles
<1>21. ASSUME NEW v \in Variant, PruneIndex(v) PROVE LiveComplete'
  <2>1. /\ UNCHANGED <<conf, byhash, pool, accepted, flawed, stuck, behind>> /\ Main' = Main
        /\ run.pc = "prune"
      BY <1>21 DEF PruneIndex, docs, history, Main
  <2>2. \A w \in Variant \ run.unserved : index'[w] = index[w]
      BY <1>21 DEF PruneIndex, TypeOK
  <2>3. "InRelease" \notin stuck => run.unserved \subseteq accepted[Main]
      BY <2>1 DEF GotInv, Lacking
  <2>. QED
      BY <2>1, <2>2, <2>3 DEF LiveComplete
<1>22. ASSUME Finish PROVE KeepsFiles
    BY <1>22 DEF Finish, files, history, KeepsFiles
<1>23. ASSUME Crash PROVE KeepsFiles
    BY <1>23 DEF Crash, files, history, KeepsFiles
<1>24. ASSUME Rotate PROVE KeepsFiles
    BY <1>24 DEF Rotate, files, history, KeepsFiles
<1>25. ASSUME UNCHANGED vars PROVE KeepsFiles
    BY <1>25 DEF vars, files, history, KeepsFiles
<1>26. ASSUME NEW v \in Variant, AddByHash(v) PROVE LiveComplete'
  <2>1. /\ UNCHANGED <<conf, pool, accepted, index, stuck, behind>> /\ Main' = Main
        /\ ~flawed' => ~flawed
        /\ v \in run.naming /\ run.pc = "promote"
    <3>1. /\ run.pc = "promote" /\ v \in run.naming
          /\ UNCHANGED <<conf, docs, pool, accepted, ahead, index, stuck, behind>>
        BY <1>26 DEF AddByHash
    <3>2. ~flawed' => ~flawed
        BY <1>26 DEF AddByHash
    <3>. QED
        BY <3>1, <3>2 DEF docs, Main
  <2>2. ~flawed' => \A w \in Variant, n \in Issues :
           byhash[w][n] # Absent => byhash'[w][n] = byhash[w][n]
    <3>1. Listed \in Issues
        BY <2>1, GotIsGen DEF Chosen
    <3>2. CASE UNCHANGED byhash
        BY <3>2
    <3>3. CASE byhash[v][Listed] = Absent /\ byhash' = [byhash EXCEPT ![v][Listed] = index[v]]
        BY <3>1, <3>3 DEF TypeOK
    <3>. QED
        BY <1>26, <3>2, <3>3 DEF AddByHash
  <2>3. Main # Absent => Issue[Main] \in Issues /\ Issue[Main] # Absent
      BY MainType, IssuesAre
  <2>. QED
      BY <2>1, <2>2, <2>3 DEF LiveComplete
<1>27. CASE PublishRelease
  <2>1. /\ UNCHANGED <<conf, pool, byhash, index, accepted, flawed, behind>>
        /\ "InRelease" \in stuck' <=> "InRelease" \in stuck
        /\ run.pc = "publish Release" /\ Chosen /\ Gathered
    <3>1. "InRelease" \in stuck' <=> "InRelease" \in stuck
        BY <1>27, PromotedDoc DEF PublishRelease, Doc
    <3>. QED
        BY <1>27, <3>1 DEF PublishRelease, files, Chosen, Gathered, Publishing
  <2>2. CASE Main' \in {Main, Absent}
      BY <2>1, <2>2 DEF LiveComplete
  <2>3. CASE Main' = run.got
    <3>1. Lacking \subseteq accepted[run.got]
        BY <2>1 DEF PoolInv
    <3>2. ~flawed => /\ \/ Variant \subseteq accepted[run.got]
                        \/ Lists[Listed] \subseteq pool \cup accepted[run.got]
                     /\ \A v \in Variant \ accepted[run.got] :
                           (conf.nested => byhash[v][Listed] = Listed) /\ index[v] = Listed
        BY <2>1, <3>1, OfferedIsComplete
    <3>. QED
        BY <2>1, <2>3, <3>2 DEF LiveComplete, Listed
  <2>. QED
      BY <1>27, <2>2, <2>3, ReleasePublished
<1>28. CASE PublishInRelease
  <2>1. /\ UNCHANGED <<conf, pool, byhash, index, flawed>> /\ run.pc = "publish InRelease" /\ Chosen
        /\ accepted' = [accepted EXCEPT ![run.got] = Lacking]
        /\ "InRelease" \in stuck' \/ Main' = run.got
      BY <1>28, InReleasePublished DEF PublishInRelease, files, Chosen, Publishing
  <2>2. accepted'[run.got] = Lacking
      BY <2>1, GotIsGen DEF TypeOK
  <2>3. ~flawed => /\ Variant \subseteq Lacking \/ Lists[Listed] \subseteq pool \cup Lacking
                   /\ \A v \in Variant \ Lacking :
                         (conf.nested => byhash[v][Listed] = Listed) /\ index[v] = Listed
      BY <2>1, OfferedIsComplete
  <2>. QED
      BY <2>1, <2>2, <2>3 DEF LiveComplete, Listed
<1>29. ASSUME NEW v \in Variant, NEW n \in Issues, PruneName(v, n) PROVE LiveComplete'
  <2>1. /\ UNCHANGED <<conf, index, pool, accepted, flawed, stuck, behind>> /\ Main' = Main
        /\ run.pc = "prune" /\ ~KeptName(v, n)
        /\ byhash' = [byhash EXCEPT ![v][n] = Absent]
      BY <1>29 DEF PruneName, docs, history, Main
  <2>2. "InRelease" \notin stuck =>
           Main = run.got /\ accepted[Main] = Lacking /\ run.unserved \subseteq Lacking
      BY <2>1 DEF GotInv, Lacking
  <2>3. "InRelease" \notin stuck /\ conf.nested =>
           \A w \in Variant \ accepted[Main] : byhash'[w][Issue[Main]] = byhash[w][Issue[Main]]
      BY <2>1, <2>2 DEF KeptName, Listed, TypeOK
  <2>. QED
      BY <2>1, <2>3 DEF LiveComplete
<1>30. ASSUME NEW p \in Pool, PrunePoolFile(p) PROVE LiveComplete'
  <2>1. /\ UNCHANGED <<conf, byhash, index, accepted, flawed, stuck, behind>> /\ Main' = Main
        /\ run.pc = "prune" /\ pool' = pool \ {p} /\ p \notin Wanted \ run.gone
      BY <1>30 DEF PrunePoolFile, docs, history, Main
  <2>2. "InRelease" \notin stuck => Main = run.got /\ accepted[Main] = run.gone \cup run.unserved
      BY <2>1 DEF GotInv, Lacking
  <2>3. CASE run.unserved = Variant
      BY <2>1, <2>2, <2>3 DEF LiveComplete
  <2>4. CASE run.unserved # Variant
    <3>1. ~flawed /\ "InRelease" \notin stuck => Wanted = Lists[Issue[Main]]
        BY <2>1, <2>2, <2>4, WantedIsListed DEF IndexInv, Gathered, Listed
    <3>. QED
        BY <2>1, <2>2, <3>1 DEF LiveComplete
  <2>. QED
      BY <2>3, <2>4
<1>31. ASSUME KeepsFiles, Main' = Main PROVE LiveComplete'
    BY <1>31, LiveFrame
<1>32. ASSUME NEW d \in Doc, PruneDoc(d) PROVE LiveComplete'
  <2>1. /\ UNCHANGED <<conf, pool, byhash, index, accepted, flawed, behind>> /\ run.pc = "prune"
        /\ "InRelease" \in stuck' => "InRelease" \in stuck
      BY <1>32 DEF PruneDoc, files
  <2>2. CASE Main' = Main /\ ("InRelease" \in stuck <=> "InRelease" \in stuck')
      BY <2>1, <2>2 DEF LiveComplete
  <2>3. CASE "InRelease" \notin stuck'
    <3>1. Main' = run.got /\ accepted[run.got] = Lacking
        BY <1>32, <2>1, <2>3, DocPruned DEF GotInv
    <3>2. ~flawed => /\ Variant \subseteq Lacking \/ Lists[Listed] \subseteq pool \cup Lacking
                     /\ \A v \in Variant \ Lacking :
                           (conf.nested => byhash[v][Listed] = Listed) /\ index[v] = Listed
        BY <2>1, OfferedIsComplete
    <3>. QED
        BY <2>1, <3>1, <3>2 DEF LiveComplete, Listed
  <2>. QED
      BY <1>32, <2>1, <2>2, <2>3 DEF LiveComplete
<1>. QED
    BY <1>1, <1>2, <1>3, <1>4, <1>5, <1>6, <1>7, <1>8, <1>9, <1>10, <1>11, <1>12, <1>13,
       <1>14, <1>15, <1>16, <1>17, <1>18, <1>19, <1>20, <1>21, <1>22, <1>23, <1>24, <1>25,
       <1>26, <1>27, <1>28, <1>29, <1>30, <1>31, <1>32, MainStays DEF Next, Stage, Fetch, Publish,
       Prune

-----------------------------------------------------------------------------
(* The theorems *)
LEMMA DebInvInit == Init => DebInv
<1>. SUFFICES ASSUME Init PROVE DebInv
    OBVIOUS
<1>1. TypeOK
    BY TypeOKInit
<1>2. /\ run.pc = "idle" /\ run.gone = {} /\ run.naming = {} /\ ~Chosen /\ ~Gathered
      /\ \A d \in Doc : live[d] = Absent /\ staged[d] = Absent /\ ~Past(d)
      /\ \A v \in Variant, n \in Issues : byhash[v][n] = Absent
    BY DEF Init, Idle, Chosen, Gathered, Publishing, Past, Doc
<1>3. Main = Absent /\ live["InRelease"] = Absent /\ live["Release"] = Absent
      /\ live["Release.gpg"] = Absent
    BY <1>2 DEF Main, Doc
<1>4. DocInv
  <2>1. \A d \in Doc : live[d] <= up /\ staged[d] <= up
      BY <1>2 DEF Init, Absent
  <2>. QED
      BY <1>2, <2>1 DEF DocInv, Doc
<1>5. GotInv
    BY <1>2 DEF GotInv
<1>6. SigInv
  <2>1. ~Halfway /\ ~InReleasePast /\ ~PairPast /\ run.pc # "publish InRelease"
      BY <1>2 DEF Halfway, InReleasePast, PairPast
  <2>. QED
      BY <1>2, <1>3, <2>1 DEF SigInv
<1>7. IndexInv
    BY <1>2 DEF IndexInv
<1>8. PoolInv
    BY <1>2 DEF PoolInv
<1>. QED
    BY <1>1, <1>3, <1>4, <1>5, <1>6, <1>7, <1>8 DEF DebInv, LiveComplete

LEMMA DebInvStep == DebInv /\ [Next]_vars => DebInv'
BY TypeOKStep, DocStep, GotStep, SigStep, IndexStep, PoolStep, LiveStep DEF DebInv

LEMMA DebSyncInvariant == Spec => []DebInv
BY DebInvInit, DebInvStep, PTL DEF Spec

(* The fields of the documents, of the files and of a run keep their types   *)
(* (mirror/deb.go debReleaseSet, syncDeb).                                   *)
THEOREM DebSyncTypes == Spec => []TypeOK
<1>1. DebInv => TypeOK
    BY DEF DebInv
<1>. QED
    BY <1>1, DebSyncInvariant, PTL

(* A client of the live release finds every pool file that was not missed,   *)
(* and every index that was served, under its digest and, until a run        *)
(* replaces one, its plain name, whatever later runs do (deb.go syncDeb,     *)
(* "Promote the release files last to complete the metadata chain"); unless  *)
(* an InRelease that upstream lacks could not be removed.                    *)
THEOREM DebSyncStaysComplete == Spec => []LiveComplete
<1>1. DebInv => LiveComplete
    BY DEF DebInv
<1>. QED
    BY <1>1, DebSyncInvariant, PTL

(* The live Release.gpg signs the live Release, unless a run ended between   *)
(* the two or failed to remove it, and in required mode the release clients  *)
(* follow was verified (deb.go stageDebRelease, syncDeb).                    *)
THEOREM DebSyncStaysSigned == Spec => []SignatureMatches
<1>1. DebInv => SignatureMatches
    BY SigInvMatches DEF DebInv
<1>. QED
    BY <1>1, DebSyncInvariant, PTL

(* Clients never follow an older release than they did, and an authenticated *)
(* one is published only once what it lacks has used up the budget of misses *)
(* (deb.go syncDeb, publish).                                                *)
THEOREM DebSyncPublishesInOrder == Spec => PublishedInOrder
<1>1. ASSUME DebInv, [Next]_vars, Main' # Main, Main' # Absent
      PROVE  /\ Main' > Main
             /\ run.auth => \A p \in run.gone : conf.missing = "ignore" \/ budget[p] >= Retries
  <2>1. PublishRelease \/ PublishInRelease \/ \E d \in Doc : PruneDoc(d)
      BY <1>1, MainStays DEF DebInv
  <2>2. Main' = run.got /\ Main <= run.got
      BY <1>1, <2>1, ReleasePublished, InReleasePublished, DocPruned DEF DebInv
  <2>3. Gathered /\ run.got # Absent
      BY <1>1, <2>1 DEF PublishRelease, PublishInRelease, PruneDoc, Chosen, Gathered, Publishing, DebInv, GotInv
  <2>4. Main \in Nat /\ run.got \in Nat
      BY <1>1, <2>3, MainType, GenIsNat DEF DebInv, TypeOK, RunState
  <2>5. Main' > Main
      BY <1>1, <2>2, <2>4
  <2>6. run.auth => \A p \in run.gone : conf.missing = "ignore" \/ budget[p] >= Retries
      BY <1>1, <2>3 DEF DebInv, PoolInv
  <2>. QED
      BY <2>5, <2>6
<1>2. DebInv /\ [Next]_vars =>
        [Main' # Main /\ Main' # Absent =>
         /\ Main' > Main
         /\ run.auth => \A p \in run.gone :
               conf.missing = "ignore" \/ budget[p] >= Retries]_vars
    BY <1>1
<1>. QED
    BY <1>2, DebSyncInvariant, PTL DEF Spec, PublishedInOrder

=============================================================================
