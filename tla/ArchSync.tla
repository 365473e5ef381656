------------------------------- MODULE ArchSync ------------------------------
(***************************************************************************)
(* Synchronizing one pacman repository (mirror/arch.go syncArch) or one    *)
(* Alpine repository (mirror/apk.go syncApk, the same run without any      *)
(* signature or companion file), run after run, from an upstream that moves*)
(* on between any two requests.  With signature checks on, packages and    *)
(* their signatures are staged, all pairs are verified, and all signatures *)
(* are promoted before all packages; with the checks off packages go       *)
(* straight to their place.  The database comes last.  A run may fail or   *)
(* die between any two steps.                                              *)
(*                                                                         *)
(* The database, its signature and the companion files are documents, whose*)
(* version is the generation they belong to.  A package's content is a     *)
(* number, and the content of its .sig is that of the package it signs.    *)
(* What pruning removes of the unreferenced files is left open, as in      *)
(* DebSync.  Dry runs, traces and verify are left out.                     *)
(***************************************************************************)
EXTENDS Integers, FiniteSets

CONSTANTS
    Last,          \* upstream publishes the generations 1..Last
    Extra,         \* companion files of the database
    Serves,        \* Serves[g]: the documents it serves with g
    Trusted,       \* generations whose database signature the keys verify
    Package,
    Want,          \* Want[g][p]: the content generation g lists for p, or Absent
    Signed,        \* Signed[g]: the packages it serves a signature for
    Confs,         \* the options of every run: format, mode, missing
    Retries        \* missing_retries

Gen == 1..Last
Doc == {"db", "sig"} \cup Extra
Absent == 0
File == Package \X {"package", "signature"}

ASSUME ArchSyncAssumption ==
    /\ Last \in Nat \ {0}
    /\ Extra \cap {"db", "sig"} = {} /\ "db" \notin Package
    /\ Serves \in [Gen -> SUBSET Doc] /\ \A g \in Gen : "db" \in Serves[g]
    /\ Trusted \subseteq Gen
    /\ Want \in [Gen -> [Package -> Nat]]
    /\ Signed \in [Gen -> SUBSET Package]
    /\ Confs \subseteq [format : {"arch", "apk"}, mode : {"off", "if-present", "required"},
                        missing : {"fail", "retry", "ignore"}]
    /\ \A c \in Confs : c.format = "apk" => c.mode = "off"
    /\ Retries \in Nat

VARIABLES
    up,            \* the generation upstream publishes
    conf,
    live, staged,  \* versions of the documents, or Absent
    disk, next,    \* contents of the files: in place, and staged
    budget,        \* runs in a row that missed a package, up to Retries
    run,           \* the run at work: everything it holds in memory
    accepted,      \* packages the live database was published without
    torn,          \* packages, or the database, whose signature was promoted
                   \* without them
    stuck,         \* documents upstream lacks that could not be removed
    stray          \* packages whose signature, which upstream lacks, could not
                   \* be removed

docs == <<live, staged>>
files == <<disk, next>>
history == <<accepted, torn, stuck, stray>>
vars == <<up, conf, docs, files, budget, run, history>>

Place == {"idle", "check", "again db", "again sig", "packages", "verify", "again package",
          "again signature", "promote signatures", "promote packages", "extras",
          "promote extras", "publish sig", "publish db", "prune"} \cup {"db", "sig"}

Idle == [pc |-> "idle", again |-> FALSE, lacks |-> {}, got |-> Absent,
         todo |-> {}, gone |-> {}, pair |-> {}]

RunState == [pc : Place, again : BOOLEAN, lacks : SUBSET Doc, got : Gen \cup {Absent},
             todo : SUBSET (File \cup Extra), gone : SUBSET File, pair : SUBSET Package]

TypeOK ==
    /\ up \in Gen /\ conf \in Confs
    /\ live \in [Doc -> Gen \cup {Absent}] /\ staged \in [Doc -> Gen \cup {Absent}]
    /\ disk \in [File -> Nat] /\ next \in [File -> Nat]
    /\ budget \in [Package -> 0..Retries]
    /\ run \in RunState
    /\ accepted \in SUBSET Package /\ torn \in SUBSET (Package \cup {"db"})
    /\ stuck \in SUBSET Doc /\ stray \in SUBSET Package

Init ==
    /\ up = 1 /\ conf \in Confs
    /\ live = [d \in Doc |-> Absent] /\ staged = live
    /\ disk = [f \in File |-> Absent] /\ next = disk
    /\ budget = [p \in Package |-> 0]
    /\ run = Idle
    /\ accepted = {} /\ torn = {} /\ stuck = {} /\ stray = {}

-----------------------------------------------------------------------------
Checked == conf.mode # "off"

StagedOrFinal(d) == IF staged[d] # Absent THEN staged[d] ELSE live[d]

FileStagedOrFinal(f) == IF next[f] # Absent THEN next[f] ELSE disk[f]

Listed(g) == {p \in Package : g # Absent /\ Want[g][p] # Absent}

\* The deferred cleanup of what a run has staged; syncApk has none.
Cleanup ==
    IF conf.format = "apk" THEN UNCHANGED <<staged, next>>
    ELSE /\ staged' = [d \in Doc |-> Absent]
         /\ next' = [f \in File |-> IF f[1] \in Listed(run.got) THEN Absent ELSE next[f]]

Goto(pc) == run' = [run EXCEPT !.pc = pc]

-----------------------------------------------------------------------------
(* The database and its signature *)
Begin ==
    /\ run.pc = "idle"
    /\ Goto("db")
    /\ UNCHANGED <<up, conf, docs, files, budget, history>>

\* A leftover goes first; a conditional request, unless fresh, stages nothing
\* when what is published is what upstream has.
Fetched(d, fresh) ==
    staged' = [staged EXCEPT ![d] = IF d \in Serves[up] /\ (fresh \/ live[d] # up)
                                      THEN up ELSE Absent]

\* readArchDB, readApkIndex: what the database lists is wanted, each package
\* with its signature.
Select(r) ==
    LET g == StagedOrFinal("db")'
    IN  run' = [r EXCEPT !.pc = "packages", !.got = g,
                  !.todo = {f \in File : f[1] \in Listed(g)
                                         /\ (conf.format = "arch" \/ f[2] = "package")}]

StageDb ==
    /\ run.pc = "db"
    /\ Fetched("db", FALSE)
    /\ IF conf.format = "apk" THEN UNCHANGED live /\ Select(run)
                              ELSE UNCHANGED live /\ Goto("sig")
    /\ UNCHANGED <<up, conf, files, budget, history>>

\* Upstream may lack the signature, whatever the mode.
StageSig ==
    /\ run.pc = "sig"
    /\ Fetched("sig", FALSE)
    /\ UNCHANGED live
    /\ LET r == [run EXCEPT !.lacks = IF "sig" \in Serves[up] THEN @ ELSE {"sig"}]
       IN  IF Checked /\ "sig" \notin r.lacks THEN run' = [r EXCEPT !.pc = "check"]
                                              ELSE Select(r)
    /\ UNCHANGED <<up, conf, files, budget, history>>

CheckSig ==
    /\ run.pc = "check"
    /\ StagedOrFinal("sig") = StagedOrFinal("db") /\ StagedOrFinal("db") \in Trusted
    /\ UNCHANGED <<up, conf, docs, files, budget, history>>
    /\ Select(run)

\* A check that fails, for whatever reason, is repeated once on a fresh pair.
BeginRefetchDb ==
    /\ run.pc = "check" /\ ~run.again
    /\ run' = [run EXCEPT !.pc = "again db", !.again = TRUE]
    /\ UNCHANGED <<up, conf, docs, files, budget, history>>

RefetchDb(d) ==
    /\ d \in {"db", "sig"} /\ run.pc = (IF d = "db" THEN "again db" ELSE "again sig")
    /\ d \in Serves[up]
    /\ Fetched(d, TRUE)
    /\ Goto(IF d = "db" THEN "again sig" ELSE "check")
    /\ UNCHANGED <<up, conf, live, files, budget, history>>

-----------------------------------------------------------------------------
(* fetch.Many over the packages and their signatures *)
Upstream(f) == IF f[2] = "signature" /\ f[1] \notin Signed[up] THEN Absent ELSE Want[up][f[1]]

Wanted(f) == Want[run.got][f[1]]

Take(f) == run.pc = "packages" /\ f \in run.todo

Taken(f) == run' = [run EXCEPT !.todo = @ \ {f}]

\* With checks on a package is judged by its checksum, and a signature by its
\* time; without, a package by its size, which may mislead, and any signature
\* will do.  Any leftover of an earlier run goes first.
KeepFile(f) ==
    /\ Take(f) /\ disk[f] # Absent
    /\ Checked => disk[f] = IF f[2] = "package" THEN Wanted(f) ELSE Upstream(f)
    /\ next' = IF Checked THEN [next EXCEPT ![f] = Absent] ELSE next
    /\ Taken(f)
    /\ UNCHANGED <<up, conf, docs, disk, budget, history>>

\* A package must be the one listed, or the run fails.
GetFile(f) ==
    /\ Take(f) /\ Upstream(f) # Absent
    /\ disk[f] # (IF f[2] = "package" THEN Wanted(f) ELSE Upstream(f))
    /\ f[2] = "package" => Upstream(f) = Wanted(f)
    /\ f[2] = "signature" /\ ~Checked => disk[f] = Absent
    /\ IF Checked THEN next' = [next EXCEPT ![f] = Upstream(f)] /\ disk' = disk
                  ELSE disk' = [disk EXCEPT ![f] = Upstream(f)] /\ next' = next
    /\ Taken(f)
    /\ UNCHANGED <<up, conf, docs, budget, history>>

\* A signature is optional; a missing package is tolerated.
MissFile(f) ==
    /\ Take(f)
    /\ IF f[2] = "package" THEN disk[f] # Wanted(f) /\ conf.missing # "fail"
       ELSE Upstream(f) = Absent /\ (Checked \/ disk[f] = Absent)
    /\ next' = IF Checked THEN [next EXCEPT ![f] = Absent] ELSE next
    /\ run' = [run EXCEPT !.todo = @ \ {f}, !.gone = @ \cup {f}]
    /\ UNCHANGED <<up, conf, docs, disk, budget, history>>

\* The pairs to verify, or straight on to the companion files, of which
\* syncApk has none.
PackagesDone ==
    /\ run.pc = "packages" /\ run.todo = {}
    /\ run' = IF Checked THEN [run EXCEPT !.pc = "verify", !.again = FALSE,
                                 !.todo = {f \in File \ run.gone : f[1] \in Listed(run.got)
                                                                   /\ f[2] = "package"}]
              ELSE IF conf.format = "arch" THEN [run EXCEPT !.pc = "extras", !.todo = Extra]
              ELSE [run EXCEPT !.pc = "publish db"]
    /\ UNCHANGED <<up, conf, docs, files, budget, history>>

-----------------------------------------------------------------------------
(* The package signatures *)
Signature(f) == <<f[1], "signature">>

\* Mutant: signatures are taken as they come.
VerifyNoPair(f) ==
    /\ run.pc = "verify" /\ f \in run.todo
    /\ Signature(f) \in run.gone => conf.mode = "if-present"
    /\ run' = [run EXCEPT !.todo = @ \ {f}, !.again = FALSE]
    /\ UNCHANGED <<up, conf, docs, files, budget, history>>

\* A package needs a signature in required mode; one that has one needs a
\* valid one.
VerifyPair(f) ==
    /\ run.pc = "verify" /\ f \in run.todo
    /\ IF Signature(f) \in run.gone THEN conf.mode = "if-present"
       ELSE FileStagedOrFinal(Signature(f)) = FileStagedOrFinal(f)
    /\ run' = [run EXCEPT !.todo = @ \ {f}, !.again = FALSE]
    /\ UNCHANGED <<up, conf, docs, files, budget, history>>

BeginRefetchPair(f) ==
    /\ run.pc = "verify" /\ f \in run.todo
    /\ Signature(f) \notin run.gone /\ ~run.again
    /\ run' = [run EXCEPT !.pc = "again package", !.again = TRUE, !.pair = {f[1]}]
    /\ UNCHANGED <<up, conf, docs, files, budget, history>>

\* FileFresh drops the staged package, and downloads it again only when the
\* size of the one in place says so.
RefetchPackage(f) ==
    /\ run.pc = "again package" /\ f[1] \in run.pair /\ f[2] = "package"
    /\ \/ disk[f] # Absent /\ next' = [next EXCEPT ![f] = Absent]
       \/ Upstream(f) = Wanted(f) /\ next' = [next EXCEPT ![f] = Wanted(f)]
    /\ Goto("again signature")
    /\ UNCHANGED <<up, conf, docs, disk, budget, history>>

RefetchSignature(f) ==
    /\ run.pc = "again signature" /\ f[1] \in run.pair /\ f[2] = "signature"
    /\ Upstream(f) # Absent
    /\ next' = [next EXCEPT ![f] = Upstream(f)]
    /\ run' = [run EXCEPT !.pc = "verify", !.pair = {}]
    /\ UNCHANGED <<up, conf, docs, disk, budget, history>>

-----------------------------------------------------------------------------
(* Missing.Finish, before the promotions with checks on, and at the very end *)
(* otherwise.                                                                *)
Missed == {f[1] : f \in {f \in run.gone : f[2] = "package"}}

\* The record's count of runs has no limit; only whether it has reached Retries is
\* ever asked, so that counts from there on are one.
Counted(p) == IF p \notin Missed THEN 0
              ELSE IF budget[p] < Retries THEN budget[p] + 1 ELSE Retries

Unresolved == {p \in Missed : conf.missing = "retry" /\ Counted(p) < Retries}

FinishMissing == budget' = IF conf.missing = "fail" THEN budget
                           ELSE [p \in Package |-> Counted(p)]

OfKind(kind) == {f \in File : f[1] \in Listed(run.got) /\ f[2] = kind}

Verified ==
    /\ run.pc = "verify" /\ run.todo = {}
    /\ FinishMissing
    /\ IF Unresolved # {} THEN run' = Idle /\ Cleanup
       ELSE /\ run' = [run EXCEPT !.pc = "promote signatures", !.todo = OfKind("signature")]
            /\ UNCHANGED <<staged, next>>
    /\ UNCHANGED <<up, conf, live, disk, history>>

\* Until something is promoted an error changes nothing that is published.
Fail ==
    /\ \/ run.pc \in {"db", "sig", "again db", "again sig", "packages", "verify",
                      "again package", "again signature", "extras"}
       \/ run.pc = "check" /\ run.again
    /\ run' = Idle /\ Cleanup
    /\ UNCHANGED <<up, conf, live, disk, budget, history>>

-----------------------------------------------------------------------------
(* Promotions *)
PromoteFile(f) ==
    /\ disk' = [disk EXCEPT ![f] = FileStagedOrFinal(f)]
    /\ next' = [next EXCEPT ![f] = Absent]

\* RemoveStale of a signature, which logs an error and goes on.
RemoveSignature(f) ==
    /\ next' = next
    /\ \/ /\ disk' = [disk EXCEPT ![f] = Absent]
          /\ stray' = stray \ {f[1]}
       \/ /\ disk[f] # Absent /\ disk' = disk
          /\ stray' = stray \cup {f[1]}

PromoteSignature(f) ==
    /\ run.pc = "promote signatures" /\ f \in run.todo
    /\ IF f \in run.gone THEN RemoveSignature(f)
                         ELSE PromoteFile(f) /\ stray' = stray \ {f[1]}
    /\ Taken(f)
    /\ torn' = torn \cup {f[1]}
    /\ UNCHANGED <<up, conf, docs, budget, accepted, stuck>>

\* A package that was missed stays what it is.
PromotePackage(f) ==
    /\ run.pc = "promote packages" /\ f \in run.todo
    /\ IF f \in run.gone THEN UNCHANGED <<files, torn>>
                         ELSE PromoteFile(f) /\ torn' = torn \ {f[1]}
    /\ Taken(f)
    /\ UNCHANGED <<up, conf, docs, budget, accepted, stuck, stray>>

SignaturesPromoted ==
    /\ run.pc = "promote signatures" /\ run.todo = {}
    /\ run' = [run EXCEPT !.pc = "promote packages", !.todo = OfKind("package")]
    /\ UNCHANGED <<up, conf, docs, files, budget, history>>

PackagesPromoted ==
    /\ run.pc = "promote packages" /\ run.todo = {}
    /\ run' = [run EXCEPT !.pc = "extras", !.todo = Extra]
    /\ UNCHANGED <<up, conf, docs, files, budget, history>>

\* Mutant: what an interrupted run had staged is taken for this run's.
StageExtraOnce(e) ==
    /\ run.pc = "extras" /\ e \in run.todo
    /\ IF staged[e] # Absent THEN staged' = staged ELSE Fetched(e, FALSE)
    /\ run' = [run EXCEPT !.todo = @ \ {e},
                         !.lacks = IF staged[e] # Absent \/ e \in Serves[up] THEN @ ELSE @ \cup {e}]
    /\ UNCHANGED <<up, conf, live, files, budget, history>>

StageExtra(e) ==
    /\ run.pc = "extras" /\ e \in run.todo
    /\ Fetched(e, FALSE)
    /\ run' = [run EXCEPT !.todo = @ \ {e}, !.lacks = IF e \in Serves[up] THEN @ ELSE @ \cup {e}]
    /\ UNCHANGED <<up, conf, live, files, budget, history>>

ExtrasStaged ==
    /\ run.pc = "extras" /\ run.todo = {}
    /\ run' = [run EXCEPT !.pc = "promote extras", !.todo = Extra]
    /\ UNCHANGED <<up, conf, docs, files, budget, history>>

PromoteStaged(d) ==
    /\ live' = [live EXCEPT ![d] = StagedOrFinal(d)]
    /\ stuck' = stuck \ {d}

\* An error is only logged, and the publication goes on.
RemoveStale(d) ==
    \/ /\ live' = [live EXCEPT ![d] = Absent]
       /\ stuck' = stuck \ {d}
    \/ /\ live[d] # Absent /\ live' = live
       /\ stuck' = stuck \cup {d}

Promote(d) ==
    /\ IF d \in run.lacks THEN RemoveStale(d) ELSE PromoteStaged(d)
    /\ staged' = [staged EXCEPT ![d] = Absent]

PromoteExtra(e) ==
    /\ run.pc = "promote extras" /\ e \in run.todo
    /\ Promote(e)
    /\ run' = [run EXCEPT !.todo = @ \ {e}]
    /\ UNCHANGED <<up, conf, files, budget, accepted, torn, stray>>

PublishSig ==
    /\ run.pc = "promote extras" /\ run.todo = {}
    /\ Promote("sig")
    /\ Goto("publish db")
    /\ torn' = torn \cup {"db"}
    /\ UNCHANGED <<up, conf, files, budget, accepted, stray>>

PublishDb ==
    /\ run.pc = "publish db"
    /\ Promote("db")
    /\ Goto("prune")
    /\ accepted' = Missed /\ torn' = torn \ {"db"}
    /\ UNCHANGED <<up, conf, files, budget, stray>>

PromotionFails ==
    /\ run.pc \in {"promote signatures", "promote packages", "promote extras", "publish db"}
    /\ run' = Idle /\ Cleanup
    /\ UNCHANGED <<up, conf, live, disk, budget, history>>

-----------------------------------------------------------------------------
\* Mutant: signatures are not kept.
KeptPackages == {f \in File \ run.gone : f[1] \in Listed(run.got) /\ f[2] = "package"}

\* KeepSet
Kept == {f \in File \ run.gone : f[1] \in Listed(run.got)}

\* PruneTree: any file that is not in the keep set may have outlived its grace
\* period.
PruneFile(f) ==
    /\ run.pc = "prune"
    /\ \/ disk' = [disk EXCEPT ![f] = Absent] /\ next' = next /\ f \notin Kept
       \/ next' = [next EXCEPT ![f] = Absent] /\ disk' = disk
    /\ UNCHANGED <<up, conf, docs, budget, run, history>>

\* A document that upstream lacks and that could not be removed before is not in
\* the keep set either.
PruneDoc(d) ==
    /\ run.pc = "prune" /\ d \in run.lacks \cap stuck
    /\ live' = [live EXCEPT ![d] = Absent] /\ stuck' = stuck \ {d}
    /\ UNCHANGED <<up, conf, staged, files, budget, run, accepted, torn, stray>>

Finish ==
    /\ run.pc = "prune"
    /\ IF Checked THEN budget' = budget ELSE FinishMissing
    /\ run' = Idle /\ Cleanup
    /\ UNCHANGED <<up, conf, live, disk, history>>

\* The process dies: memory goes, files stay.
Crash ==
    /\ run.pc # "idle"
    /\ run' = Idle
    /\ UNCHANGED <<up, conf, docs, files, budget, history>>

Rotate ==
    /\ up < Last /\ up' = up + 1
    /\ UNCHANGED <<conf, docs, files, budget, run, history>>

Database ==
    \/ Begin \/ StageDb \/ StageSig \/ CheckSig \/ BeginRefetchDb
    \/ \E d \in Doc : RefetchDb(d)

Packages ==
    \/ \E f \in File : KeepFile(f) \/ GetFile(f) \/ MissFile(f)
    \/ PackagesDone
    \/ \E f \in File : VerifyPair(f) \/ BeginRefetchPair(f)
                       \/ RefetchPackage(f) \/ RefetchSignature(f)
    \/ Verified

Publish ==
    \/ \E f \in File : PromoteSignature(f) \/ PromotePackage(f)
    \/ SignaturesPromoted \/ PackagesPromoted
    \/ \E e \in Extra : StageExtra(e) \/ PromoteExtra(e)
    \/ ExtrasStaged \/ PublishSig \/ PublishDb \/ PromotionFails
    \/ \E f \in File : PruneFile(f)
    \/ \E d \in Doc : PruneDoc(d)
    \/ Finish

Next == Database \/ Packages \/ Publish \/ Fail \/ Crash \/ Rotate

Spec == Init /\ [][Next]_vars
-----------------------------------------------------------------------------
(* Properties. *)

\* Generations agree on the content of p.
Settled(p) ==
    \A g, h \in Gen : Absent \in {Want[g][p], Want[h][p]} \/ Want[g][p] = Want[h][p]

\* What the live database lists is in place, but for the packages its run
\* missed, and in required mode with its signature, while later runs download,
\* verify, promote, prune, fail and die (arch.go "Promote the database last so
\* the published metadata chain is complete"); a name that is reused for other
\* content is overwritten before the database that lists it and is left out.
LiveComplete ==
    \A p \in Listed(live["db"]) \ accepted :
        Settled(p) =>
            /\ disk[<<p, "package">>] = Want[live["db"]][p]
            /\ conf.mode = "required" =>
                   disk[<<p, "signature">>] = Want[live["db"]][p]

\* With checks on, no signature stands beside another package than the one it
\* signs (arch.go "Signed modes stage both members so no unverified package
\* becomes visible"), but for a pair that a run died or failed in the middle
\* of, whose package was missed, or whose signature upstream lacks and could
\* not be removed; and a signature of the live database is its own and by a
\* trusted key, unless a run ended between their promotions or failed to
\* remove one that upstream lacks.
PairsMatch ==
    Checked =>
        /\ \A p \in Package \ (torn \cup stray) :
              disk[<<p, "signature">>] # Absent /\ disk[<<p, "package">>] # Absent
                => disk[<<p, "signature">>] = disk[<<p, "package">>]
        /\ "db" \notin torn /\ "sig" \notin stuck
             => live["sig"] \in {Absent, live["db"]} \cap ({Absent} \cup Trusted)

\* A companion file or signature that is there when the database goes live is no
\* older than the database, but for one that upstream lacks and that could not
\* be removed, which the code does not stop at (arch.go "drop the local copy so
\* a stale companion or signature is never served").
NoStaleCompanion ==
    [][run.pc = "publish db" /\ run'.pc = "prune" =>
         \A e \in (Extra \cup {"sig"}) \ stuck : live[e] = Absent \/ live[e] >= live'["db"]]_vars
=============================================================================
