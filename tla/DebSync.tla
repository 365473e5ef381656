------------------------------- MODULE DebSync -------------------------------
(***************************************************************************)
(* Synchronizing one apt suite or flat repository (mirror/deb.go syncDeb), *)
(* run after run, from an upstream that moves on between any two requests: *)
(* the release documents are staged and checked, then the package indexes  *)
(* they list, then the pool files the indexes list; indexes and their      *)
(* by-hash names are published before the release documents, one file after*)
(* the other and without a rollback, and pruned at the end.  A run may fail*)
(* or die between any two steps.                                           *)
(*                                                                         *)
(* A release document's version is the generation it belongs to, and a     *)
(* generation lists one issue of the package index in several compressed   *)
(* variants, each a file; the content of an index file is its issue.  A    *)
(* pool file's name names its content, so it is there or it is not; one    *)
(* that changes under its name is RpmSync's subject.  What pruning removes *)
(* of the unreferenced files, none without prune and all without a grace   *)
(* period, is left open here and worked out there.  Every Release asks for *)
(* by-hash.  Dry runs, traces, verify and the component and architecture   *)
(* filters are left out.                                                   *)
(***************************************************************************)
EXTENDS Integers, FiniteSets

CONSTANTS
    Last,          \* upstream publishes the generations 1..Last
    Serves,        \* Serves[g]: the release documents it serves with g
    Trusted,       \* generations whose signatures the configured keys verify
    Issue,         \* Issue[g]: the issue of the index that g lists
    Variant,       \* the compressed variants it lists
    Offers,        \* Offers[g]: those it serves with g
    Rank,          \* Rank[v]: which variant is parsed first
    Size,          \* Size[n]: the size of issue n
    Pool,          \* pool files
    Lists,         \* Lists[n]: those that issue n lists
    Confs,         \* the options of a run (signature_mode, missing_mode) and
                   \* whether the repository is flat, and whether its indexes
                   \* lie in a directory of it
    Retries        \* missing_retries

Gen == 1..Last
Doc == {"InRelease", "Release", "Release.gpg"}
Absent == 0
Partial == -1      \* the beginning of a file
Issues == {Issue[g] : g \in Gen}

ASSUME DebSyncAssumption ==
    /\ Last \in Nat \ {0}
    /\ Serves \in [Gen -> SUBSET Doc]
    /\ Trusted \subseteq Gen
    /\ Issue \in [Gen -> Nat \ {Absent}]
    /\ Offers \in [Gen -> SUBSET Variant] /\ Rank \in [Variant -> Nat]
    /\ Variant \cap Pool = {}
    /\ Size \in [Issues -> Nat] /\ Lists \in [Issues -> SUBSET Pool]
    /\ Confs \subseteq [mode : {"off", "if-present", "required"},
                        missing : {"fail", "retry", "ignore"},
                        flat : BOOLEAN, nested : BOOLEAN]
    /\ Retries \in Nat

VARIABLES
    up,            \* the generation upstream publishes
    conf,          \* the options of every run and the layout
    live, staged,  \* versions of the release documents, or Absent
    index, next,   \* the index files' issues: published, and staged
    byhash,        \* byhash[v][n]: what is published under the digest of n
    pool,          \* the pool files in place
    budget,        \* runs in a row that missed a file, up to Retries
    run,           \* the run at work: everything it holds in memory
    accepted,      \* accepted[g]: files that g was published without
    torn,          \* whether a publication was left halfway
    ahead,         \* whether Release is of another generation than the tree
    flawed,        \* whether an index was taken for another by its size, or
                   \* a by-hash name could not be made
    stuck,         \* documents upstream lacks that could not be removed
    behind         \* whether an index was replaced since InRelease was published

docs == <<live, staged>>
files == <<index, next, byhash, pool>>
history == <<accepted, torn, ahead, flawed, stuck, behind>>
vars == <<up, conf, docs, files, budget, run, history>>

Place == {"idle", "check InRelease", "check Release.gpg", "again Release",
          "again Release.gpg", "select", "indexes", "pool", "promote",
          "publish Release.gpg", "publish Release", "publish InRelease", "prune"} \cup Doc

Idle == [pc |-> "idle", again |-> FALSE, lacks |-> {}, got |-> Absent, auth |-> FALSE,
         todo |-> {}, unserved |-> {}, gone |-> {}, naming |-> {}]

RunState == [pc : Place, again : BOOLEAN, lacks : SUBSET Doc, got : Gen \cup {Absent},
             auth : BOOLEAN, todo : SUBSET (Variant \cup Pool), unserved : SUBSET Variant,
             gone : SUBSET Pool, naming : SUBSET Variant]

TypeOK ==
    /\ up \in Gen
    /\ conf \in Confs
    /\ live \in [Doc -> Gen \cup {Absent}] /\ staged \in [Doc -> Gen \cup {Absent}]
    /\ index \in [Variant -> Issues \cup {Absent}] /\ next \in [Variant -> Issues \cup {Absent}]
    /\ byhash \in [Variant -> [Issues -> Issues \cup {Absent, Partial}]]
    /\ pool \in SUBSET Pool
    /\ budget \in [Pool -> 0..Retries]
    /\ run \in RunState
    /\ accepted \in [Gen -> SUBSET (Pool \cup Variant)]
    /\ torn \in BOOLEAN /\ ahead \in BOOLEAN /\ flawed \in BOOLEAN
    /\ stuck \in SUBSET Doc /\ behind \in BOOLEAN

Init ==
    /\ up = 1
    /\ conf \in Confs
    /\ live = [d \in Doc |-> Absent] /\ staged = live
    /\ index = [v \in Variant |-> Absent] /\ next = index
    /\ byhash = [v \in Variant |-> [n \in Issues |-> Absent]]
    /\ pool = {} /\ budget = [p \in Pool |-> 0]
    /\ run = Idle
    /\ accepted = [g \in Gen |-> {}] /\ torn = FALSE /\ ahead = FALSE /\ flawed = FALSE
    /\ stuck = {} /\ behind = FALSE

-----------------------------------------------------------------------------
StagedOrFinal(d) == IF staged[d] # Absent THEN staged[d] ELSE live[d]

\* debReleaseSet.cleanup
Unstaged == [d \in Doc |-> Absent]

Goto(pc) == run' = [run EXCEPT !.pc = pc]

-----------------------------------------------------------------------------
(* stageDebRelease *)
Begin ==
    /\ run.pc = "idle"
    /\ Goto("InRelease")
    /\ UNCHANGED <<up, conf, docs, files, budget, history>>

\* debReleaseSet.fetch: a leftover goes first; a conditional request, unless
\* fresh, stages nothing when what is published is what upstream has.
Fetched(d, fresh) ==
    staged' = [staged EXCEPT ![d] = IF d \in Serves[up] /\ (fresh \/ live[d] # up)
                                      THEN up ELSE Absent]

Lacks(d) == IF d \in Serves[up] THEN run.lacks \ {d} ELSE run.lacks \cup {d}

AfterDoc(d) == CASE d = "InRelease" -> "Release" [] d = "Release" -> "Release.gpg"
                 [] d = "Release.gpg" -> IF conf.mode = "off" THEN "select"
                                         ELSE "check InRelease"

StageDoc(d) ==
    /\ run.pc = d
    /\ Fetched(d, FALSE)
    /\ run' = [run EXCEPT !.pc = AfterDoc(d), !.lacks = Lacks(d)]
    /\ UNCHANGED <<up, conf, live, files, budget, history>>

\* InRelease carries its own signature.  Nothing to check when it is missing.
CheckInRelease ==
    /\ run.pc = "check InRelease"
    /\ \/ "InRelease" \in run.lacks /\ run' = [run EXCEPT !.pc = "check Release.gpg"]
       \/ /\ "InRelease" \notin run.lacks
          /\ StagedOrFinal("InRelease") \in Trusted
          /\ run' = [run EXCEPT !.pc = "check Release.gpg", !.auth = TRUE, !.again = FALSE]
    /\ UNCHANGED <<up, conf, docs, files, budget, history>>

\* A check that fails, for whatever reason, is repeated once on a fresh file,
\* unless that has disappeared.
RefetchInRelease ==
    /\ run.pc = "check InRelease" /\ "InRelease" \notin run.lacks /\ ~run.again
    /\ Fetched("InRelease", TRUE)
    /\ run' = [run EXCEPT !.lacks = Lacks("InRelease"), !.again = "InRelease" \in Serves[up]]
    /\ UNCHANGED <<up, conf, live, files, budget, history>>

\* Release went away while the pair was fetched again.
Disappeared == run.again /\ "Release" \in run.lacks

\* Mutant: the pair is not compared.
CheckEitherRelease ==
    /\ run.pc = "check Release.gpg"
    /\ \/ "Release.gpg" \in run.lacks /\ ~Disappeared /\ Goto("select")
       \/ /\ run.lacks \cap {"Release", "Release.gpg"} = {}
          /\ StagedOrFinal("Release.gpg") \in Trusted
          /\ run' = [run EXCEPT !.pc = "select", !.auth = @ \/ "InRelease" \in run.lacks]
    /\ UNCHANGED <<up, conf, docs, files, budget, history>>

\* Release.gpg is a signature of this Release; it counts for the data when
\* there is no InRelease.
CheckRelease ==
    /\ run.pc = "check Release.gpg"
    /\ \/ "Release.gpg" \in run.lacks /\ ~Disappeared /\ Goto("select")
       \/ /\ run.lacks \cap {"Release", "Release.gpg"} = {}
          /\ StagedOrFinal("Release.gpg") = StagedOrFinal("Release")
          /\ StagedOrFinal("Release") \in Trusted
          /\ run' = [run EXCEPT !.pc = "select", !.auth = @ \/ "InRelease" \in run.lacks]
    /\ UNCHANGED <<up, conf, docs, files, budget, history>>

BeginRefetchPair ==
    /\ run.pc = "check Release.gpg" /\ ~run.again
    /\ run.lacks \cap {"Release", "Release.gpg"} = {}
    /\ run' = [run EXCEPT !.pc = "again Release", !.again = TRUE]
    /\ UNCHANGED <<up, conf, docs, files, budget, history>>

RefetchPair(d) ==
    /\ d # "InRelease" /\ run.pc = (IF d = "Release" THEN "again Release" ELSE "again Release.gpg")
    /\ Fetched(d, TRUE)
    /\ run' = [run EXCEPT !.pc = IF d = "Release" THEN "again Release.gpg" ELSE "check Release.gpg",
                          !.lacks = Lacks(d)]
    /\ UNCHANGED <<up, conf, live, files, budget, history>>

\* The data is InRelease's, or Release's when there is none (selectData).
DataDoc == IF "InRelease" \in run.lacks THEN "Release" ELSE "InRelease"

\* What ends the run here, of what upstream lacks.
Unusable ==
    \/ DataDoc \in run.lacks
    \/ conf.mode # "off" /\ "Release" \in run.lacks /\ "Release.gpg" \notin run.lacks
    \/ conf.mode = "required" /\ {"InRelease", "Release.gpg"} \subseteq run.lacks

\* parseRelease: the indexes it lists are wanted.
Select ==
    /\ run.pc = "select" /\ ~Unusable
    /\ run' = [run EXCEPT !.pc = "indexes", !.got = StagedOrFinal(DataDoc), !.todo = Variant]
    /\ UNCHANGED <<up, conf, docs, files, budget, history>>

-----------------------------------------------------------------------------
(* fetch.Many over the indexes: whether a file is in place is judged by its  *)
(* checksum when the release is authenticated, and by its size otherwise.    *)
Listed == Issue[run.got]

InPlace(v) ==
    /\ index[v] # Absent
    /\ IF run.auth THEN index[v] = Listed ELSE Size[index[v]] = Size[Listed]

Take(f) == run.pc \in {"indexes", "pool"} /\ f \in run.todo

\* Any leftover of an earlier run goes first.
KeepIndex(v) ==
    /\ Take(v) /\ InPlace(v)
    /\ next' = [next EXCEPT ![v] = Absent]
    /\ run' = [run EXCEPT !.todo = @ \ {v}]
    /\ flawed' = (flawed \/ index[v] # Listed)
    /\ UNCHANGED <<up, conf, docs, index, byhash, pool, budget, accepted, torn, ahead, stuck, behind>>

\* Upstream serves the index of its own generation, and the checksum says
\* whether it is the one wanted; a wrong one fails the run.
StageIndex(v) ==
    /\ Take(v) /\ ~InPlace(v)
    /\ v \in Offers[up] /\ Issue[up] = Listed
    /\ next' = [next EXCEPT ![v] = Listed]
    /\ run' = [run EXCEPT !.todo = @ \ {v}]
    /\ UNCHANGED <<up, conf, docs, index, byhash, pool, budget, history>>

\* Listed and not served, which is normal.
MissIndex(v) ==
    /\ Take(v) /\ ~InPlace(v)
    /\ v \notin Offers[up]
    /\ next' = [next EXCEPT ![v] = Absent]
    /\ run' = [run EXCEPT !.todo = @ \ {v}, !.unserved = @ \cup {v}]
    /\ UNCHANGED <<up, conf, docs, index, byhash, pool, budget, history>>

\* One variant is parsed, staged or in place.
Parsed == CHOOSE v \in Variant \ run.unserved :
              \A w \in Variant \ run.unserved : Rank[v] <= Rank[w]

Wanted == IF run.unserved = Variant THEN {}
          ELSE Lists[IF next[Parsed] # Absent THEN next[Parsed] ELSE index[Parsed]]

IndexesDone ==
    /\ run.pc = "indexes" /\ run.todo = {}
    /\ run' = [run EXCEPT !.pc = "pool", !.todo = Wanted]
    /\ UNCHANGED <<up, conf, docs, files, budget, history>>

FetchPoolFile(p) ==
    /\ Take(p) /\ p \in Pool
    /\ pool' = pool \cup {p}
    /\ run' = [run EXCEPT !.todo = @ \ {p}]
    /\ UNCHANGED <<up, conf, docs, index, next, byhash, budget, history>>

\* Not found: Tolerate lets the run go on.
MissPoolFile(p) ==
    /\ Take(p) /\ p \in Pool \ pool
    /\ conf.missing # "fail"
    /\ run' = [run EXCEPT !.todo = @ \ {p}, !.gone = @ \cup {p}]
    /\ UNCHANGED <<up, conf, docs, files, budget, history>>

-----------------------------------------------------------------------------
(* Missing.Finish, before the publication when the release is authenticated  *)
(* and at the very end otherwise.                                            *)
\* The record's count of runs has no limit; only whether it has reached Retries is
\* ever asked, so that counts from there on are one.
Counted(p) == IF p \notin run.gone THEN 0
              ELSE IF budget[p] < Retries THEN budget[p] + 1 ELSE Retries

Unresolved == {p \in run.gone : conf.missing = "retry" /\ Counted(p) < Retries}

FinishMissing == budget' = IF conf.missing = "fail" THEN budget
                           ELSE [p \in Pool |-> Counted(p)]

\* What the tree will lack of what the release lists.
Lacking == run.gone \cup run.unserved

Promoting == run' = [run EXCEPT !.pc = "promote", !.todo = Variant \ run.unserved]

\* Mutant: missing files are reported at the end, whatever the release says.
PoolDoneLate ==
    /\ run.pc = "pool" /\ run.todo = {}
    /\ Promoting
    /\ UNCHANGED <<up, conf, docs, files, budget, history>>

PoolDone ==
    /\ run.pc = "pool" /\ run.todo = {}
    /\ IF run.auth /\ Unresolved # {}
         THEN run' = Idle /\ staged' = Unstaged /\ accepted' = accepted
         ELSE Promoting /\ staged' = staged /\ accepted' = [accepted EXCEPT ![run.got] = @ \cup Lacking]
    /\ IF run.auth THEN FinishMissing ELSE budget' = budget
    /\ UNCHANGED <<up, conf, live, files, torn, ahead, flawed, stuck, behind>>

Publishing == run.pc \in {"publish Release.gpg", "publish Release", "publish InRelease"}

\* Until the first promotion an error ends the run, one of a check's second
\* attempt too, and what was staged of the release documents is removed.
Fail ==
    /\ run.pc \notin {"idle", "promote", "prune"} /\ ~Publishing
    /\ run' = Idle /\ staged' = Unstaged
    /\ UNCHANGED <<up, conf, live, files, budget, history>>

-----------------------------------------------------------------------------
(* The publication *)
PromoteIndex(v) ==
    /\ run.pc = "promote" /\ v \in run.todo /\ run.naming = {}
    /\ index' = [index EXCEPT ![v] = IF next[v] # Absent THEN next[v] ELSE @]
    /\ next' = [next EXCEPT ![v] = Absent]
    /\ run' = [run EXCEPT !.todo = @ \ {v}, !.naming = {v}]
    /\ behind' = (behind \/ next[v] # Absent)
    /\ UNCHANGED <<up, conf, docs, byhash, pool, budget, accepted, torn, ahead, flawed, stuck>>

\* addByHash: an index beside the Release gets no name; a name that exists is
\* kept, a new one is linked or copied, and one that cannot be made is only
\* logged.
AddByHash(v) ==
    /\ run.pc = "promote" /\ v \in run.naming
    /\ \/ /\ ~conf.nested \/ byhash[v][Listed] # Absent
          /\ UNCHANGED <<byhash, flawed>>
       \/ /\ conf.nested /\ byhash[v][Listed] = Absent
          /\ byhash' = [byhash EXCEPT ![v][Listed] = index[v]] /\ flawed' = flawed
       \/ /\ conf.nested /\ byhash[v][Listed] = Absent
          /\ byhash' = byhash /\ flawed' = TRUE
    /\ run' = [run EXCEPT !.naming = {}]
    /\ UNCHANGED <<up, conf, docs, index, next, pool, budget, accepted, torn, ahead, stuck, behind>>

IndexesPromoted ==
    /\ run.pc = "promote" /\ run.todo = {} /\ run.naming = {}
    /\ Goto("publish Release.gpg")
    /\ UNCHANGED <<up, conf, docs, files, budget, history>>

PromoteStaged(d) ==
    /\ live' = [live EXCEPT ![d] = StagedOrFinal(d)]
    /\ stuck' = stuck \ {d}

\* An error is only logged, and the publication goes on.
RemoveStale(d) ==
    \/ /\ live' = [live EXCEPT ![d] = Absent]
       /\ stuck' = stuck \ {d}
    \/ /\ live[d] # Absent /\ live' = live
       /\ stuck' = stuck \cup {d}

Promote(d) ==
    /\ IF d \in run.lacks THEN RemoveStale(d) ELSE PromoteStaged(d)
    /\ staged' = [staged EXCEPT ![d] = Absent]

PublishSignature ==
    /\ run.pc = "publish Release.gpg"
    /\ Promote("Release.gpg") /\ Goto("publish Release")
    /\ UNCHANGED <<up, conf, files, budget, accepted, torn, ahead, flawed, behind>>

\* Release is not compared with InRelease.
PublishRelease ==
    /\ run.pc = "publish Release"
    /\ Promote("Release") /\ Goto("publish InRelease")
    /\ ahead' = ("InRelease" \notin run.lacks /\ live'["Release"] # run.got)
    /\ UNCHANGED <<up, conf, files, budget, accepted, torn, flawed, behind>>

PublishInRelease ==
    /\ run.pc = "publish InRelease"
    /\ Promote("InRelease") /\ Goto("prune")
    /\ torn' = FALSE /\ accepted' = [accepted EXCEPT ![run.got] = Lacking]
    /\ behind' = FALSE
    /\ UNCHANGED <<up, conf, files, budget, ahead, flawed>>

\* Between the promotions of Release.gpg and Release.
Halfway == run.pc = "publish Release"

\* Nothing is rolled back.
PublicationFails ==
    /\ run.pc = "promote" \/ Publishing
    /\ run' = Idle /\ staged' = Unstaged
    /\ torn' = (torn \/ Halfway)
    /\ UNCHANGED <<up, conf, live, files, budget, accepted, ahead, flawed, stuck, behind>>

-----------------------------------------------------------------------------
\* PruneTree of the suite, whose pool is shared, or of the flat repository: any
\* file that is not in the keep set may have outlived its grace period.
PruneIndex(v) ==
    /\ run.pc = "prune"
    /\ \/ /\ v \in run.unserved
          /\ index' = [index EXCEPT ![v] = Absent] /\ next' = next
       \/ next' = [next EXCEPT ![v] = Absent] /\ index' = index
    /\ UNCHANGED <<up, conf, docs, byhash, pool, budget, run, history>>

\* Mutant: by-hash names are not added to the keep set.
NoNameKept(v, n) == FALSE

\* The by-hash names that addByHash keeps.
KeptName(v, n) == conf.nested /\ v \notin run.unserved /\ n = Listed

PruneName(v, n) ==
    /\ run.pc = "prune" /\ ~KeptName(v, n)
    /\ byhash' = [byhash EXCEPT ![v][n] = Absent]
    /\ UNCHANGED <<up, conf, docs, index, next, pool, budget, run, history>>

PrunePoolFile(p) ==
    /\ run.pc = "prune" /\ conf.flat /\ p \notin Wanted \ run.gone
    /\ pool' = pool \ {p}
    /\ UNCHANGED <<up, conf, docs, index, next, byhash, budget, run, history>>

\* A document that upstream lacks and that could not be removed before is not in
\* the keep set either.
PruneDoc(d) ==
    /\ run.pc = "prune" /\ d \in run.lacks \cap stuck
    /\ live' = [live EXCEPT ![d] = Absent] /\ stuck' = stuck \ {d}
    /\ UNCHANGED <<up, conf, staged, files, budget, run, accepted, torn, ahead, flawed, behind>>

Finish ==
    /\ run.pc = "prune"
    /\ run' = Idle
    /\ IF run.auth THEN budget' = budget ELSE FinishMissing
    /\ UNCHANGED <<up, conf, docs, files, history>>

-----------------------------------------------------------------------------
\* The process dies: memory goes, files stay.  Where the file system
\* has no hard links a copy that was being made stays, incomplete.
Crash ==
    /\ run.pc # "idle"
    /\ run' = Idle
    /\ torn' = (torn \/ Halfway)
    /\ \/ UNCHANGED <<byhash, flawed>>
       \/ \E v \in run.naming :
             /\ conf.nested /\ byhash[v][Listed] = Absent
             /\ byhash' = [byhash EXCEPT ![v][Listed] = Partial] /\ flawed' = TRUE
    /\ UNCHANGED <<up, conf, docs, index, next, pool, budget, accepted, ahead, stuck, behind>>

Rotate ==
    /\ up < Last /\ up' = up + 1
    /\ UNCHANGED <<conf, docs, files, budget, run, history>>

Stage ==
    \/ Begin
    \/ \E d \in Doc : StageDoc(d) \/ RefetchPair(d)
    \/ CheckInRelease \/ RefetchInRelease \/ CheckRelease \/ BeginRefetchPair
    \/ Select \/ Fail

Fetch ==
    \/ \E v \in Variant : KeepIndex(v) \/ StageIndex(v) \/ MissIndex(v)
    \/ IndexesDone
    \/ \E p \in Pool : FetchPoolFile(p) \/ MissPoolFile(p)
    \/ PoolDone

Publish ==
    \/ \E v \in Variant : PromoteIndex(v) \/ AddByHash(v)
    \/ IndexesPromoted
    \/ PublishSignature \/ PublishRelease \/ PublishInRelease \/ PublicationFails

Prune ==
    \/ \E v \in Variant : PruneIndex(v) \/ \E n \in Issues : PruneName(v, n)
    \/ \E p \in Pool : PrunePoolFile(p)
    \/ \E d \in Doc : PruneDoc(d)
    \/ Finish

Next == Stage \/ Fetch \/ Publish \/ Prune \/ Crash \/ Rotate

Spec == Init /\ [][Next]_vars
-----------------------------------------------------------------------------
(* Properties. *)

\* The generation a client of the tree follows: InRelease's, or Release's where
\* there is no InRelease, unless that Release was published beside an InRelease
\* of another generation, which nothing in the code compares.
Main == IF live["InRelease"] # Absent THEN live["InRelease"]
        ELSE IF ahead THEN Absent ELSE live["Release"]

\* Whatever later runs download, overwrite, fail at, die in and prune, a client
\* of the live release finds every pool file that was not missed, and every
\* index that was served: under its digest, unless the index lies beside the
\* Release, and under its plain name until a run replaces one (deb.go "Promote
\* the staged indexes now the pool files they reference exist", "Promote the
\* release files last to complete the metadata chain").  Excepted are an
\* unauthenticated run that took an index of the same size for the one listed,
\* a by-hash name that could not be made, and an InRelease that upstream lacks
\* and that could not be removed, for which the code only logs a warning.
LiveComplete ==
    Main # Absent /\ ~flawed /\ "InRelease" \notin stuck =>
        /\ Variant \subseteq accepted[Main] \/ Lists[Issue[Main]] \subseteq pool \cup accepted[Main]
        /\ \A v \in Variant \ accepted[Main] :
              /\ conf.nested => byhash[v][Issue[Main]] = Issue[Main]
              /\ behind \/ index[v] = Issue[Main]

\* With signature checks on, the live Release.gpg signs the live Release unless a
\* run died or failed between the two, which the next publication repairs, or
\* upstream lacks it and it could not be removed, which is only logged; and in
\* required mode the release that clients follow is one whose signature was
\* verified.
SignatureMatches ==
    /\ conf.mode # "off" /\ ~torn /\ ~Halfway /\ "Release.gpg" \notin stuck
         => live["Release.gpg"] \in {live["Release"], Absent}
    /\ conf.mode = "required" => Main \in Trusted \cup {Absent}

\* The release clients follow never goes back to an older generation, and an
\* authenticated one is published only without pool files that were missed in
\* as many runs in a row as the budget has.
PublishedInOrder ==
    [][Main' # Main /\ Main' # Absent =>
         /\ Main' > Main
         /\ run.auth => \A p \in run.gone :
               conf.missing = "ignore" \/ budget[p] >= Retries]_vars
=============================================================================
