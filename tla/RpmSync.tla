------------------------------- MODULE RpmSync -------------------------------
(***************************************************************************)
(* Synchronizing one RPM repository (mirror/rpm.go syncRPM), run after run,*)
(* from an upstream that publishes one generation after another: staging   *)
(* and verifying the root files, fetching what they list, counting missing *)
(* files (fetch/missing.go), hiding stale packages, publishing with        *)
(* rollback, and pruning with a grace period (fetch.go PruneTree).  A run  *)
(* may fail or die between any two steps.  Upstream may move on between    *)
(* any two requests.                                                       *)
(*                                                                         *)
(* A root file's version is the generation it belongs to.  Its stamp is the*)
(* newest generation that a conditional request with the file's            *)
(* modification time hides: its own generation after a promotion, which    *)
(* keeps Last-Modified.  A listed file's content is a number; a download   *)
(* that fails its checksum is an error.  Dry runs are left out, and so are *)
(* traces, which are files nothing here relates to.                        *)
(***************************************************************************)
EXTENDS Integers, FiniteSets

CONSTANTS
    Last,          \* upstream publishes the generations 1..Last
    Serves,        \* Serves[g]: the root files it serves with generation g
    Trusted,       \* generations whose signature the configured keys verify
    Path,          \* files a generation may list
    Index,         \* those repomd.xml itself lists
    Want,          \* Want[g][p]: the content generation g lists for p, or Absent
    Modes,         \* signature_mode
    MissingModes,  \* missing_mode
    Retries,       \* missing_retries
    Grace,         \* prune_grace
    MaxTime        \* bound of the clock

Gen == 1..Last
Root == {"key", "sig", "repomd"}
Absent == 0
Content == Nat \ {Absent}

ASSUME RpmSyncAssumption ==
    /\ Last \in Nat \ {0}
    /\ Serves \in [Gen -> SUBSET Root] /\ \A g \in Gen : "repomd" \in Serves[g]
    /\ Trusted \subseteq Gen
    /\ Index \subseteq Path
    /\ Want \in [Gen -> [Path -> Nat]]
    /\ Modes \subseteq {"off", "if-present", "required"}
    /\ MissingModes \subseteq {"fail", "retry", "ignore"}
    /\ Retries \in Nat /\ Grace \in Nat /\ MaxTime \in Nat

VARIABLES
    up,            \* the generation upstream publishes
    now,           \* the clock of the grace period
    mode, missing, \* the options of every run
    live,          \* the published root files: version and stamp
    staged,        \* versions of the staged ones, or Absent
    disk,          \* contents of the other files
    hidden,        \* contents of .withdrawn copies
    budget,        \* runs in a row that missed a file, up to Retries
    aged,          \* when pruning first found a file unreferenced, or Never
    run,           \* the run at work: everything it holds in memory
    accepted,      \* files the live generation was published without
    crashed,       \* whether a run has died
    torn           \* whether a publication was left halfway

disks == <<live, staged, disk, hidden, budget, aged>>
vars == <<up, now, mode, missing, disks, run, accepted, crashed, torn>>

Never == -1
Place == {"idle", "repomd", "sig", "key", "verify", "metadata", "packages", "withdraw",
          "publish key", "publish sig", "publish repomd", "unhide", "prune"}

RootFile == [ver : Gen \cup {Absent}, stamp : Gen \cup {Absent}]
NoFile == [ver |-> Absent, stamp |-> Absent]

Idle == [pc |-> "idle", fresh |-> FALSE, lacks |-> {}, got |-> Absent, auth |-> FALSE,
         todo |-> {}, gone |-> {}, withdrawn |-> {}, before |-> [f \in Root |-> NoFile]]

RunState ==
    [pc : Place, fresh : BOOLEAN, lacks : SUBSET Root, got : Gen \cup {Absent},
     auth : BOOLEAN, todo : SUBSET Path, gone : SUBSET Path,
     withdrawn : SUBSET Path, before : [Root -> RootFile]]

TypeOK ==
    /\ up \in Gen /\ now \in 0..MaxTime
    /\ mode \in Modes /\ missing \in MissingModes
    /\ live \in [Root -> RootFile]
    /\ staged \in [Root -> Gen \cup {Absent}]
    /\ disk \in [Path -> Nat] /\ hidden \in [Path -> Nat]
    /\ budget \in [Path -> 0..Retries]
    /\ aged \in [Path -> {Never} \cup 0..MaxTime]
    /\ run \in RunState
    /\ accepted \in SUBSET Path
    /\ crashed \in BOOLEAN /\ torn \in BOOLEAN

Init ==
    /\ up = 1 /\ now = 0
    /\ mode \in Modes /\ missing \in MissingModes
    /\ live = [f \in Root |-> NoFile]
    /\ staged = [f \in Root |-> Absent]
    /\ disk = [p \in Path |-> Absent] /\ hidden = [p \in Path |-> Absent]
    /\ budget = [p \in Path |-> 0] /\ aged = [p \in Path |-> Never]
    /\ run = Idle
    /\ accepted = {} /\ crashed = FALSE /\ torn = FALSE

-----------------------------------------------------------------------------
Listed(g) == {p \in Path : Want[g][p] # Absent}

StagedOrFinal(f) == IF staged[f] # Absent THEN staged[f] ELSE live[f].ver

\* root.cleanup
Unstaged == [f \in Root |-> Absent]

Goto(pc) == run' = [run EXCEPT !.pc = pc]

\* What every step of a run leaves alone.
Elsewhere == UNCHANGED <<up, now, mode, missing>>

-----------------------------------------------------------------------------
(* stageRPMRoot *)
Begin ==
    /\ run.pc = "idle"
    /\ Goto("repomd")
    /\ Elsewhere /\ UNCHANGED <<disks, accepted, crashed, torn>>

AfterRoot(f) == CASE f = "repomd" -> "sig" [] f = "sig" -> "key" [] f = "key" -> "verify"

\* A conditional request, and no newer file upstream.  FileFresh asks
\* unconditionally.
NotModified(f) ==
    /\ f \in Serves[up] /\ ~run.fresh
    /\ live[f].ver # Absent /\ live[f].stamp >= up

\* Any leftover of an earlier run goes first.  Upstream may lack key and
\* signature, or forbid them.
StageRoot(f) ==
    /\ run.pc = f
    /\ f \in Serves[up] \/ f # "repomd"
    /\ staged' = [staged EXCEPT ![f] =
                     IF f \in Serves[up] /\ ~NotModified(f) THEN up ELSE Absent]
    /\ run' = [run EXCEPT !.pc = AfterRoot(f),
                          !.lacks = IF f \in Serves[up] THEN @ ELSE @ \cup {f}]
    /\ Elsewhere /\ UNCHANGED <<live, disk, hidden, budget, aged, accepted, crashed, torn>>

Unsigned == "sig" \in run.lacks

\* repomd.xml is read, and the indexes it lists are wanted.
Accept(auth) ==
    LET g == StagedOrFinal("repomd")
    IN  run' = [run EXCEPT !.pc = "metadata", !.got = g, !.auth = auth,
                           !.todo = Listed(g) \cap Index]

AcceptUnverified ==
    /\ run.pc = "verify"
    /\ mode = "off" \/ (mode = "if-present" /\ Unsigned)
    /\ Accept(FALSE)
    /\ Elsewhere /\ UNCHANGED <<disks, accepted, crashed, torn>>

\* Mutant: any signature will do.
VerifyNothing ==
    /\ run.pc = "verify"
    /\ mode # "off" /\ ~Unsigned
    /\ Accept(TRUE)
    /\ Elsewhere /\ UNCHANGED <<disks, accepted, crashed, torn>>

\* The signature is of this repomd.xml, by a key that is trusted.
Verify ==
    /\ run.pc = "verify"
    /\ mode # "off" /\ ~Unsigned
    /\ StagedOrFinal("sig") = StagedOrFinal("repomd")
    /\ StagedOrFinal("sig") \in Trusted
    /\ Accept(TRUE)
    /\ Elsewhere /\ UNCHANGED <<disks, accepted, crashed, torn>>

\* A check that fails, for whatever reason, is repeated once on fresh files.
Refetch ==
    /\ run.pc = "verify"
    /\ mode # "off" /\ ~Unsigned /\ ~run.fresh
    /\ run' = [run EXCEPT !.pc = "repomd", !.fresh = TRUE, !.lacks = {}]
    /\ Elsewhere /\ UNCHANGED <<disks, accepted, crashed, torn>>

\* Until publication an error ends the run, and root.cleanup removes what was
\* staged; the check of the signature fails so only when it fails again, or
\* when there is none and there must be.
Fail ==
    /\ \/ run.pc \in Root \cup {"metadata", "packages"}
       \/ run.pc = "verify" /\ mode # "off"
          /\ IF Unsigned THEN mode = "required" ELSE run.fresh
    /\ staged' = Unstaged
    /\ run' = Idle
    /\ Elsewhere /\ UNCHANGED <<live, disk, hidden, budget, aged, accepted, crashed, torn>>

-----------------------------------------------------------------------------
(* fetch.Many over the indexes, then over the packages.  Whether a file is   *)
(* in place is judged by its checksum when the root is authenticated, and by *)
(* its size alone otherwise.                                                 *)
InPlace(p) == disk[p] = Want[run.got][p]

Take(p) == run.pc \in {"metadata", "packages"} /\ p \in run.todo

FindInPlace(p) ==
    /\ Take(p)
    /\ InPlace(p) \/ (~run.auth /\ disk[p] # Absent)
    /\ run' = [run EXCEPT !.todo = @ \ {p}]
    /\ Elsewhere /\ UNCHANGED <<disks, accepted, crashed, torn>>

Download(p) ==
    /\ Take(p) /\ ~InPlace(p)
    /\ disk' = [disk EXCEPT ![p] = Want[run.got][p]]
    /\ run' = [run EXCEPT !.todo = @ \ {p}]
    /\ Elsewhere /\ UNCHANGED <<live, staged, hidden, budget, aged, accepted, crashed, torn>>

\* Not found: Tolerate lets the run go on, unless missing_mode is fail or the
\* file is an index (Fail).
Miss(p) ==
    /\ Take(p) /\ ~InPlace(p)
    /\ run.pc = "packages" /\ missing # "fail"
    /\ run' = [run EXCEPT !.todo = @ \ {p}, !.gone = @ \cup {p}]
    /\ Elsewhere /\ UNCHANGED <<disks, accepted, crashed, torn>>

IndexesDone ==
    /\ run.pc = "metadata" /\ run.todo = {}
    /\ run' = [run EXCEPT !.pc = "packages", !.todo = Listed(run.got) \ Index]
    /\ Elsewhere /\ UNCHANGED <<disks, accepted, crashed, torn>>

\* Mutant: a file that is served again pays its misses back one by one.
CountedBack(p) == IF p \notin run.gone THEN budget[p] - 1
                  ELSE IF budget[p] < Retries THEN budget[p] + 1 ELSE Retries

\* Missing.Finish: what was missed this time counts on, everything else starts
\* over; what is inside its budget fails the run.
Counted(p) == IF p \notin run.gone THEN 0
              ELSE IF budget[p] < Retries THEN budget[p] + 1 ELSE Retries

Unresolved == {p \in run.gone : missing = "retry" /\ Counted(p) < Retries}

\* Mutant: nothing fails the run.
FinishMissingLeniently ==
    /\ run.pc = "packages" /\ run.todo = {}
    /\ budget' = IF missing = "fail" THEN budget ELSE [p \in Path |-> Counted(p)]
    /\ run' = [run EXCEPT !.pc = "withdraw", !.todo = IF run.auth THEN run.gone ELSE {}]
    /\ UNCHANGED staged
    /\ Elsewhere /\ UNCHANGED <<live, disk, hidden, aged, accepted, crashed, torn>>

FinishMissing ==
    /\ run.pc = "packages" /\ run.todo = {}
    /\ budget' = IF missing = "fail" THEN budget ELSE [p \in Path |-> Counted(p)]
    /\ IF Unresolved = {}
         THEN /\ run' = [run EXCEPT !.pc = "withdraw",
                                    !.todo = IF run.auth THEN run.gone ELSE {}]
              /\ UNCHANGED staged
         ELSE run' = Idle /\ staged' = Unstaged
    /\ Elsewhere /\ UNCHANGED <<live, disk, hidden, aged, accepted, crashed, torn>>

-----------------------------------------------------------------------------
(* withdrawMissingPackages, publishRPMRoot, finishWithdrawnPackages. *)
Withdraw(p) ==
    /\ run.pc = "withdraw" /\ p \in run.todo
    /\ hidden' = IF disk[p] = Absent THEN hidden ELSE [hidden EXCEPT ![p] = disk[p]]
    /\ disk' = [disk EXCEPT ![p] = Absent]
    /\ run' = [run EXCEPT !.todo = @ \ {p},
                          !.withdrawn = IF disk[p] = Absent THEN @ ELSE @ \cup {p}]
    /\ Elsewhere /\ UNCHANGED <<live, staged, budget, aged, accepted, crashed, torn>>

\* finishWithdrawnPackages(false): what was hidden comes back, as far as the
\* renames succeed.
PutBack ==
    \E back \in SUBSET run.withdrawn :
        /\ disk' = [p \in Path |-> IF p \in back THEN hidden[p] ELSE disk[p]]
        /\ hidden' = [p \in Path |-> IF p \in back THEN Absent ELSE hidden[p]]

WithdrawFails ==
    /\ run.pc = "withdraw"
    /\ PutBack
    /\ staged' = Unstaged /\ run' = Idle
    /\ Elsewhere /\ UNCHANGED <<live, budget, aged, accepted, crashed, torn>>

\* snapshotRPMRoot
Snapshot ==
    /\ run.pc = "withdraw" /\ run.todo = {}
    /\ run' = [run EXCEPT !.pc = "publish key", !.before = live]
    /\ Elsewhere /\ UNCHANGED <<disks, accepted, crashed, torn>>

\* PromoteStaged keeps the modification time; an unchanged file is not staged.
Promote(f) ==
    /\ live' = [live EXCEPT ![f] =
                   IF f \in run.lacks THEN NoFile
                   ELSE IF staged[f] # Absent THEN [ver |-> staged[f], stamp |-> staged[f]]
                   ELSE @]
    /\ staged' = IF f \in run.lacks THEN staged ELSE [staged EXCEPT ![f] = Absent]

\* The key, then the signature; what upstream lacks is removed.
PublishKey ==
    /\ run.pc = "publish key"
    /\ Promote("key") /\ Goto("publish sig")
    /\ Elsewhere /\ UNCHANGED <<disk, hidden, budget, aged, accepted, crashed, torn>>

PublishSignature ==
    /\ run.pc = "publish sig"
    /\ Promote("sig") /\ Goto("publish repomd")
    /\ Elsewhere /\ UNCHANGED <<disk, hidden, budget, aged, accepted, crashed, torn>>

PublishRepomd ==
    /\ run.pc = "publish repomd"
    /\ Promote("repomd") /\ Goto("unhide")
    /\ accepted' = run.gone /\ torn' = FALSE
    /\ Elsewhere /\ UNCHANGED <<disk, hidden, budget, aged, crashed>>

Publishing == run.pc \in {"publish key", "publish sig", "publish repomd"}

\* Mutant: no rollback.
LeaveTorn ==
    /\ Publishing
    /\ UNCHANGED live
    /\ torn' = torn
    /\ PutBack
    /\ staged' = Unstaged /\ run' = Idle
    /\ Elsewhere /\ UNCHANGED <<budget, aged, accepted, crashed>>

\* A step of the publication fails and restoreRPMRoot writes the snapshot
\* back, as new files, so that they look as new as anything upstream has; it
\* may fail for some of them.
RollBack ==
    /\ Publishing
    /\ \E restored \in SUBSET Root :
        /\ live' = [f \in Root |->
                      IF f \notin restored THEN live[f]
                      ELSE IF run.before[f].ver = Absent THEN NoFile
                      ELSE [ver |-> run.before[f].ver, stamp |-> up]]
        /\ torn' = (torn \/ (run.pc = "publish repomd" /\ "sig" \notin restored))
    /\ PutBack
    /\ staged' = Unstaged /\ run' = Idle
    /\ Elsewhere /\ UNCHANGED <<budget, aged, accepted, crashed>>

\* finishWithdrawnPackages(true), which only warns where it fails.
Unhide ==
    /\ run.pc = "unhide"
    /\ \E removed \in SUBSET run.withdrawn :
          hidden' = [p \in Path |-> IF p \in removed THEN Absent ELSE hidden[p]]
    /\ Goto("prune")
    /\ Elsewhere /\ UNCHANGED <<live, staged, disk, budget, aged, accepted, crashed, torn>>

-----------------------------------------------------------------------------
(* PruneTree *)
\* Mutant: the packages are not added to the keep set.
KeptIndexes == Listed(run.got) \cap Index

\* The keep set, root files aside.
Kept == Listed(run.got) \ run.gone

Expired ==
    {p \in Path \ Kept :
        /\ disk[p] # Absent
        /\ Grace > 0 => aged[p] # Never /\ now - aged[p] >= Grace}

\* Mutant: a file in use again keeps its first-seen time.
PruneForgetful ==
    /\ run.pc = "prune"
    /\ disk' = [p \in Path |-> IF p \in Expired THEN Absent ELSE disk[p]]
    /\ aged' = IF Grace = 0 THEN aged
               ELSE [p \in Path |-> IF disk'[p] = Absent THEN Never
                                    ELSE IF aged[p] = Never /\ p \notin Kept THEN now
                                    ELSE aged[p]]
    /\ hidden' = [p \in Path |-> Absent] /\ staged' = Unstaged
    /\ run' = Idle
    /\ Elsewhere /\ UNCHANGED <<live, budget, accepted, crashed, torn>>

\* Work files go at once, the others after the grace period.
Prune ==
    /\ run.pc = "prune"
    /\ disk' = [p \in Path |-> IF p \in Expired THEN Absent ELSE disk[p]]
    /\ aged' = IF Grace = 0 THEN aged
               ELSE [p \in Path |-> IF p \in Kept \/ disk'[p] = Absent THEN Never
                                    ELSE IF aged[p] = Never THEN now
                                    ELSE aged[p]]
    /\ hidden' = [p \in Path |-> Absent] /\ staged' = Unstaged
    /\ run' = Idle
    /\ Elsewhere /\ UNCHANGED <<live, budget, accepted, crashed, torn>>

-----------------------------------------------------------------------------
\* The process dies: memory goes, files stay; in the middle of a walk, some
\* expired files are gone and the grace bookkeeping is as it was.
Crash ==
    /\ run.pc # "idle"
    /\ \E pruned \in IF run.pc = "prune" THEN SUBSET Expired ELSE {{}} :
          disk' = [p \in Path |-> IF p \in pruned THEN Absent ELSE disk[p]]
    /\ run' = Idle
    /\ crashed' = TRUE
    /\ torn' = (torn \/ run.pc = "publish repomd")
    /\ Elsewhere /\ UNCHANGED <<live, staged, hidden, budget, aged, accepted>>

Rotate ==
    /\ up < Last /\ up' = up + 1
    /\ UNCHANGED <<now, mode, missing, disks, run, accepted, crashed, torn>>

Tick ==
    /\ now < MaxTime /\ now' = now + 1
    /\ UNCHANGED <<up, mode, missing, disks, run, accepted, crashed, torn>>

Publish ==
    \/ \E p \in Path : Withdraw(p)
    \/ WithdrawFails \/ Snapshot
    \/ PublishKey \/ PublishSignature \/ PublishRepomd \/ RollBack \/ Unhide

RunStep ==
    \/ Begin
    \/ \E f \in Root : StageRoot(f)
    \/ AcceptUnverified \/ Verify \/ Refetch \/ Fail
    \/ \E p \in Path : FindInPlace(p) \/ Download(p) \/ Miss(p)
    \/ IndexesDone \/ FinishMissing
    \/ Publish \/ Prune

Next == RunStep \/ Crash \/ Rotate \/ Tick

Spec == Init /\ [][Next]_vars
-----------------------------------------------------------------------------
(* Properties. *)

\* Readers of the tree see one generation after another, each of them, when a
\* signature is required, one that upstream signed with a trusted key; nothing
\* a crash, a rollback or an upstream rotation between two requests leaves
\* behind is ever published (rpm.go "Authenticate the root metadata before
\* using it to select any files").
Shown == INSTANCE Publication WITH shown <- live["repomd"].ver
ShowsGenerations == Shown!Spec

\* A generation goes live only when every file it lists is in place, but for
\* those missed in as many runs in a row as the budget has, and none of these
\* is left with other content beside authenticated metadata (rpm.go "Keep the
\* previous root live until every referenced package is present under the
\* configured missing-file policy").
PublishedComplete ==
    [][run.pc = "publish repomd" /\ run'.pc = "unhide" =>
         \A p \in Listed(run.got) :
            \/ disk[p] = Want[run.got][p]
            \/ ~run.auth /\ disk[p] # Absent
            \/ /\ disk[p] = Absent \/ ~run.auth
               /\ p \in run.gone
               /\ missing = "ignore" \/ (missing = "retry" /\ budget[p] >= Retries)]_vars

\* Generations agree on the content of p.
Settled(p) ==
    \A g, h \in Gen : Absent \in {Want[g][p], Want[h][p]} \/ Want[g][p] = Want[h][p]

\* What the live metadata lists stays in place while later runs download,
\* hide, fail, die and prune beside it (fetch.go "clients holding earlier
\* metadata keep working"); a path two generations list with different contents
\* is overwritten before the new metadata is published and so is left out.
LiveComplete ==
    LET g == live["repomd"].ver
    IN  g # Absent =>
          \A p \in Listed(g) \ accepted : Settled(p) => disk[p] = Want[g][p]

\* With signature checks on, the published signature is that of the published
\* repomd.xml, also after a publication that failed and was rolled back, unless
\* a crash or a failing rollback left it halfway, which the next publication
\* repairs.
SignatureMatches ==
    mode # "off" /\ ~torn /\ run.pc # "publish repomd"
        => \/ live["sig"].ver = live["repomd"].ver
           \/ mode = "if-present" /\ live["sig"].ver = Absent

\* A file that the live metadata lists, and was not missed, is not waiting out
\* its grace period, so that dropping it later begins a period of its own; as
\* long as no run died between its publication and its pruning.
AgedUnlisted ==
    LET g == live["repomd"].ver
    IN  run.pc = "idle" /\ ~crashed /\ g # Absent =>
          \A p \in Listed(g) \ accepted : aged[p] = Never

\* The records that runs leave one another stay well formed and true: budgets
\* within the retries, first-unreferenced times of unreferenced files only.
RecordsInv == TypeOK /\ AgedUnlisted
=============================================================================
