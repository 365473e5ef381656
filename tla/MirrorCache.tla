----------------------------- MODULE MirrorCache -----------------------------
(***************************************************************************)
(* The caching server's registry of repositories and the trees they own:   *)
(* entry-point and member requests (server/serve.go handleOnline), crawls, *)
(* the scheduler's passes and evictions (server/crawl_loop.go), and the    *)
(* registry they share (state/state.go).  Every call on the registry and   *)
(* every look at the disk is a step of its own, so a request, a crawl and  *)
(* an eviction interleave as the goroutines do.                            *)
(*                                                                         *)
(* A repository's files are summed up in tree[r]: Absent; Fetched, an entry*)
(* point fetched on demand; or the verification policy the published       *)
(* generation was synchronized under.  Slots are left to CrawlDispatch and *)
(* the lock table to LockTable: lock[r] is the mutex they provide.         *)
(***************************************************************************)
EXTENDS Schedule, FiniteSets

CONSTANTS
    Repo,          \* repositories that may be registered (state keys)
    Signed,        \* those of a kind the OpenPGP policy covers (rpm, deb, arch)
    Configured,    \* those a mount's repos list names
    Below,         \* Below[r]: repositories whose path lies strictly below r's
    Handler,       \* HTTP handler goroutines
    Scheduler,     \* the CrawlLoop goroutine
    None,
    Policies,      \* signature policies, Off among them where it is used
    Off,           \* signature_mode: off
    StartPolicies, \* the policies the process may start with
    Reloadable,    \* those a reload may install
    KeyErrors,     \* {Broken} where reading a key file may fail, else {}
    Refresh,       \* refreshSchedule(): RepoCrawlInterval, then the aging steps
    RetryInterval, \* FailureRetryInterval
    Grace,         \* inventoryEvictionGrace
    StartTime,     \* when this process starts; 0 is the first start of all
    MaxTime        \* bound of the clock

Absent == "absent"
Fetched == "fetched"
Broken == "broken"          \* loadSignatureSettings failed

ASSUME MirrorCacheAssumption ==
    /\ None \notin Policies /\ (Policies \cup {None}) \cap {Absent, Fetched, Broken} = {}
    /\ Off \in Policies \/ Signed = Repo             \* what is not signed is not verified
    /\ Signed \subseteq Repo /\ Configured \subseteq Repo
    /\ Below \in [Repo -> SUBSET Repo]
    /\ None \notin Repo \cup Handler \cup {Scheduler}
    /\ Repo \cap Handler = {} /\ Scheduler \notin Repo \cup Handler
    /\ StartPolicies \subseteq Policies /\ Reloadable \subseteq Policies
    /\ KeyErrors \subseteq {Broken}
    /\ RetryInterval \in Nat /\ Grace \in Nat /\ MaxTime \in Nat /\ StartTime \in 0..MaxTime
    /\ Refresh \in Seq(Nat) /\ Len(Refresh) > 0

CrawlInterval == Refresh[1]

VARIABLES
    now,           \* the clock
    policy,        \* the configured verification policy
    entries,       \* the registry: entries[r] is a record or None
    tree,          \* what is on disk
    lock,          \* lock[r]: who holds r's resource lock
    th,            \* th[t]: handlers, and for t \in Repo the crawl goroutine of t
    sched          \* the scheduler

vars == <<now, policy, entries, tree, lock, th, sched>>

Time == 0..MaxTime
Stamp == Time \cup {Never}
Entry == [requested : Stamp, crawled : Stamp, listed : Stamp, failed : BOOLEAN,
          next : {Never} \cup 0..(MaxTime + CrawlInterval + RetryInterval),
          policy : Policies \cup {None}]
Blank == [requested |-> Never, crawled |-> Never, listed |-> Never, failed |-> FALSE,
          next |-> Never, policy |-> None]

\* pc: "inspect": registered, about to look at the disk; "fetch": fetchUpstream;
\* "queued": dispatched and waiting for a slot; "lock": waiting for the lock;
\* "held": the policy check under it; "sync": dispatchCrawl; "record": MarkCrawled;
\* "policy": MarkSignaturePolicy; "unlock"; "leave": before the in-flight mark goes;
\* "recheck": the handler's second look; "fail"; "dispatch"; "serve".
Place == {"idle", "inspect", "fetch", "queued", "lock", "held", "sync", "record",
          "policy", "unlock", "leave", "recheck", "fail", "dispatch", "serve"}

Idle == [pc |-> "idle", repo |-> None, member |-> FALSE, file |-> FALSE,
         tracked |-> FALSE, crawl |-> FALSE, failed |-> FALSE, seen |-> None,
         present |-> FALSE, mode |-> None, ok |-> FALSE]

ThreadState ==
    [pc : Place, repo : Repo \cup {None}, member : BOOLEAN, file : BOOLEAN,
     tracked : BOOLEAN, crawl : BOOLEAN, failed : BOOLEAN,
     seen : Policies \cup {None}, present : BOOLEAN, mode : Policies \cup {None, Broken}, ok : BOOLEAN]

SchedState ==
    [pc : {"idle", "configured", "snapshot", "due", "evict", "recheck", "remove", "delete", "unlock"},
     todo : SUBSET Repo, snap : [Repo -> Entry \cup {None}], at : Time,
     key : Repo \cup {None}]

TypeOK ==
    /\ now \in Time
    /\ policy \in Policies
    /\ entries \in [Repo -> Entry \cup {None}]
    /\ tree \in [Repo -> Policies \cup {Absent, Fetched}]
    /\ lock \in [Repo -> Repo \cup Handler \cup {Scheduler, None}]
    /\ th \in [Repo \cup Handler -> ThreadState]
    /\ sched \in SchedState

NoSnap == [r \in Repo |-> None]

\* What a process that stopped cleanly may have left of repository r, as its
\* registry entry (Load) and its tree: nothing; a crawl at time 0, whose policy
\* the entry names unless that was Off; an entry point fetched without a crawl.
\* What runs under Off leave of a repository verified before shows CacheReload.
Left(r) ==
    LET requested == [Blank EXCEPT !.requested = 0]
        crawled == [requested EXCEPT !.crawled = 0, !.next = CrawlInterval]
    IN  {<<None, Absent>>} \cup
        IF StartTime = 0 THEN {}
        ELSE {<<[crawled EXCEPT !.policy = IF p = Off THEN None ELSE p], p>> :
                  p \in IF r \in Signed THEN Policies ELSE {Off}}
             \cup IF Off \in Policies THEN {<<requested, Fetched>>} ELSE {}

Init ==
    /\ now = StartTime
    /\ policy \in StartPolicies
    /\ \E left \in [Repo -> UNION {Left(r) : r \in Repo}] :
        /\ \A r \in Repo : left[r] \in Left(r)
        /\ entries = [r \in Repo |-> left[r][1]]
        /\ tree = [r \in Repo |-> left[r][2]]
    /\ lock = [r \in Repo |-> None]
    /\ th = [t \in Repo \cup Handler |-> Idle]
    /\ sched = [pc |-> "idle", todo |-> {}, snap |-> NoSnap, at |-> 0, key |-> None]

-----------------------------------------------------------------------------
Tracked(r) == entries[r] # None
Inflight(r) == th[r].pc # "idle"
Protected(r) == r \in Signed /\ policy # Off

Move(t, change) == th' = [th EXCEPT ![t] = change]

\* MarkRequested, TouchRepoMembers: LastRequested of every r in R.
Touch(R) ==
    entries' = [r \in Repo |->
        IF r \notin R THEN entries[r]
        ELSE [(IF Tracked(r) THEN entries[r] ELSE Blank) EXCEPT !.requested = now]]

\* loadSignatureSettings: the configured policy, or an unreadable key file.
Settings == {policy} \cup KeyErrors

-----------------------------------------------------------------------------
(* handleOnline, entry point. *)
\* file: whether upstream publishes the requested entry point at all (a
\* repository may serve Release and not InRelease).
RequestEntryPoint(h, r, file) ==
    /\ th[h].pc = "idle"
    /\ Touch({r})
    /\ LET e == IF Tracked(r) THEN entries[r] ELSE Blank
       IN  Move(h, [Idle EXCEPT !.pc = "inspect", !.repo = r, !.file = file,
                                !.tracked = Tracked(r), !.seen = e.policy,
                                !.crawl = (e.crawled = Never),
                                !.failed = e.failed])
    /\ UNCHANGED <<now, policy, tree, lock, sched>>

\* Mutant: present artifacts are enough.
NeedsArtifacts(seen, settings, present) == settings = Broken \/ ~present

\* needsSignatureCheck
NeedsSignatureCheck(seen, settings, present) ==
    settings = Broken \/ seen # settings \/ ~present

\* The stat of the file, the settings, the artifacts and what follows from
\* them and the copy of the entry.
Inspect(h) ==
    /\ th[h].pc = "inspect"
    /\ LET t == [th[h] EXCEPT !.seen = None, !.failed = FALSE]
           r == t.repo
           exists == t.file /\ tree[r] # Absent
           crawl == t.crawl \/ (~exists /\ th[h].failed)
       IN  IF Protected(r)
             THEN \E s \in Settings :
                    LET present == s # Broken /\ tree[r] # Absent
                    IN  IF ~exists \/ NeedsSignatureCheck(th[h].seen, s, present)
                          THEN Move(h, [t EXCEPT !.pc = "lock", !.mode = s, !.crawl = FALSE,
                                                 !.present = present])
                          ELSE Move(h, [t EXCEPT !.pc = "dispatch", !.crawl = crawl,
                                                 !.mode = s, !.ok = TRUE])
             ELSE Move(h, [t EXCEPT !.pc = IF exists THEN "dispatch" ELSE "fetch",
                                    !.crawl = crawl, !.ok = exists])
    /\ UNCHANGED <<now, policy, entries, tree, lock, sched>>

\* fetchUpstream of an unprotected entry point: found, not found or failed.
FetchEntryPoint(h) ==
    /\ th[h].pc = "fetch"
    /\ \/ /\ th[h].file
          /\ tree' \in {[tree EXCEPT ![th[h].repo] = Fetched]}
                     \cup {t \in {tree} : t[th[h].repo] # Absent}       \* not modified
          /\ Move(h, [th[h] EXCEPT !.pc = "dispatch", !.ok = TRUE])
       \/ Move(h, [th[h] EXCEPT !.pc = "fail"]) /\ UNCHANGED tree
    /\ UNCHANGED <<now, policy, entries, lock, sched>>

\* After a protected crawl: a member request ends, an entry point is looked
\* for again.  A verified repository without it answers not found.
Recheck(h) ==
    /\ th[h].pc = "recheck"
    /\ LET t == th[h]
       IN  Move(h, IF t.member THEN Idle
                   ELSE IF t.ok /\ t.file /\ tree[t.repo] # Absent
                   THEN [t EXCEPT !.pc = "dispatch"]
                   ELSE [t EXCEPT !.pc = "fail", !.mode = None, !.file = FALSE])
    /\ UNCHANGED <<now, policy, entries, tree, lock, sched>>

\* The registration a failed first contact created is dropped (ok: verified).
Fail(h) ==
    /\ th[h].pc = "fail"
    /\ entries' = IF ~th[h].tracked /\ ~th[h].ok
                    THEN [entries EXCEPT ![th[h].repo] = None] ELSE entries
    /\ Move(h, Idle)
    /\ UNCHANGED <<now, policy, tree, lock, sched>>

\* startCrawl of r by t: a key already in flight is left to its crawl.
Queue(t, r, change) ==
    th' = IF Inflight(r) THEN [th EXCEPT ![t] = change]
          ELSE [th EXCEPT ![t] = change, ![r] = [Idle EXCEPT !.pc = "queued", !.repo = r]]

Serving(h) == [Idle EXCEPT !.pc = "serve", !.repo = th[h].repo, !.mode = th[h].mode]

Dispatch(h) ==
    /\ th[h].pc = "dispatch"
    /\ IF th[h].crawl THEN Queue(h, th[h].repo, Serving(h))
                      ELSE Move(h, Serving(h))
    /\ UNCHANGED <<now, policy, entries, tree, lock, sched>>

\* http.ServeFile: whatever is on disk now.
Serve(h) ==
    /\ th[h].pc = "serve"
    /\ Move(h, Idle)
    /\ UNCHANGED <<now, policy, entries, tree, lock, sched>>

(* handleOnline, a file below the roots of registered repositories. *)
Covering(r) == {q \in Repo : Tracked(q) /\ (q = r \/ r \in Below[q])}

\* The file is there, or is fetched on demand, ...
RequestMember(h, r) ==
    /\ th[h].pc = "idle" /\ Covering(r) # {}
    /\ Touch(Covering(r))
    /\ UNCHANGED <<now, policy, tree, lock, th, sched>>

\* ... or, missing from a protected repository, comes from its crawl.
RequestMissingMember(h, r) ==
    /\ th[h].pc = "idle"
    /\ Touch(Covering(r))
    /\ \E q \in Covering(r), s \in Settings :
        /\ Protected(q)
        /\ Move(h, [Idle EXCEPT !.pc = "lock", !.repo = q, !.member = TRUE, !.mode = s])
    /\ UNCHANGED <<now, policy, tree, lock, sched>>

-----------------------------------------------------------------------------
(* Crawls: crawlResource on the goroutine r \in Repo, crawlProtectedRepository *)
(* on a handler.                                                               *)
LeaveQueue(r) ==
    /\ th[r].pc = "queued"
    /\ Move(r, [th[r] EXCEPT !.pc = "lock"])
    /\ UNCHANGED <<now, policy, entries, tree, lock, sched>>

TakeLock(t) ==
    /\ th[t].pc = "lock" /\ lock[th[t].repo] = None
    /\ lock' = [lock EXCEPT ![th[t].repo] = t]
    /\ Move(t, [th[t] EXCEPT !.pc = "held"])
    /\ UNCHANGED <<now, policy, entries, tree, sched>>

\* A goroutine loads its settings now; a handler brought them, and has
\* nothing to do when a crawl under them succeeded meanwhile.
UnderLock(t) ==
    /\ th[t].pc = "held"
    /\ LET r == th[t].repo
           done == /\ t \in Handler /\ Tracked(r) /\ th[t].present
                   /\ entries[r].policy = th[t].mode /\ ~entries[r].failed
       IN  \E s \in IF t \in Handler THEN {th[t].mode}
                    ELSE IF Protected(r) THEN Settings ELSE {Off} :
             Move(t, [th[t] EXCEPT !.mode = s, !.ok = done, !.present = FALSE,
                         !.pc = IF s = Broken THEN "record"
                                ELSE IF done THEN "unlock" ELSE "sync"])
    /\ UNCHANGED <<now, policy, entries, tree, lock, sched>>

\* dispatchCrawl publishes a generation it verified; it may still fail after
\* that (pruning, traces, missing files) or before.
Sync(t) ==
    /\ th[t].pc = "sync"
    /\ \E ok \in BOOLEAN, published \in BOOLEAN :
        /\ ok => published
        /\ tree' = IF published THEN [tree EXCEPT ![th[t].repo] = th[t].mode] ELSE tree
        /\ Move(t, [th[t] EXCEPT !.pc = "record", !.ok = ok])
    /\ UNCHANGED <<now, policy, entries, lock, sched>>

\* Mutant: a failed crawl goes on to record its policy.
MarkCrawledThenPolicy(t) ==
    /\ th[t].pc = "record"
    /\ LET r == th[t].repo
           gap == IF th[t].ok THEN CrawlInterval ELSE RetryInterval
       IN  /\ entries' = IF ~Tracked(r) THEN entries
                         ELSE [entries EXCEPT ![r].crawled = now, ![r].failed = ~th[t].ok,
                                              ![r].next = now + gap]
           /\ Move(t, [th[t] EXCEPT !.pc = IF th[t].mode \in Policies \ {Off} /\ r \in Signed
                                           THEN "policy" ELSE "unlock"])
    /\ UNCHANGED <<now, policy, tree, lock, sched>>

\* Mutant: an outcome registers what is not registered.
MarkCrawledRegisters(t) ==
    /\ th[t].pc = "record"
    /\ LET r == th[t].repo
           e == IF Tracked(r) THEN entries[r] ELSE Blank
           gap == IF th[t].ok THEN CrawlInterval ELSE RetryInterval
       IN  entries' = [entries EXCEPT ![r] = [e EXCEPT !.crawled = now, !.failed = ~th[t].ok,
                                                       !.next = now + gap]]
    /\ Move(t, [th[t] EXCEPT !.pc = "unlock"])
    /\ UNCHANGED <<now, policy, tree, lock, sched>>

MarkCrawled(t) ==
    /\ th[t].pc = "record"
    /\ LET r == th[t].repo
           gap == IF th[t].ok THEN CrawlInterval ELSE RetryInterval
       IN  /\ entries' = IF ~Tracked(r) THEN entries
                         ELSE [entries EXCEPT ![r].crawled = now, ![r].failed = ~th[t].ok,
                                              ![r].next = now + gap]
           /\ Move(t, [th[t] EXCEPT !.pc = IF th[t].ok /\ th[t].mode # Off /\ r \in Signed
                                           THEN "policy" ELSE "unlock"])
    /\ UNCHANGED <<now, policy, tree, lock, sched>>

\* Mutant: the policy configured by now is recorded, not the one applied.
MarkConfiguredPolicy(t) ==
    /\ th[t].pc = "policy"
    /\ LET r == th[t].repo
       IN  entries' = IF Tracked(r) THEN [entries EXCEPT ![r].policy = policy] ELSE entries
    /\ Move(t, [th[t] EXCEPT !.pc = "unlock"])
    /\ UNCHANGED <<now, policy, tree, lock, sched>>

MarkSignaturePolicy(t) ==
    /\ th[t].pc = "policy"
    /\ LET r == th[t].repo
       IN  entries' = IF Tracked(r) THEN [entries EXCEPT ![r].policy = th[t].mode] ELSE entries
    /\ Move(t, [th[t] EXCEPT !.pc = "unlock"])
    /\ UNCHANGED <<now, policy, tree, lock, sched>>

ReleaseLock(t) ==
    /\ th[t].pc = "unlock"
    /\ lock' = [lock EXCEPT ![th[t].repo] = None]
    /\ Move(t, IF t \in Handler THEN [th[t] EXCEPT !.pc = "recheck"]
                               ELSE [Idle EXCEPT !.pc = "leave", !.repo = t])
    /\ UNCHANGED <<now, policy, entries, tree, sched>>

LeaveInflight(r) ==
    /\ th[r].pc = "leave"
    /\ Move(r, Idle)
    /\ UNCHANGED <<now, policy, entries, tree, lock, sched>>

-----------------------------------------------------------------------------
(* The scheduler: crawlConfigured, then crawlDue over a snapshot. *)
BeginPass ==
    /\ sched.pc = "idle"
    /\ sched' = [sched EXCEPT !.pc = "configured", !.todo = Configured, !.at = now]
    /\ UNCHANGED <<now, policy, entries, tree, lock, th>>

CrawlConfigured(r) ==
    /\ sched.pc = "configured" /\ r \in sched.todo
    /\ LET e == [(IF Tracked(r) THEN entries[r] ELSE Blank) EXCEPT !.listed = sched.at]
       IN  /\ entries' = [entries EXCEPT ![r] = e]
           /\ th' = IF DueForInventory(e, sched.at, CrawlInterval) /\ ~Inflight(r)
                      THEN [th EXCEPT ![r] = [Idle EXCEPT !.pc = "queued", !.repo = r]]
                      ELSE th
    /\ sched' = [sched EXCEPT !.todo = @ \ {r}]
    /\ UNCHANGED <<now, policy, tree, lock>>

TakeSnapshot ==
    /\ sched.pc = "configured" /\ sched.todo = {}
    /\ sched' = [sched EXCEPT !.pc = "due", !.at = now, !.snap = entries,
                              !.todo = {r \in Repo : Tracked(r)}]
    /\ UNCHANGED <<now, policy, entries, tree, lock, th>>

CrawlDue(r) ==
    /\ sched.pc = "due" /\ r \in sched.todo
    /\ LET e == sched.snap[r]
           tier == RefreshTier(sched.at - e.requested, Refresh)
           evict == /\ e.requested # Never /\ tier.stale
                    /\ ~ActiveInInventory(e, sched.at, Grace)
           due == /\ e.requested # Never /\ ~tier.stale
                  /\ DueByTier(e, tier.interval, sched.at)
       IN  /\ sched' = [sched EXCEPT !.todo = @ \ {r},
                                     !.pc = IF evict THEN "evict" ELSE "due",
                                     !.key = IF evict THEN r ELSE None]
           /\ th' = IF due /\ ~Inflight(r)
                      THEN [th EXCEPT ![r] = [Idle EXCEPT !.pc = "queued", !.repo = r]]
                      ELSE th
    /\ UNCHANGED <<now, policy, entries, tree, lock>>

EndPass ==
    /\ sched.pc = "due" /\ sched.todo = {}
    /\ sched' = [sched EXCEPT !.pc = "idle", !.snap = NoSnap]
    /\ UNCHANGED <<now, policy, entries, tree, lock, th>>

(* evictStale *)
EvictLock ==
    /\ sched.pc = "evict" /\ lock[sched.key] = None
    /\ lock' = [lock EXCEPT ![sched.key] = Scheduler]
    /\ sched' = [sched EXCEPT !.pc = "recheck"]
    /\ UNCHANGED <<now, policy, entries, tree, th>>

EvictRecheck ==
    /\ sched.pc = "recheck"
    /\ LET r == sched.key
           newer == Tracked(r) /\ entries[r].requested > sched.snap[r].requested
       IN  sched' = [sched EXCEPT !.pc = IF newer THEN "unlock" ELSE "remove"]
    /\ UNCHANGED <<now, policy, entries, tree, lock, th>>

\* os.RemoveAll of the path takes whatever lies below it; a failure ends the
\* eviction.
EvictRemove ==
    /\ sched.pc = "remove"
    /\ \/ /\ tree' = [q \in Repo |-> IF q = sched.key \/ q \in Below[sched.key]
                                     THEN Absent ELSE tree[q]]
          /\ sched' = [sched EXCEPT !.pc = "delete"]
       \/ sched' = [sched EXCEPT !.pc = "unlock"] /\ UNCHANGED tree
    /\ UNCHANGED <<now, policy, entries, lock, th>>

EvictDelete ==
    /\ sched.pc = "delete"
    /\ entries' = [entries EXCEPT ![sched.key] = None]
    /\ sched' = [sched EXCEPT !.pc = "unlock"]
    /\ UNCHANGED <<now, policy, tree, lock, th>>

EvictUnlock ==
    /\ sched.pc = "unlock"
    /\ lock' = [lock EXCEPT ![sched.key] = None]
    /\ sched' = [sched EXCEPT !.pc = "due", !.key = None]
    /\ UNCHANGED <<now, policy, entries, tree, th>>

-----------------------------------------------------------------------------
Tick ==
    /\ now < MaxTime /\ now' = now + 1
    /\ UNCHANGED <<policy, entries, tree, lock, th, sched>>

Reload ==
    /\ policy' \in Reloadable
    /\ UNCHANGED <<now, entries, tree, lock, th, sched>>

CrawlStep(t) ==
    \/ TakeLock(t) \/ UnderLock(t) \/ Sync(t) \/ MarkCrawled(t)
    \/ MarkSignaturePolicy(t) \/ ReleaseLock(t)

HandlerStep(h) ==
    \/ Inspect(h) \/ FetchEntryPoint(h) \/ Recheck(h) \/ Fail(h) \/ Dispatch(h) \/ Serve(h)
    \/ CrawlStep(h)

GoroutineStep(r) == LeaveQueue(r) \/ CrawlStep(r) \/ LeaveInflight(r)

SchedulerStep ==
    \/ BeginPass \/ TakeSnapshot \/ EndPass
    \/ \E r \in Repo : CrawlConfigured(r) \/ CrawlDue(r)
    \/ EvictLock \/ EvictRecheck \/ EvictRemove \/ EvictDelete \/ EvictUnlock

Requests ==
    \E h \in Handler, r \in Repo :
        \/ \E file \in BOOLEAN : RequestEntryPoint(h, r, file)
        \/ RequestMember(h, r) \/ RequestMissingMember(h, r)

Next ==
    \/ Requests
    \/ \E h \in Handler : HandlerStep(h)
    \/ \E r \in Repo : GoroutineStep(r)
    \/ SchedulerStep \/ Tick \/ Reload

Spec == Init /\ [][Next]_vars

\* Goroutines and the crawl loop keep running; a contended mutex is handed to
\* a starving waiter; the disk does not refuse an eviction for ever.  The clock,
\* requests and reloads are free.
Fairness ==
    /\ \A h \in Handler : WF_vars(HandlerStep(h)) /\ SF_vars(TakeLock(h))
    /\ \A r \in Repo : WF_vars(GoroutineStep(r)) /\ SF_vars(TakeLock(r))
    /\ WF_vars(SchedulerStep) /\ SF_vars(EvictLock)
    /\ SF_vars(EvictRemove /\ sched'.pc = "delete")

FairSpec == Spec /\ Fairness
-----------------------------------------------------------------------------
(* Properties. *)

\* A repository's entry point goes out only as the generation that was
\* verified under the policy the request found configured, whatever crawls,
\* evictions and other requests did since the request looked (serve.go "A
\* protected entry point cannot be served until the crawl has verified and
\* published its metadata generation"); an evicted tree answers not found.
ServedVerified ==
    \A h \in Handler :
        th[h].pc = "serve" /\ th[h].mode \in Policies \ {Off}
            => tree[th[h].repo] \in {th[h].mode, Absent}

\* A registry entry never claims the configured policy for files that were not
\* verified under it, also not after a restart with other keys, except while a
\* crawl under the lock has yet to record what it published; this is what lets
\* a request skip the crawl (handleOnline needsSignatureCheck).
PolicyMatchesTree ==
    \A r \in Repo :
        Tracked(r) /\ entries[r].policy = policy =>
            \/ tree[r] \in {policy, Absent}
            \/ lock[r] \in Repo \cup Handler /\ th[lock[r]].pc \in {"record", "policy"}

\* The registry is well formed and keeps its claims.
RegistryInv == TypeOK /\ PolicyMatchesTree

\* The policy an entry names is that of the last successful crawl, whatever
\* reloads did meanwhile (state.go "SignaturePolicy records the verification
\* settings applied by the last successful crawl").
PolicyOfLastSuccess ==
    \A r \in Repo :
        Tracked(r) /\ entries[r].policy # None /\ ~entries[r].failed /\ lock[r] = None
            => tree[r] \in {entries[r].policy, Absent}

\* Only a request or the configuration registers a repository: the outcome of a
\* crawl that outlived its registration does not bring it back.
OnlyTrafficRegisters ==
    [][\A r \in Repo : entries[r] = None /\ entries'[r] # None
          => entries'[r].requested = now \/ r \in Configured]_vars

\* A registered repository that was never crawled is crawled or dropped, also
\* when the dispatch of its request collapsed into a crawl of an earlier
\* registration.
RegisteredIsCrawled ==
    \A r \in Repo :
        Tracked(r) /\ entries[r].crawled = Never
            ~> ~Tracked(r) \/ entries[r].crawled # Never
=============================================================================
