-------------------------- MODULE MirrorCacheProofs --------------------------
(***************************************************************************)
(* Proofs about MirrorCache for every set of repositories, nested in any   *)
(* way, of handlers, policies, schedules and times: who registers a        *)
(* repository; and, where the configured policy does not change, what the  *)
(* registry claims of a tree and what a protected repository serves; and,  *)
(* where it changes but never to Off, what the recorded policy means.      *)
(***************************************************************************)
EXTENDS MirrorCache, TLAPS

Thread == Repo \cup Handler
InCrawl == {"lock", "held", "sync", "record", "policy", "unlock"}
HandlerPlace == {"idle", "inspect", "fetch", "recheck", "fail", "dispatch", "serve"} \cup InCrawl
CrawlPlace == {"idle", "queued", "leave"} \cup InCrawl

\* Where a goroutine may be, of what repository, and under what it crawls.
Placed(t, s) ==
    /\ s.pc # "idle" => s.repo \in Repo
    /\ t \in Repo => s.pc \in CrawlPlace /\ (s.pc # "idle" => s.repo = t)
    /\ t \in Handler => s.pc \in HandlerPlace
    /\ t \in Handler /\ s.pc \in {"lock", "held"} => s.mode \in Policies \cup {Broken}
    /\ s.pc \in {"sync", "policy"} \/ (s.pc = "record" /\ s.ok) => s.mode \in Policies

\* What the scheduler works at.
SchedPlaced(s) ==
    /\ s.pc = "configured" => s.todo \subseteq Configured
    /\ s.pc \in {"evict", "recheck", "remove", "delete", "unlock"} => s.key \in Repo

CacheTypes == TypeOK /\ (\A t \in Thread : Placed(t, th[t])) /\ SchedPlaced(sched)

\* The repository's files are those of a crawl that verified them as configured.
Verified(r) == tree[r] \in {policy, Absent}

\* While the policy stays: an entry that claims it is right, ...
ClaimsInv == \A r \in Repo : Tracked(r) /\ entries[r].policy = policy => Protected(r) /\ Verified(r)

\* ... and so is what a request or crawl goes by.
GoesBy(t) ==
    LET r == th[t].repo
        m == th[t].mode
    IN  /\ th[t].pc \in {"inspect", "fetch"} => m = None
        /\ th[t].pc = "inspect" /\ th[t].seen = policy => Protected(r) /\ Verified(r)
        /\ th[t].pc = "fetch" => ~Protected(r)
        /\ t \in Handler /\ th[t].pc \in InCrawl \cup {"recheck"} =>
              Protected(r) /\ m \in {policy, Broken}
        /\ th[t].pc \in {"sync", "record", "policy"} =>
              m \in IF Protected(r) THEN {policy, Broken} ELSE {Off}
        /\ th[t].pc = "sync" => m # Broken
        /\ th[t].pc = "record" /\ th[t].ok => m # Broken /\ (Protected(r) => Verified(r))
        /\ th[t].pc = "policy" => Protected(r) /\ m = policy /\ Verified(r)
        /\ t \in Handler /\ th[t].pc \in {"unlock", "recheck"} /\ th[t].ok => m = policy /\ Verified(r)
        /\ th[t].pc \in {"dispatch", "serve"} =>
              m = None \/ (m = policy /\ Protected(r) /\ Verified(r))

SettledInv == CacheTypes /\ ClaimsInv /\ \A t \in Thread : GoesBy(t)

\* The goroutine is at what it does under the lock of its repository, ...
Works(t) == th[t].pc \in {"held", "sync", "record", "policy", "unlock"}

\* ... and then holds it; so does an eviction.
LocksInv ==
    /\ \A t \in Thread : Works(t) => lock[th[t].repo] = t
    /\ sched.pc \in {"recheck", "remove", "delete", "unlock"} => lock[sched.key] = Scheduler

\* Where nothing goes unverified: what a crawl has published, ...
Publishes(t) ==
    LET m == th[t].mode
    IN  /\ th[t].pc # "fetch"
        /\ th[t].pc = "policy" \/ (th[t].pc = "record" /\ th[t].ok) =>
              tree[th[t].repo] \in {m, Absent}

\* ... and what the registry says of it, once the crawl has.
NamesTree(r) ==
    Tracked(r) /\ entries[r].policy # None /\ ~entries[r].failed =>
        \/ tree[r] \in {entries[r].policy, Absent}
        \/ \E t \in Thread : th[t].pc \in {"record", "policy"} /\ th[t].repo = r

KeysInv ==
    /\ CacheTypes /\ LocksInv
    /\ \A t \in Thread : Publishes(t)
    /\ \A r \in Repo : NamesTree(r)
-----------------------------------------------------------------------------

(* Goroutines that are not one another, and fields that have their types. *)
LEMMA CacheNames ==
    /\ Repo \cap Handler = {} /\ Scheduler \notin Thread /\ None \notin Thread \cup {Scheduler}
    /\ Policies \cap {None, Absent, Fetched, Broken} = {} /\ Settings \subseteq {policy, Broken}
    /\ None # Broken
    /\ CrawlInterval \in Nat /\ RetryInterval \in Nat /\ MaxTime \in Nat
    /\ \A r \in Repo : r \notin Signed => Off \in Policies
BY MirrorCacheAssumption DEF Thread, Settings, CrawlInterval

(* A goroutine that moves leaves the others where they are. *)
LEMMA Moves ==
    ASSUME TypeOK, NEW t \in Thread, NEW change \in ThreadState, Move(t, change)
    PROVE  /\ th' \in [Thread -> ThreadState] /\ th'[t] = change
           /\ \A u \in Thread \ {t} : th'[u] = th[u]
BY DEF TypeOK, Thread, Move

LEMMA IdleTyped == Idle \in ThreadState
BY DEF Idle, ThreadState, Place

LEMMA BlankTyped == Blank \in Entry /\ Blank.policy = None /\ ~Blank.failed
BY DEF Blank, Entry, Stamp

\* What a step leaves of a goroutine but its place.
Same(t) ==
    /\ th'[t].repo = th[t].repo /\ th'[t].mode = th[t].mode
    /\ th'[t].ok = th[t].ok /\ th'[t].seen = th[t].seen

\* Nobody but t moves.
OnlyMoves(t) == th' \in [Thread -> ThreadState] /\ \A u \in Thread \ {t} : th'[u] = th[u]

(* A request for an entry point knows what the registry said then. *)
LEMMA RequestEffect ==
    ASSUME TypeOK, NEW h \in Handler, NEW r \in Repo, NEW file \in BOOLEAN, RequestEntryPoint(h, r, file)
    PROVE  /\ OnlyMoves(h) /\ th'[h].pc = "inspect" /\ th'[h].repo = r /\ th'[h].mode = None
           /\ th'[h].seen = IF Tracked(r) THEN entries[r].policy ELSE None
           /\ ~th'[h].ok
<1>. DEFINE e == IF Tracked(r) THEN entries[r] ELSE Blank
            change == [Idle EXCEPT !.pc = "inspect", !.repo = r, !.file = file,
                                   !.tracked = Tracked(r), !.seen = e.policy,
                                   !.crawl = (e.crawled = Never), !.failed = e.failed]
<1>1. e \in Entry /\ e.policy = IF Tracked(r) THEN entries[r].policy ELSE None
    BY BlankTyped DEF TypeOK, Tracked
<1>2. Move(h, change)
    BY DEF RequestEntryPoint
<1>3. /\ e.policy \in Policies \cup {None} /\ e.failed \in BOOLEAN
      /\ (e.crawled = Never) \in BOOLEAN /\ Tracked(r) \in BOOLEAN
    BY <1>1 DEF Entry, Tracked
<1>. HIDE DEF e
<1>4. ASSUME NEW s \in Policies \cup {None}, NEW k \in BOOLEAN, NEW l \in BOOLEAN, NEW m \in BOOLEAN,
             change = [Idle EXCEPT !.pc = "inspect", !.repo = r, !.file = file,
                                   !.tracked = k, !.seen = s, !.crawl = l, !.failed = m]
      PROVE  /\ change \in ThreadState /\ change.pc = "inspect" /\ change.repo = r
             /\ change.mode = None /\ change.seen = s /\ ~change.ok
  <2>1. "inspect" \in Place /\ Idle.mode = None /\ ~Idle.ok
    BY DEF Place, Idle
  <2>. DEFINE a == [Idle EXCEPT !.pc = "inspect", !.repo = r, !.file = file]
              b == [a EXCEPT !.tracked = k, !.seen = s]
  <2>2. /\ a \in ThreadState /\ a.pc = "inspect" /\ a.repo = r /\ a.mode = None /\ ~a.ok
    BY <2>1, IdleTyped DEF ThreadState
  <2>3. change = [b EXCEPT !.crawl = l, !.failed = m]
    BY <1>4
  <2>. HIDE DEF change, a
  <2>4. /\ b \in ThreadState /\ b.pc = "inspect" /\ b.repo = r /\ b.mode = None /\ ~b.ok
        /\ b.seen = s
    BY <2>2 DEF ThreadState
  <2>. HIDE DEF b
  <2>. QED
    BY <2>3, <2>4 DEF ThreadState
<1>5. /\ change \in ThreadState /\ change.pc = "inspect" /\ change.repo = r
      /\ change.mode = None /\ change.seen = e.policy /\ ~change.ok
    BY <1>3, <1>4
<1>. HIDE DEF change
<1>. QED
    BY <1>1, <1>2, <1>5, Moves DEF OnlyMoves, Thread

(* A missing file of a protected repository is crawled for under what is configured. *)
LEMMA MissingMemberEffect ==
    ASSUME TypeOK, NEW h \in Handler, NEW r \in Repo, RequestMissingMember(h, r)
    PROVE  /\ OnlyMoves(h) /\ th'[h].pc = "lock" /\ th'[h].repo \in Repo /\ Protected(th'[h].repo)
           /\ th'[h].mode \in Settings /\ ~th'[h].ok
<1>1. PICK q \in Covering(r), s \in Settings :
         /\ Protected(q)
         /\ Move(h, [Idle EXCEPT !.pc = "lock", !.repo = q, !.member = TRUE, !.mode = s])
    BY DEF RequestMissingMember
<1>. DEFINE change == [Idle EXCEPT !.pc = "lock", !.repo = q, !.member = TRUE, !.mode = s]
<1>2. q \in Repo /\ s \in Policies \cup {Broken}
    BY CacheNames DEF Covering, TypeOK
<1>3. /\ change \in ThreadState /\ change.pc = "lock" /\ change.repo = q /\ change.mode = s
      /\ ~change.ok
    BY <1>2, IdleTyped DEF ThreadState, Place, Idle
<1>4. Move(h, change)
    BY <1>1
<1>. HIDE DEF change
<1>. QED
    BY <1>1, <1>2, <1>3, <1>4, Moves DEF OnlyMoves, Thread

(* A request goes on to the crawl, or it goes by a claim of the registry. *)
LEMMA InspectEffect ==
    ASSUME TypeOK, NEW h \in Handler, Inspect(h)
    PROVE  /\ OnlyMoves(h) /\ th'[h].repo = th[h].repo /\ th[h].pc = "inspect"
           /\ \/ /\ Protected(th[h].repo) /\ th'[h].pc = "lock" /\ th'[h].mode \in Settings
              \/ /\ Protected(th[h].repo) /\ th'[h].pc = "dispatch"
                 /\ th'[h].mode = policy /\ th[h].seen = policy
              \/ /\ ~Protected(th[h].repo) /\ th'[h].pc \in {"dispatch", "fetch"}
                 /\ th'[h].mode = th[h].mode
<1>. DEFINE t == [th[h] EXCEPT !.seen = None, !.failed = FALSE]
            r == t.repo
            exists == t.file /\ tree[r] # Absent
            crawl == t.crawl \/ (~exists /\ th[h].failed)
<1>1. t \in ThreadState /\ t.repo = th[h].repo /\ t.mode = th[h].mode /\ th[h].pc = "inspect"
  <2>1. th[h] \in ThreadState /\ th[h].pc = "inspect"
    BY DEF TypeOK, Inspect
  <2>2. [th[h] EXCEPT !.seen = None] \in ThreadState
    BY <2>1 DEF ThreadState
  <2>. QED
    BY <2>1, <2>2 DEF ThreadState
<1>2. crawl \in BOOLEAN /\ exists \in BOOLEAN
    BY <1>1 DEF TypeOK, ThreadState
<1>3. CASE Protected(r)
  <2>1. PICK s \in Settings :
           LET present == s # Broken /\ tree[r] # Absent
           IN  IF ~exists \/ NeedsSignatureCheck(th[h].seen, s, present)
                 THEN Move(h, [t EXCEPT !.pc = "lock", !.mode = s, !.crawl = FALSE, !.present = present])
                 ELSE Move(h, [t EXCEPT !.pc = "dispatch", !.crawl = crawl, !.mode = s, !.ok = TRUE])
    BY <1>3 DEF Inspect
  <2>. DEFINE present == s # Broken /\ tree[r] # Absent
              ask == [t EXCEPT !.pc = "lock", !.mode = s, !.crawl = FALSE, !.present = present]
              trust == [t EXCEPT !.pc = "dispatch", !.crawl = crawl, !.mode = s, !.ok = TRUE]
  <2>2. s \in Policies \cup {Broken} /\ s \in {policy, Broken}
    BY CacheNames DEF TypeOK
  <2>3. CASE ~exists \/ NeedsSignatureCheck(th[h].seen, s, present)
    <3>1. Move(h, ask)
      BY <2>1, <2>3
    <3>2. present \in BOOLEAN
      OBVIOUS
    <3>. HIDE DEF t, present
    <3>3. ask \in ThreadState /\ ask.pc = "lock" /\ ask.mode = s /\ ask.repo = t.repo
      BY <1>1, <2>2, <3>2 DEF ThreadState, Place
    <3>. HIDE DEF ask
    <3>. QED
      BY <1>1, <1>3, <3>1, <3>3, Moves DEF OnlyMoves, Thread
  <2>4. CASE ~(~exists \/ NeedsSignatureCheck(th[h].seen, s, present))
    <3>1. Move(h, trust) /\ s # Broken /\ th[h].seen = s
      BY <2>1, <2>4 DEF NeedsSignatureCheck
    <3>. HIDE DEF t, exists, crawl
    <3>2. trust \in ThreadState /\ trust.pc = "dispatch" /\ trust.mode = s /\ trust.repo = t.repo
      BY <1>1, <1>2, <2>2 DEF ThreadState, Place
    <3>. HIDE DEF trust
    <3>. QED
      BY <1>1, <1>3, <2>2, <3>1, <3>2, Moves DEF OnlyMoves, Thread
  <2>. QED
    BY <2>3, <2>4
<1>4. CASE ~Protected(r)
  <2>. DEFINE change == [t EXCEPT !.pc = IF exists THEN "dispatch" ELSE "fetch", !.crawl = crawl,
                                  !.ok = exists]
  <2>1. Move(h, change)
    BY <1>4 DEF Inspect
  <2>. HIDE DEF t, exists, crawl
  <2>2. /\ change \in ThreadState /\ change.pc \in {"dispatch", "fetch"}
        /\ change.mode = t.mode /\ change.repo = t.repo
    BY <1>1, <1>2 DEF ThreadState, Place
  <2>. HIDE DEF change
  <2>. QED
    BY <1>1, <1>4, <2>1, <2>2, Moves DEF OnlyMoves, Thread
<1>. QED
    BY <1>3, <1>4

(* A step to another place and no more. *)
LEMMA StepsOn ==
    ASSUME TypeOK, NEW t \in Thread, NEW p \in Place, Move(t, [th[t] EXCEPT !.pc = p])
    PROVE  OnlyMoves(t) /\ th'[t].pc = p /\ Same(t)
<1>. DEFINE change == [th[t] EXCEPT !.pc = p]
<1>1. /\ change \in ThreadState /\ change.pc = p /\ change.repo = th[t].repo
      /\ change.mode = th[t].mode /\ change.ok = th[t].ok /\ change.seen = th[t].seen
    BY DEF TypeOK, ThreadState, Thread
<1>2. Move(t, change)
    OBVIOUS
<1>. HIDE DEF change
<1>. QED
    BY <1>1, <1>2, Moves DEF OnlyMoves, Same

(* A goroutine that ends. *)
LEMMA Ends ==
    ASSUME TypeOK, NEW t \in Thread, Move(t, Idle)
    PROVE  OnlyMoves(t) /\ th'[t].pc = "idle" /\ th'[t] = Idle
BY IdleTyped, Moves DEF OnlyMoves, Idle

(* An entry point nobody verifies is fetched, or that fails. *)
LEMMA FetchEffect ==
    ASSUME TypeOK, NEW h \in Handler, FetchEntryPoint(h)
    PROVE  /\ OnlyMoves(h) /\ th[h].pc = "fetch" /\ th'[h].repo = th[h].repo /\ th'[h].mode = th[h].mode
           /\ th'[h].pc \in {"dispatch", "fail"}
           /\ tree' \in {tree, [tree EXCEPT ![th[h].repo] = Fetched]}
<1>1. tree' \in {tree, [tree EXCEPT ![th[h].repo] = Fetched]} /\ th[h].pc = "fetch" /\ h \in Thread
    BY DEF FetchEntryPoint, Thread
<1>2. CASE Move(h, [th[h] EXCEPT !.pc = "fail"])
  <2>1. "fail" \in Place
    BY DEF Place
  <2>. QED
    BY <1>1, <1>2, <2>1, StepsOn DEF Same
<1>3. CASE Move(h, [th[h] EXCEPT !.pc = "dispatch", !.ok = TRUE])
  <2>. DEFINE change == [th[h] EXCEPT !.pc = "dispatch", !.ok = TRUE]
  <2>1. /\ change \in ThreadState /\ change.pc = "dispatch"
        /\ change.repo = th[h].repo /\ change.mode = th[h].mode
    <3>1. th[h] \in ThreadState /\ "dispatch" \in Place
      BY DEF TypeOK, Place
    <3>. QED
      BY <3>1 DEF ThreadState
  <2>2. Move(h, change)
    BY <1>3
  <2>. HIDE DEF change
  <2>. QED
    BY <1>1, <2>1, <2>2, Moves DEF OnlyMoves
<1>. QED
    BY <1>2, <1>3 DEF FetchEntryPoint

(* After the crawl a request is answered only when that succeeded. *)
LEMMA RecheckEffect ==
    ASSUME TypeOK, NEW h \in Handler, Recheck(h)
    PROVE  /\ OnlyMoves(h) /\ th[h].pc = "recheck"
           /\ \/ th'[h].pc = "idle"
              \/ th'[h].pc = "dispatch" /\ th[h].ok /\ Same(h)
              \/ th'[h].pc = "fail" /\ th'[h].repo = th[h].repo
<1>1. th[h].pc = "recheck" /\ h \in Thread
    BY DEF Recheck, Thread
<1>2. CASE Move(h, Idle)
    BY <1>1, <1>2, Ends
<1>3. CASE th[h].ok /\ Move(h, [th[h] EXCEPT !.pc = "dispatch"])
  <2>1. "dispatch" \in Place
    BY DEF Place
  <2>. QED
    BY <1>1, <1>3, <2>1, StepsOn
<1>4. CASE Move(h, [th[h] EXCEPT !.pc = "fail", !.mode = None, !.file = FALSE])
  <2>. DEFINE change == [th[h] EXCEPT !.pc = "fail", !.mode = None, !.file = FALSE]
  <2>1. change \in ThreadState /\ change.pc = "fail" /\ change.repo = th[h].repo
    <3>1. th[h] \in ThreadState /\ "fail" \in Place
      BY DEF TypeOK, Place
    <3>2. [th[h] EXCEPT !.pc = "fail"] \in ThreadState
      BY <3>1 DEF ThreadState
    <3>. QED
      BY <3>1, <3>2 DEF ThreadState
  <2>2. Move(h, change)
    BY <1>4
  <2>. HIDE DEF change
  <2>. QED
    BY <1>1, <2>1, <2>2, Moves DEF OnlyMoves
<1>. QED
    BY <1>2, <1>3, <1>4 DEF Recheck

\* The goroutine of r begins a crawl, or nobody does.
Begins(r) == th[r].pc = "idle" /\ th'[r].pc = "queued" /\ th'[r].repo = r

(* A crawl is queued for a repository none is in flight for. *)
LEMMA Queues ==
    ASSUME TypeOK, NEW r \in Repo, ~Inflight(r),
           th' = [th EXCEPT ![r] = [Idle EXCEPT !.pc = "queued", !.repo = r]]
    PROVE  OnlyMoves(r) /\ Begins(r)
<1>. DEFINE change == [Idle EXCEPT !.pc = "queued", !.repo = r]
<1>1. change \in ThreadState /\ change.pc = "queued" /\ change.repo = r
    BY IdleTyped DEF ThreadState, Place, Idle
<1>2. Move(r, change)
    BY DEF Move
<1>. HIDE DEF change
<1>. QED
    BY <1>1, <1>2, Moves DEF OnlyMoves, Thread, Begins, Inflight

(* A request that is to be served may start a crawl in the background. *)
LEMMA DispatchEffect ==
    ASSUME TypeOK, NEW h \in Handler, Dispatch(h), th[h].repo \in Repo
    PROVE  /\ th' \in [Thread -> ThreadState] /\ th[h].pc = "dispatch"
           /\ th'[h].pc = "serve" /\ th'[h].repo = th[h].repo /\ th'[h].mode = th[h].mode
           /\ \A u \in Thread \ {h} : th'[u] = th[u] \/ (u \in Repo /\ Begins(u))
<1>. DEFINE r == th[h].repo
            crawl == [Idle EXCEPT !.pc = "queued", !.repo = r]
<1>1. /\ Serving(h) \in ThreadState /\ Serving(h).pc = "serve" /\ Serving(h).repo = r
      /\ Serving(h).mode = th[h].mode
    BY IdleTyped DEF Serving, TypeOK, ThreadState, Place, Idle
<1>2. crawl \in ThreadState /\ crawl.pc = "queued" /\ crawl.repo = r
    BY IdleTyped DEF ThreadState, Place, Idle
<1>3. th[h].pc = "dispatch" /\ h # r /\ h \in Thread /\ r \in Thread
    BY CacheNames DEF Dispatch, Thread
<1>4. CASE Move(h, Serving(h))
    BY <1>1, <1>3, <1>4, Moves
<1>5. CASE ~Inflight(r) /\ th' = [th EXCEPT ![h] = Serving(h), ![r] = crawl]
  <2>. HIDE DEF r, crawl
  <2>1. th' \in [Thread -> ThreadState] /\ th'[h] = Serving(h) /\ th'[r] = crawl
    BY <1>1, <1>2, <1>3, <1>5 DEF TypeOK, Thread
  <2>2. \A u \in Thread \ {h, r} : th'[u] = th[u]
    BY <1>5 DEF TypeOK, Thread
  <2>. QED
    BY <1>1, <1>2, <1>3, <1>5, <2>1, <2>2 DEF Begins, Inflight, r
<1>. QED
    BY <1>4, <1>5 DEF Dispatch, Queue, Move

(* Under the lock a goroutine goes by settings of its own, a handler by those it brought. *)
LEMMA UnderLockEffect ==
    ASSUME TypeOK, NEW t \in Thread, UnderLock(t), th[t].repo \in Repo
    PROVE  /\ OnlyMoves(t) /\ th[t].pc = "held" /\ th'[t].repo = th[t].repo
           /\ th'[t].mode \in IF t \in Handler THEN {th[t].mode}
                             ELSE IF Protected(th[t].repo) THEN Settings ELSE {Off}
           /\ \/ th'[t].mode = Broken /\ th'[t].pc = "record"
              \/ th'[t].mode # Broken /\ th'[t].pc = "sync"
              \/ th'[t].mode # Broken /\ th'[t].pc = "unlock"
           /\ th'[t].ok => t \in Handler /\ Tracked(th[t].repo) /\ entries[th[t].repo].policy = th[t].mode
<1>. DEFINE r == th[t].repo
            done == /\ t \in Handler /\ Tracked(r) /\ th[t].present
                    /\ entries[r].policy = th[t].mode /\ ~entries[r].failed
<1>1. PICK s \in IF t \in Handler THEN {th[t].mode} ELSE IF Protected(r) THEN Settings ELSE {Off} :
         Move(t, [th[t] EXCEPT !.mode = s, !.ok = done, !.present = FALSE,
                     !.pc = IF s = Broken THEN "record" ELSE IF done THEN "unlock" ELSE "sync"])
    BY DEF UnderLock
<1>. DEFINE p == IF s = Broken THEN "record" ELSE IF done THEN "unlock" ELSE "sync"
            change == [th[t] EXCEPT !.mode = s, !.ok = done, !.present = FALSE, !.pc = p]
<1>2. th[t].pc = "held" /\ th[t] \in ThreadState
    BY DEF UnderLock, TypeOK, Thread
<1>3. s \in Policies \cup {None, Broken}
    BY <1>2, CacheNames DEF TypeOK, ThreadState, Protected
<1>4. p \in Place /\ done \in BOOLEAN
    BY DEF Place
<1>5. Move(t, change)
    BY <1>1
<1>6. done => t \in Handler /\ Tracked(r) /\ entries[r].policy = th[t].mode
    OBVIOUS
<1>7. \/ s = Broken /\ p = "record"
      \/ s # Broken /\ p = "sync"
      \/ s # Broken /\ p = "unlock"
    OBVIOUS
<1>. HIDE DEF p, done
<1>8. /\ change \in ThreadState /\ change.mode = s /\ change.pc = p /\ change.ok = done
      /\ change.repo = r
    BY <1>2, <1>3, <1>4 DEF ThreadState
<1>. HIDE DEF change
<1>. QED
    BY <1>1, <1>2, <1>5, <1>6, <1>7, <1>8, Moves DEF OnlyMoves

(* A crawl that succeeds has published what it verified. *)
LEMMA SyncEffect ==
    ASSUME TypeOK, NEW t \in Thread, Sync(t)
    PROVE  /\ OnlyMoves(t) /\ th[t].pc = "sync" /\ th'[t].pc = "record" /\ th'[t].repo = th[t].repo
           /\ th'[t].mode = th[t].mode
           /\ \/ tree' = [tree EXCEPT ![th[t].repo] = th[t].mode]
              \/ tree' = tree /\ ~th'[t].ok
<1>1. PICK ok \in BOOLEAN, published \in BOOLEAN :
         /\ ok => published
         /\ tree' = IF published THEN [tree EXCEPT ![th[t].repo] = th[t].mode] ELSE tree
         /\ Move(t, [th[t] EXCEPT !.pc = "record", !.ok = ok])
    BY DEF Sync
<1>. DEFINE change == [th[t] EXCEPT !.pc = "record", !.ok = ok]
<1>2. /\ change \in ThreadState /\ change.pc = "record" /\ change.ok = ok
      /\ change.repo = th[t].repo /\ change.mode = th[t].mode
  <2>1. th[t] \in ThreadState /\ "record" \in Place
    BY DEF TypeOK, Place, Thread
  <2>. QED
    BY <2>1 DEF ThreadState
<1>3. Move(t, change)
    BY <1>1
<1>. HIDE DEF change
<1>. QED
    BY <1>1, <1>2, <1>3, Moves DEF OnlyMoves, Sync

(* The lock is taken. *)
LEMMA TakeLockEffect ==
    ASSUME TypeOK, NEW t \in Thread, TakeLock(t)
    PROVE  OnlyMoves(t) /\ th[t].pc = "lock" /\ th'[t].pc = "held" /\ Same(t)
<1>1. {"held"} \subseteq Place /\ t \in Thread
    BY DEF Place, Thread
<1>2. \E p \in {"held"} : Move(t, [th[t] EXCEPT !.pc = p])
    BY DEF TakeLock
<1>. QED
    BY <1>1, <1>2, StepsOn DEF TakeLock

(* The outcome is recorded, and after a success the policy. *)
LEMMA MarkCrawledEffect ==
    ASSUME TypeOK, NEW t \in Thread, MarkCrawled(t)
    PROVE  /\ OnlyMoves(t) /\ th[t].pc = "record" /\ Same(t)
           /\ th'[t].pc = IF th[t].ok /\ th[t].mode # Off /\ th[t].repo \in Signed THEN "policy" ELSE "unlock"
<1>. DEFINE p == IF th[t].ok /\ th[t].mode # Off /\ th[t].repo \in Signed THEN "policy" ELSE "unlock"
<1>1. p \in Place
    BY DEF Place
<1>2. Move(t, [th[t] EXCEPT !.pc = p]) /\ th[t].pc = "record"
    BY DEF MarkCrawled
<1>. HIDE DEF p
<1>3. OnlyMoves(t) /\ th'[t].pc = p /\ Same(t)
    BY <1>1, <1>2, StepsOn
<1>. QED
    BY <1>2, <1>3 DEF p

(* The policy is recorded. *)
LEMMA MarkPolicyEffect ==
    ASSUME TypeOK, NEW t \in Thread, MarkSignaturePolicy(t)
    PROVE  OnlyMoves(t) /\ th[t].pc = "policy" /\ th'[t].pc = "unlock" /\ Same(t)
<1>1. {"unlock"} \subseteq Place /\ t \in Thread
    BY DEF Place, Thread
<1>2. \E p \in {"unlock"} : Move(t, [th[t] EXCEPT !.pc = p])
    BY DEF MarkSignaturePolicy
<1>. QED
    BY <1>1, <1>2, StepsOn DEF MarkSignaturePolicy

(* The lock is released; a request looks again. *)
LEMMA ReleaseEffect ==
    ASSUME TypeOK, NEW t \in Thread, ReleaseLock(t)
    PROVE  /\ OnlyMoves(t) /\ th[t].pc = "unlock"
           /\ \/ t \in Handler /\ th'[t].pc = "recheck" /\ Same(t)
              \/ t \in Repo /\ th'[t].pc = "leave" /\ th'[t].repo = t
<1>1. th[t].pc = "unlock" /\ "recheck" \in Place
    BY DEF ReleaseLock, Place
<1>2. CASE t \in Handler
  <2>1. Move(t, [th[t] EXCEPT !.pc = "recheck"])
    BY <1>2 DEF ReleaseLock
  <2>. QED
    BY <1>1, <1>2, <2>1, StepsOn
<1>3. CASE t \notin Handler
  <2>. DEFINE change == [Idle EXCEPT !.pc = "leave", !.repo = t]
  <2>1. Move(t, change) /\ t \in Repo
    BY <1>3 DEF ReleaseLock, Thread
  <2>2. change \in ThreadState /\ change.pc = "leave" /\ change.repo = t
    BY <2>1, IdleTyped DEF ThreadState, Place, Idle
  <2>. HIDE DEF change
  <2>. QED
    BY <1>1, <2>1, <2>2, Moves DEF OnlyMoves
<1>. QED
    BY <1>2, <1>3

(* A queued crawl comes up. *)
LEMMA LeaveQueueEffect ==
    ASSUME TypeOK, NEW r \in Repo, LeaveQueue(r)
    PROVE  OnlyMoves(r) /\ th[r].pc = "queued" /\ th'[r].pc = "lock" /\ Same(r)
<1>1. {"lock"} \subseteq Place /\ r \in Thread
    BY DEF Place, Thread
<1>2. \E p \in {"lock"} : Move(r, [th[r] EXCEPT !.pc = p])
    BY DEF LeaveQueue
<1>. QED
    BY <1>1, <1>2, StepsOn DEF LeaveQueue

\* What becomes of an entry, but for what crawls record: it stays, goes, or is
\* told of a request or of the configuration, which may register it.
EntryKept(q) ==
    \/ entries'[q] \in {entries[q], None}
    \/ /\ Tracked(q) /\ entries'[q] \in Entry
       /\ entries'[q].policy = entries[q].policy /\ entries'[q].failed = entries[q].failed
    \/ /\ ~Tracked(q) /\ entries'[q] \in Entry
       /\ entries'[q].policy = None /\ ~entries'[q].failed
       /\ entries'[q].requested = now \/ q \in Configured

RegistryKept == entries' \in [Repo -> Entry \cup {None}] /\ \A q \in Repo : EntryKept(q)

(* Records of a request or the configuration are entries. *)
LEMMA EntryUpdates ==
    ASSUME NEW e \in Entry, NEW n \in Stamp
    PROVE  /\ LET f == [e EXCEPT !.requested = n]
              IN  f \in Entry /\ f.requested = n /\ f.policy = e.policy /\ f.failed = e.failed
           /\ LET f == [e EXCEPT !.listed = n]
              IN  f \in Entry /\ f.policy = e.policy /\ f.failed = e.failed
BY DEF Entry

LEMMA TouchEffect ==
    ASSUME TypeOK, NEW S \in SUBSET Repo, Touch(S)
    PROVE  RegistryKept
<1>1. now \in Stamp
    BY DEF TypeOK, Stamp
<1>2. ASSUME NEW q \in Repo
      PROVE  entries'[q] \in Entry \cup {None} /\ EntryKept(q)
  <2>. DEFINE e == IF Tracked(q) THEN entries[q] ELSE Blank
  <2>1. e \in Entry /\ (~Tracked(q) => e = Blank) /\ (Tracked(q) => e = entries[q])
    BY BlankTyped DEF TypeOK, Tracked
  <2>2. entries'[q] = IF q \notin S THEN entries[q] ELSE [e EXCEPT !.requested = now]
    BY DEF Touch
  <2>. HIDE DEF e
  <2>3. CASE q \notin S
    BY <2>2, <2>3 DEF TypeOK, EntryKept
  <2>4. CASE q \in S
    <3>1. /\ entries'[q] \in Entry /\ entries'[q].requested = now
          /\ entries'[q].policy = e.policy /\ entries'[q].failed = e.failed
      BY <1>1, <2>1, <2>2, <2>4 DEF Entry
    <3>. QED
      BY <2>1, <3>1, BlankTyped DEF EntryKept, Tracked
  <2>. QED
    BY <2>3, <2>4
<1>3. entries' = [q \in Repo |-> entries'[q]]
    BY DEF Touch
<1>. QED
    BY <1>2, <1>3 DEF RegistryKept

LEMMA ListedEffect ==
    ASSUME TypeOK, NEW r \in Configured, CrawlConfigured(r)
    PROVE  RegistryKept
<1>. DEFINE e == IF Tracked(r) THEN entries[r] ELSE Blank
            f == [e EXCEPT !.listed = sched.at]
<1>1. r \in Repo /\ sched.at \in Stamp
    BY MirrorCacheAssumption DEF TypeOK, SchedState, Stamp
<1>2. e \in Entry /\ (~Tracked(r) => e = Blank) /\ (Tracked(r) => e = entries[r])
    BY <1>1, BlankTyped DEF TypeOK, Tracked
<1>3. entries' = [entries EXCEPT ![r] = f]
    BY DEF CrawlConfigured
<1>. HIDE DEF e
<1>4. f \in Entry /\ f.policy = e.policy /\ f.failed = e.failed
    BY <1>1, <1>2, EntryUpdates
<1>. HIDE DEF f
<1>5. EntryKept(r)
    BY <1>1, <1>2, <1>3, <1>4, BlankTyped DEF EntryKept, Tracked, TypeOK
<1>6. \A q \in Repo \ {r} : EntryKept(q)
    BY <1>3 DEF EntryKept, TypeOK
<1>. QED
    BY <1>1, <1>3, <1>4, <1>5, <1>6 DEF RegistryKept, TypeOK

(* The outcome of a crawl goes to the entry that there is. *)
LEMMA MarkCrawledRecords ==
    ASSUME TypeOK, NEW t \in Thread, MarkCrawled(t), th[t].repo \in Repo
    PROVE  /\ entries' \in [Repo -> Entry \cup {None}]
           /\ \A q \in Repo \ {th[t].repo} : entries'[q] = entries[q]
           /\ ~Tracked(th[t].repo) => entries'[th[t].repo] = None
           /\ Tracked(th[t].repo) =>
                 /\ entries'[th[t].repo].policy = entries[th[t].repo].policy
                 /\ entries'[th[t].repo].failed = ~th[t].ok
<1>. DEFINE r == th[t].repo
            gap == IF th[t].ok THEN CrawlInterval ELSE RetryInterval
            f == [entries[r] EXCEPT !.crawled = now, !.failed = ~th[t].ok, !.next = now + gap]
<1>1. CASE ~Tracked(r)
    BY <1>1 DEF MarkCrawled, TypeOK, Tracked
<1>2. CASE Tracked(r)
  <2>1. entries' = [entries EXCEPT ![r] = f]
    BY <1>2 DEF MarkCrawled
  <2>2. entries[r] \in Entry /\ now \in Stamp /\ (~th[t].ok) \in BOOLEAN
    BY <1>2 DEF TypeOK, Tracked, Stamp
  <2>3. now + gap \in {Never} \cup 0..(MaxTime + CrawlInterval + RetryInterval)
    BY CacheNames DEF TypeOK, Time
  <2>4. ASSUME NEW n \in {Never} \cup 0..(MaxTime + CrawlInterval + RetryInterval), NEW b \in BOOLEAN
        PROVE  LET g == [entries[r] EXCEPT !.crawled = now, !.failed = b, !.next = n]
               IN  g \in Entry /\ g.policy = entries[r].policy /\ g.failed = b
    BY <2>2 DEF Entry
  <2>5. f \in Entry /\ f.policy = entries[r].policy /\ f.failed = ~th[t].ok
    BY <2>2, <2>3, <2>4
  <2>. HIDE DEF f
  <2>. QED
    BY <1>2, <2>1, <2>2, <2>5 DEF TypeOK, Tracked
<1>. QED
    BY <1>1, <1>2

LEMMA MarkPolicyRecords ==
    ASSUME TypeOK, NEW t \in Thread, MarkSignaturePolicy(t), th[t].repo \in Repo, th[t].mode \in Policies
    PROVE  /\ entries' \in [Repo -> Entry \cup {None}]
           /\ \A q \in Repo \ {th[t].repo} : entries'[q] = entries[q]
           /\ ~Tracked(th[t].repo) => entries'[th[t].repo] = None
           /\ Tracked(th[t].repo) => entries'[th[t].repo].policy = th[t].mode
<1>. DEFINE r == th[t].repo
            f == [entries[r] EXCEPT !.policy = th[t].mode]
<1>1. CASE ~Tracked(r)
    BY <1>1 DEF MarkSignaturePolicy, TypeOK, Tracked
<1>2. CASE Tracked(r)
  <2>1. entries' = [entries EXCEPT ![r] = f]
    BY <1>2 DEF MarkSignaturePolicy
  <2>2. entries[r] \in Entry
    BY <1>2 DEF TypeOK, Tracked
  <2>3. f \in Entry /\ f.policy = th[t].mode
    BY <2>2 DEF Entry
  <2>. HIDE DEF f
  <2>. QED
    BY <1>2, <2>1, <2>2, <2>3 DEF TypeOK, Tracked
<1>. QED
    BY <1>1, <1>2

(* A goroutine that moves to where it may be leaves all where they may be. *)
LEMMA PlacesKept ==
    ASSUME CacheTypes, NEW t \in Thread, OnlyMoves(t), Placed(t, th'[t])
    PROVE  th' \in [Thread -> ThreadState] /\ \A u \in Thread : Placed(u, th'[u])
BY DEF CacheTypes, OnlyMoves

(* A crawl that begins is its repository's. *)
LEMMA BegunPlaced ==
    ASSUME NEW r \in Repo, Begins(r)
    PROVE  Placed(r, th'[r])
BY CacheNames DEF Begins, Placed, CrawlPlace, Thread

(* Under the lock a crawl goes by a policy, or records that it has none. *)
LEMMA UnderLockPlaced ==
    ASSUME CacheTypes, NEW t \in Thread, UnderLock(t)
    PROVE  OnlyMoves(t) /\ Placed(t, th'[t])
<1>. DEFINE r == th[t].repo
            m == th'[t].mode
<1>1. th[t].pc = "held" /\ Placed(t, th[t]) /\ TypeOK
    BY DEF UnderLock, CacheTypes
<1>2. r \in Repo
    BY <1>1 DEF Placed
<1>3. /\ OnlyMoves(t) /\ th'[t].repo = r
      /\ m \in IF t \in Handler THEN {th[t].mode} ELSE IF Protected(r) THEN Settings ELSE {Off}
      /\ \/ m = Broken /\ th'[t].pc = "record"
         \/ m # Broken /\ th'[t].pc \in {"sync", "unlock"}
      /\ th'[t].ok => t \in Handler /\ Tracked(r) /\ entries[r].policy = th[t].mode
    BY <1>1, <1>2, UnderLockEffect
<1>4. m \in Policies \cup {Broken}
  <2>1. CASE t \in Handler
    BY <1>1, <1>3, <2>1 DEF Placed
  <2>2. CASE t \notin Handler /\ Protected(r)
    BY <1>1, <1>3, <2>2, CacheNames DEF TypeOK
  <2>3. CASE t \notin Handler /\ ~Protected(r)
    BY <1>1, <1>2, <1>3, <2>3, CacheNames DEF TypeOK, Protected
  <2>. QED
    BY <2>1, <2>2, <2>3
<1>5. th'[t].ok => m # Broken
  <2>1. Tracked(r) => entries[r].policy \in Policies \cup {None}
    BY <1>1, <1>2 DEF TypeOK, Tracked, Entry
  <2>. QED
    BY <1>3, <2>1, CacheNames
<1>6. t \in Repo => r = t
    BY <1>1 DEF Placed
<1>. HIDE DEF m
<1>. QED
    BY <1>2, <1>3, <1>4, <1>5, <1>6, CacheNames
    DEF Placed, CrawlPlace, HandlerPlace, InCrawl, m

(* Every step leaves the goroutines where they may be. *)
LEMMA ThreadsStayPlaced ==
    ASSUME CacheTypes, [Next]_vars
    PROVE  th' \in [Thread -> ThreadState] /\ \A u \in Thread : Placed(u, th'[u])
<1>. DEFINE Goal ==
           th' \in [Thread -> ThreadState] /\ \A u \in Thread : Placed(u, th'[u])
<1>1. ASSUME NEW h \in Handler, NEW r \in Repo, NEW file \in BOOLEAN, RequestEntryPoint(h, r, file)
      PROVE Goal
  <2>1. OnlyMoves(h) /\ Placed(h, th'[h])
    BY <1>1, RequestEffect, CacheNames DEF CacheTypes, TypeOK, Placed, Thread, HandlerPlace,
       CrawlPlace,
       InCrawl, Same
  <2>. QED
    BY <2>1, PlacesKept DEF Thread
<1>2. ASSUME NEW h \in Handler, NEW r \in Repo, RequestMember(h, r) PROVE Goal
    BY <1>2 DEF CacheTypes, TypeOK, Thread, RequestMember
<1>3. ASSUME NEW h \in Handler, NEW r \in Repo, RequestMissingMember(h, r) PROVE Goal
  <2>1. OnlyMoves(h) /\ Placed(h, th'[h])
    BY <1>3, MissingMemberEffect, CacheNames DEF CacheTypes, TypeOK, Placed, Thread,
       HandlerPlace, CrawlPlace,
       InCrawl, Same
  <2>. QED
    BY <2>1, PlacesKept DEF Thread
<1>4. ASSUME NEW h \in Handler, Inspect(h) PROVE Goal
  <2>1. OnlyMoves(h) /\ Placed(h, th'[h])
    BY <1>4, InspectEffect, CacheNames DEF CacheTypes, TypeOK, Placed, Thread, HandlerPlace,
       CrawlPlace,
       InCrawl, Same
  <2>. QED
    BY <2>1, PlacesKept DEF Thread
<1>5. ASSUME NEW h \in Handler, FetchEntryPoint(h) PROVE Goal
  <2>1. OnlyMoves(h) /\ Placed(h, th'[h])
    BY <1>5, FetchEffect, CacheNames DEF CacheTypes, TypeOK, Placed, Thread, HandlerPlace,
       CrawlPlace,
       InCrawl, Same
  <2>. QED
    BY <2>1, PlacesKept DEF Thread
<1>6. ASSUME NEW h \in Handler, Recheck(h) PROVE Goal
  <2>1. OnlyMoves(h) /\ Placed(h, th'[h])
    BY <1>6, RecheckEffect, CacheNames DEF CacheTypes, TypeOK, Placed, Thread, HandlerPlace,
       CrawlPlace,
       InCrawl, Same
  <2>. QED
    BY <2>1, PlacesKept DEF Thread
<1>7. ASSUME NEW h \in Handler, Fail(h) PROVE Goal
  <2>1. OnlyMoves(h) /\ Placed(h, th'[h])
    BY <1>7, Ends, CacheNames DEF CacheTypes, TypeOK, Placed, Thread, HandlerPlace, CrawlPlace,
       InCrawl, Same, Fail
  <2>. QED
    BY <2>1, PlacesKept DEF Thread
<1>8. ASSUME NEW h \in Handler, Dispatch(h) PROVE Goal
  <2>1. th[h].repo \in Repo
    BY <1>8 DEF Dispatch, CacheTypes, Placed, Thread
  <2>2. /\ th' \in [Thread -> ThreadState]
        /\ th'[h].pc = "serve" /\ th'[h].repo = th[h].repo
        /\ \A u \in Thread \ {h} : th'[u] = th[u] \/ (u \in Repo /\ Begins(u))
    BY <1>8, <2>1, DispatchEffect DEF CacheTypes
  <2>3. Placed(h, th'[h])
    BY <2>1, <2>2, CacheNames DEF Placed, HandlerPlace
  <2>4. \A u \in Thread \ {h} : Placed(u, th'[u])
    BY <2>2, BegunPlaced DEF CacheTypes
  <2>. QED
    BY <2>2, <2>3, <2>4
<1>9. ASSUME NEW h \in Handler, Serve(h) PROVE Goal
  <2>1. OnlyMoves(h) /\ Placed(h, th'[h])
    BY <1>9, Ends, CacheNames DEF CacheTypes, TypeOK, Placed, Thread, HandlerPlace, CrawlPlace,
       InCrawl, Same, Serve
  <2>. QED
    BY <2>1, PlacesKept DEF Thread
<1>10. ASSUME NEW t \in Thread, TakeLock(t) PROVE Goal
  <2>1. OnlyMoves(t) /\ Placed(t, th'[t])
    BY <1>10, TakeLockEffect, CacheNames DEF CacheTypes, TypeOK, Placed, Thread, HandlerPlace,
       CrawlPlace,
       InCrawl, Same
  <2>. QED
    BY <2>1, PlacesKept DEF Thread
<1>11. ASSUME NEW t \in Thread, UnderLock(t) PROVE Goal
    BY <1>11, UnderLockPlaced, PlacesKept
<1>12. ASSUME NEW t \in Thread, Sync(t) PROVE Goal
  <2>1. OnlyMoves(t) /\ Placed(t, th'[t])
    BY <1>12, SyncEffect, CacheNames DEF CacheTypes, TypeOK, Placed, Thread, HandlerPlace,
       CrawlPlace,
       InCrawl, Same
  <2>. QED
    BY <2>1, PlacesKept DEF Thread
<1>13. ASSUME NEW t \in Thread, MarkCrawled(t) PROVE Goal
  <2>1. OnlyMoves(t) /\ Placed(t, th'[t])
    BY <1>13, MarkCrawledEffect, CacheNames DEF CacheTypes, TypeOK, Placed, Thread,
       HandlerPlace, CrawlPlace,
       InCrawl, Same
  <2>. QED
    BY <2>1, PlacesKept DEF Thread
<1>14. ASSUME NEW t \in Thread, MarkSignaturePolicy(t) PROVE Goal
  <2>1. OnlyMoves(t) /\ Placed(t, th'[t])
    BY <1>14, MarkPolicyEffect, CacheNames DEF CacheTypes, TypeOK, Placed, Thread, HandlerPlace,
       CrawlPlace,
       InCrawl, Same
  <2>. QED
    BY <2>1, PlacesKept DEF Thread
<1>15. ASSUME NEW t \in Thread, ReleaseLock(t) PROVE Goal
  <2>1. OnlyMoves(t) /\ Placed(t, th'[t])
    BY <1>15, ReleaseEffect, CacheNames DEF CacheTypes, TypeOK, Placed, Thread, HandlerPlace,
       CrawlPlace,
       InCrawl, Same
  <2>. QED
    BY <2>1, PlacesKept DEF Thread
<1>16. ASSUME NEW r \in Repo, LeaveQueue(r) PROVE Goal
  <2>1. OnlyMoves(r) /\ Placed(r, th'[r])
    BY <1>16, LeaveQueueEffect, CacheNames DEF CacheTypes, TypeOK, Placed, Thread, HandlerPlace,
       CrawlPlace,
       InCrawl, Same
  <2>. QED
    BY <2>1, PlacesKept DEF Thread
<1>17. ASSUME NEW r \in Repo, LeaveInflight(r) PROVE Goal
  <2>1. OnlyMoves(r) /\ Placed(r, th'[r])
    BY <1>17, Ends, CacheNames DEF CacheTypes, TypeOK, Placed, Thread, HandlerPlace, CrawlPlace,
       InCrawl, Same, LeaveInflight
  <2>. QED
    BY <2>1, PlacesKept DEF Thread
<1>18. CASE BeginPass
    BY <1>18 DEF CacheTypes, TypeOK, Thread, BeginPass
<1>19. ASSUME NEW r \in Repo, CrawlConfigured(r) PROVE Goal
  <2>1. th' = th \/ (~Inflight(r) /\ th' = [th EXCEPT ![r] = [Idle EXCEPT !.pc = "queued", !.repo = r]])
    BY <1>19 DEF CrawlConfigured
  <2>2. CASE th' = th
    BY <2>2 DEF CacheTypes, TypeOK, Thread
  <2>3. CASE ~Inflight(r) /\ th' = [th EXCEPT ![r] = [Idle EXCEPT !.pc = "queued", !.repo = r]]
    <3>1. OnlyMoves(r) /\ Begins(r)
      BY <2>3, Queues DEF CacheTypes
    <3>. QED
      BY <3>1, BegunPlaced, PlacesKept DEF Thread
  <2>. QED
    BY <2>1, <2>2, <2>3
<1>20. CASE TakeSnapshot
    BY <1>20 DEF CacheTypes, TypeOK, Thread, TakeSnapshot
<1>21. ASSUME NEW r \in Repo, CrawlDue(r) PROVE Goal
  <2>1. th' = th \/ (~Inflight(r) /\ th' = [th EXCEPT ![r] = [Idle EXCEPT !.pc = "queued", !.repo = r]])
    BY <1>21 DEF CrawlDue
  <2>2. CASE th' = th
    BY <2>2 DEF CacheTypes, TypeOK, Thread
  <2>3. CASE ~Inflight(r) /\ th' = [th EXCEPT ![r] = [Idle EXCEPT !.pc = "queued", !.repo = r]]
    <3>1. OnlyMoves(r) /\ Begins(r)
      BY <2>3, Queues DEF CacheTypes
    <3>. QED
      BY <3>1, BegunPlaced, PlacesKept DEF Thread
  <2>. QED
    BY <2>1, <2>2, <2>3
<1>22. CASE EndPass
    BY <1>22 DEF CacheTypes, TypeOK, Thread, EndPass
<1>23. CASE EvictLock
    BY <1>23 DEF CacheTypes, TypeOK, Thread, EvictLock
<1>24. CASE EvictRecheck
    BY <1>24 DEF CacheTypes, TypeOK, Thread, EvictRecheck
<1>25. CASE EvictRemove
    BY <1>25 DEF CacheTypes, TypeOK, Thread, EvictRemove
<1>26. CASE EvictDelete
    BY <1>26 DEF CacheTypes, TypeOK, Thread, EvictDelete
<1>27. CASE EvictUnlock
    BY <1>27 DEF CacheTypes, TypeOK, Thread, EvictUnlock
<1>28. CASE Tick
    BY <1>28 DEF CacheTypes, TypeOK, Thread, Tick
<1>29. CASE Reload
    BY <1>29 DEF CacheTypes, TypeOK, Thread, Reload
<1>30. CASE UNCHANGED vars
    BY <1>30 DEF CacheTypes, TypeOK, Thread, vars
<1>. QED
    BY <1>1, <1>2, <1>3, <1>4, <1>5, <1>6, <1>7, <1>8, <1>9, <1>10, <1>11, <1>12, <1>13, <1>14,
       <1>15, <1>16, <1>17, <1>18, <1>19, <1>20, <1>21, <1>22, <1>23, <1>24, <1>25, <1>26,
       <1>27, <1>28, <1>29, <1>30 DEF Next, Requests, HandlerStep, GoroutineStep,
       SchedulerStep, CrawlStep, Thread

(* So does the scheduler. *)
LEMMA SchedulerStaysPlaced ==
    ASSUME CacheTypes, [Next]_vars
    PROVE  sched' \in SchedState /\ SchedPlaced(sched')
<1>. USE DEF CacheTypes
<1>1. ASSUME NEW h \in Handler, NEW r \in Repo, NEW file \in BOOLEAN, RequestEntryPoint(h, r, file)
      PROVE sched' \in SchedState /\ SchedPlaced(sched')
    BY <1>1 DEF TypeOK, SchedState, SchedPlaced, Time, RequestEntryPoint
<1>2. ASSUME NEW h \in Handler, NEW r \in Repo, RequestMember(h, r)
      PROVE sched' \in SchedState /\ SchedPlaced(sched')
    BY <1>2 DEF TypeOK, SchedState, SchedPlaced, Time, RequestMember
<1>3. ASSUME NEW h \in Handler, NEW r \in Repo, RequestMissingMember(h, r)
      PROVE sched' \in SchedState /\ SchedPlaced(sched')
    BY <1>3 DEF TypeOK, SchedState, SchedPlaced, Time, RequestMissingMember
<1>4. ASSUME NEW h \in Handler, Inspect(h) PROVE sched' \in SchedState /\ SchedPlaced(sched')
    BY <1>4 DEF TypeOK, SchedState, SchedPlaced, Time, Inspect
<1>5. ASSUME NEW h \in Handler, FetchEntryPoint(h)
      PROVE sched' \in SchedState /\ SchedPlaced(sched')
    BY <1>5 DEF TypeOK, SchedState, SchedPlaced, Time, FetchEntryPoint
<1>6. ASSUME NEW h \in Handler, Recheck(h) PROVE sched' \in SchedState /\ SchedPlaced(sched')
    BY <1>6 DEF TypeOK, SchedState, SchedPlaced, Time, Recheck
<1>7. ASSUME NEW h \in Handler, Fail(h) PROVE sched' \in SchedState /\ SchedPlaced(sched')
    BY <1>7 DEF TypeOK, SchedState, SchedPlaced, Time, Fail
<1>8. ASSUME NEW h \in Handler, Dispatch(h) PROVE sched' \in SchedState /\ SchedPlaced(sched')
    BY <1>8 DEF TypeOK, SchedState, SchedPlaced, Time, Dispatch
<1>9. ASSUME NEW h \in Handler, Serve(h) PROVE sched' \in SchedState /\ SchedPlaced(sched')
    BY <1>9 DEF TypeOK, SchedState, SchedPlaced, Time, Serve
<1>10. ASSUME NEW t \in Thread, TakeLock(t) PROVE sched' \in SchedState /\ SchedPlaced(sched')
    BY <1>10 DEF TypeOK, SchedState, SchedPlaced, Time, TakeLock
<1>11. ASSUME NEW t \in Thread, UnderLock(t) PROVE sched' \in SchedState /\ SchedPlaced(sched')
    BY <1>11 DEF TypeOK, SchedState, SchedPlaced, Time, UnderLock
<1>12. ASSUME NEW t \in Thread, Sync(t) PROVE sched' \in SchedState /\ SchedPlaced(sched')
    BY <1>12 DEF TypeOK, SchedState, SchedPlaced, Time, Sync
<1>13. ASSUME NEW t \in Thread, MarkCrawled(t)
      PROVE sched' \in SchedState /\ SchedPlaced(sched')
    BY <1>13 DEF TypeOK, SchedState, SchedPlaced, Time, MarkCrawled
<1>14. ASSUME NEW t \in Thread, MarkSignaturePolicy(t)
      PROVE sched' \in SchedState /\ SchedPlaced(sched')
    BY <1>14 DEF TypeOK, SchedState, SchedPlaced, Time, MarkSignaturePolicy
<1>15. ASSUME NEW t \in Thread, ReleaseLock(t)
      PROVE sched' \in SchedState /\ SchedPlaced(sched')
    BY <1>15 DEF TypeOK, SchedState, SchedPlaced, Time, ReleaseLock
<1>16. ASSUME NEW r \in Repo, LeaveQueue(r) PROVE sched' \in SchedState /\ SchedPlaced(sched')
    BY <1>16 DEF TypeOK, SchedState, SchedPlaced, Time, LeaveQueue
<1>17. ASSUME NEW r \in Repo, LeaveInflight(r)
      PROVE sched' \in SchedState /\ SchedPlaced(sched')
    BY <1>17 DEF TypeOK, SchedState, SchedPlaced, Time, LeaveInflight
<1>18. CASE BeginPass
    BY <1>18, MirrorCacheAssumption DEF TypeOK, SchedState, SchedPlaced, BeginPass
<1>19. ASSUME NEW r \in Repo, CrawlConfigured(r)
      PROVE sched' \in SchedState /\ SchedPlaced(sched')
    BY <1>19 DEF TypeOK, SchedState, SchedPlaced, CrawlConfigured
<1>20. CASE TakeSnapshot
    BY <1>20 DEF TypeOK, SchedState, SchedPlaced, Time, TakeSnapshot
<1>21. ASSUME NEW r \in Repo, CrawlDue(r) PROVE sched' \in SchedState /\ SchedPlaced(sched')
  <2>. DEFINE e == sched.snap[r]
              tier == RefreshTier(sched.at - e.requested, Refresh)
              evict == /\ e.requested # Never /\ tier.stale
                       /\ ~ActiveInInventory(e, sched.at, Grace)
  <2>1. sched' = [sched EXCEPT !.todo = sched.todo \ {r}, !.pc = IF evict THEN "evict" ELSE "due",
                               !.key = IF evict THEN r ELSE None]
    BY <1>21 DEF CrawlDue
  <2>. HIDE DEF evict
  <2>. QED
    BY <1>21, <2>1 DEF TypeOK, SchedState, SchedPlaced
<1>22. CASE EndPass
  <2>1. NoSnap \in [Repo -> Entry \cup {None}]
    BY DEF NoSnap
  <2>. QED
    BY <1>22, <2>1 DEF TypeOK, SchedState, SchedPlaced, EndPass
<1>23. CASE EvictLock
    BY <1>23 DEF TypeOK, SchedState, SchedPlaced, Time, EvictLock
<1>24. CASE EvictRecheck
    BY <1>24 DEF TypeOK, SchedState, SchedPlaced, Time, EvictRecheck
<1>25. CASE EvictRemove
    BY <1>25 DEF TypeOK, SchedState, SchedPlaced, Time, EvictRemove
<1>26. CASE EvictDelete
    BY <1>26 DEF TypeOK, SchedState, SchedPlaced, Time, EvictDelete
<1>27. CASE EvictUnlock
    BY <1>27 DEF TypeOK, SchedState, SchedPlaced, Time, EvictUnlock
<1>28. CASE Tick
    BY <1>28 DEF TypeOK, SchedState, SchedPlaced, Time, Tick
<1>29. CASE Reload
    BY <1>29 DEF TypeOK, SchedState, SchedPlaced, Time, Reload
<1>30. CASE UNCHANGED vars
    BY <1>30 DEF TypeOK, SchedState, SchedPlaced, Time, vars
<1>. QED
    BY <1>1, <1>2, <1>3, <1>4, <1>5, <1>6, <1>7, <1>8, <1>9, <1>10, <1>11, <1>12, <1>13, <1>14,
       <1>15, <1>16, <1>17, <1>18, <1>19, <1>20, <1>21, <1>22, <1>23, <1>24, <1>25, <1>26,
       <1>27, <1>28, <1>29, <1>30 DEF Next, Requests, HandlerStep, GoroutineStep,
       SchedulerStep, CrawlStep, Thread

(* The registry goes by requests, the configuration and evictions, but for what crawls record. *)
LEMMA RegistrySteps ==
    ASSUME CacheTypes, [Next]_vars
    PROVE  RegistryKept \/ \E u \in Thread : MarkCrawled(u) \/ MarkSignaturePolicy(u)
<1>. USE DEF CacheTypes
<1>. DEFINE Goal ==
           RegistryKept \/ \E u \in Thread : MarkCrawled(u) \/ MarkSignaturePolicy(u)
<1>1. ASSUME NEW h \in Handler, NEW r \in Repo, NEW file \in BOOLEAN, RequestEntryPoint(h, r, file)
      PROVE Goal
  <2>1. Touch({r}) /\ {r} \in SUBSET Repo
    BY <1>1 DEF RequestEntryPoint
  <2>. QED
    BY <2>1, TouchEffect
<1>2. ASSUME NEW h \in Handler, NEW r \in Repo, RequestMember(h, r) PROVE Goal
  <2>1. Touch(Covering(r)) /\ Covering(r) \in SUBSET Repo
    BY <1>2 DEF RequestMember, Covering
  <2>. QED
    BY <2>1, TouchEffect
<1>3. ASSUME NEW h \in Handler, NEW r \in Repo, RequestMissingMember(h, r) PROVE Goal
  <2>1. Touch(Covering(r)) /\ Covering(r) \in SUBSET Repo
    BY <1>3 DEF RequestMissingMember, Covering
  <2>. QED
    BY <2>1, TouchEffect
<1>4. ASSUME NEW h \in Handler, Inspect(h) PROVE Goal
    BY <1>4 DEF TypeOK, RegistryKept, EntryKept, Inspect
<1>5. ASSUME NEW h \in Handler, FetchEntryPoint(h) PROVE Goal
    BY <1>5 DEF TypeOK, RegistryKept, EntryKept, FetchEntryPoint
<1>6. ASSUME NEW h \in Handler, Recheck(h) PROVE Goal
    BY <1>6 DEF TypeOK, RegistryKept, EntryKept, Recheck
<1>7. ASSUME NEW h \in Handler, Fail(h) PROVE Goal
    BY <1>7 DEF TypeOK, RegistryKept, EntryKept, Fail
<1>8. ASSUME NEW h \in Handler, Dispatch(h) PROVE Goal
    BY <1>8 DEF TypeOK, RegistryKept, EntryKept, Dispatch
<1>9. ASSUME NEW h \in Handler, Serve(h) PROVE Goal
    BY <1>9 DEF TypeOK, RegistryKept, EntryKept, Serve
<1>10. ASSUME NEW t \in Thread, TakeLock(t) PROVE Goal
    BY <1>10 DEF TypeOK, RegistryKept, EntryKept, TakeLock
<1>11. ASSUME NEW t \in Thread, UnderLock(t) PROVE Goal
    BY <1>11 DEF TypeOK, RegistryKept, EntryKept, UnderLock
<1>12. ASSUME NEW t \in Thread, Sync(t) PROVE Goal
    BY <1>12 DEF TypeOK, RegistryKept, EntryKept, Sync
<1>13. ASSUME NEW t \in Thread, MarkCrawled(t) PROVE Goal
    BY <1>13
<1>14. ASSUME NEW t \in Thread, MarkSignaturePolicy(t) PROVE Goal
    BY <1>14
<1>15. ASSUME NEW t \in Thread, ReleaseLock(t) PROVE Goal
    BY <1>15 DEF TypeOK, RegistryKept, EntryKept, ReleaseLock
<1>16. ASSUME NEW r \in Repo, LeaveQueue(r) PROVE Goal
    BY <1>16 DEF TypeOK, RegistryKept, EntryKept, LeaveQueue
<1>17. ASSUME NEW r \in Repo, LeaveInflight(r) PROVE Goal
    BY <1>17 DEF TypeOK, RegistryKept, EntryKept, LeaveInflight
<1>18. CASE BeginPass
    BY <1>18 DEF TypeOK, RegistryKept, EntryKept, BeginPass
<1>19. ASSUME NEW r \in Repo, CrawlConfigured(r) PROVE Goal
  <2>1. r \in Configured
    BY <1>19 DEF CrawlConfigured, SchedPlaced
  <2>. QED
    BY <1>19, <2>1, ListedEffect
<1>20. CASE TakeSnapshot
    BY <1>20 DEF TypeOK, RegistryKept, EntryKept, TakeSnapshot
<1>21. ASSUME NEW r \in Repo, CrawlDue(r) PROVE Goal
    BY <1>21 DEF TypeOK, RegistryKept, EntryKept, CrawlDue
<1>22. CASE EndPass
    BY <1>22 DEF TypeOK, RegistryKept, EntryKept, EndPass
<1>23. CASE EvictLock
    BY <1>23 DEF TypeOK, RegistryKept, EntryKept, EvictLock
<1>24. CASE EvictRecheck
    BY <1>24 DEF TypeOK, RegistryKept, EntryKept, EvictRecheck
<1>25. CASE EvictRemove
    BY <1>25 DEF TypeOK, RegistryKept, EntryKept, EvictRemove
<1>26. CASE EvictDelete
    BY <1>26 DEF TypeOK, RegistryKept, EntryKept, EvictDelete
<1>27. CASE EvictUnlock
    BY <1>27 DEF TypeOK, RegistryKept, EntryKept, EvictUnlock
<1>28. CASE Tick
    BY <1>28 DEF TypeOK, RegistryKept, EntryKept, Tick
<1>29. CASE Reload
    BY <1>29 DEF TypeOK, RegistryKept, EntryKept, Reload
<1>30. CASE UNCHANGED vars
    BY <1>30 DEF TypeOK, RegistryKept, EntryKept, vars
<1>. QED
    BY <1>1, <1>2, <1>3, <1>4, <1>5, <1>6, <1>7, <1>8, <1>9, <1>10, <1>11, <1>12, <1>13, <1>14,
       <1>15, <1>16, <1>17, <1>18, <1>19, <1>20, <1>21, <1>22, <1>23, <1>24, <1>25, <1>26,
       <1>27, <1>28, <1>29, <1>30 DEF Next, Requests, HandlerStep, GoroutineStep,
       SchedulerStep, CrawlStep, Thread

\* A tree stays as it is, or goes.
TreeKept ==
    /\ tree' \in [Repo -> Policies \cup {Absent, Fetched}]
    /\ \A q \in Repo : tree'[q] \in {tree[q], Absent}

(* Only evictions take files away, and only fetches and crawls bring them. *)
LEMMA TreeSteps ==
    ASSUME CacheTypes, [Next]_vars
    PROVE  TreeKept \/ (\E h \in Handler : FetchEntryPoint(h)) \/ \E u \in Thread : Sync(u)
<1>. USE DEF CacheTypes
<1>. DEFINE Goal ==
           TreeKept \/ (\E h \in Handler : FetchEntryPoint(h)) \/ \E u \in Thread : Sync(u)
<1>1. ASSUME NEW h \in Handler, NEW r \in Repo, NEW file \in BOOLEAN, RequestEntryPoint(h, r, file)
      PROVE Goal
    BY <1>1 DEF TypeOK, TreeKept, RequestEntryPoint
<1>2. ASSUME NEW h \in Handler, NEW r \in Repo, RequestMember(h, r) PROVE Goal
    BY <1>2 DEF TypeOK, TreeKept, RequestMember
<1>3. ASSUME NEW h \in Handler, NEW r \in Repo, RequestMissingMember(h, r) PROVE Goal
    BY <1>3 DEF TypeOK, TreeKept, RequestMissingMember
<1>4. ASSUME NEW h \in Handler, Inspect(h) PROVE Goal
    BY <1>4 DEF TypeOK, TreeKept, Inspect
<1>5. ASSUME NEW h \in Handler, FetchEntryPoint(h) PROVE Goal
    BY <1>5
<1>6. ASSUME NEW h \in Handler, Recheck(h) PROVE Goal
    BY <1>6 DEF TypeOK, TreeKept, Recheck
<1>7. ASSUME NEW h \in Handler, Fail(h) PROVE Goal
    BY <1>7 DEF TypeOK, TreeKept, Fail
<1>8. ASSUME NEW h \in Handler, Dispatch(h) PROVE Goal
    BY <1>8 DEF TypeOK, TreeKept, Dispatch
<1>9. ASSUME NEW h \in Handler, Serve(h) PROVE Goal
    BY <1>9 DEF TypeOK, TreeKept, Serve
<1>10. ASSUME NEW t \in Thread, TakeLock(t) PROVE Goal
    BY <1>10 DEF TypeOK, TreeKept, TakeLock
<1>11. ASSUME NEW t \in Thread, UnderLock(t) PROVE Goal
    BY <1>11 DEF TypeOK, TreeKept, UnderLock
<1>12. ASSUME NEW t \in Thread, Sync(t) PROVE Goal
    BY <1>12
<1>13. ASSUME NEW t \in Thread, MarkCrawled(t) PROVE Goal
    BY <1>13 DEF TypeOK, TreeKept, MarkCrawled
<1>14. ASSUME NEW t \in Thread, MarkSignaturePolicy(t) PROVE Goal
    BY <1>14 DEF TypeOK, TreeKept, MarkSignaturePolicy
<1>15. ASSUME NEW t \in Thread, ReleaseLock(t) PROVE Goal
    BY <1>15 DEF TypeOK, TreeKept, ReleaseLock
<1>16. ASSUME NEW r \in Repo, LeaveQueue(r) PROVE Goal
    BY <1>16 DEF TypeOK, TreeKept, LeaveQueue
<1>17. ASSUME NEW r \in Repo, LeaveInflight(r) PROVE Goal
    BY <1>17 DEF TypeOK, TreeKept, LeaveInflight
<1>18. CASE BeginPass
    BY <1>18 DEF TypeOK, TreeKept, BeginPass
<1>19. ASSUME NEW r \in Repo, CrawlConfigured(r) PROVE Goal
    BY <1>19 DEF TypeOK, TreeKept, CrawlConfigured
<1>20. CASE TakeSnapshot
    BY <1>20 DEF TypeOK, TreeKept, TakeSnapshot
<1>21. ASSUME NEW r \in Repo, CrawlDue(r) PROVE Goal
    BY <1>21 DEF TypeOK, TreeKept, CrawlDue
<1>22. CASE EndPass
    BY <1>22 DEF TypeOK, TreeKept, EndPass
<1>23. CASE EvictLock
    BY <1>23 DEF TypeOK, TreeKept, EvictLock
<1>24. CASE EvictRecheck
    BY <1>24 DEF TypeOK, TreeKept, EvictRecheck
<1>25. CASE EvictRemove
  <2>1. CASE tree' = tree
    BY <2>1 DEF TypeOK, TreeKept
  <2>2. CASE tree' = [q \in Repo |-> IF q = sched.key \/ q \in Below[sched.key] THEN Absent ELSE tree[q]]
    BY <2>2 DEF TypeOK, TreeKept
  <2>. QED
    BY <1>25, <2>1, <2>2 DEF EvictRemove
<1>26. CASE EvictDelete
    BY <1>26 DEF TypeOK, TreeKept, EvictDelete
<1>27. CASE EvictUnlock
    BY <1>27 DEF TypeOK, TreeKept, EvictUnlock
<1>28. CASE Tick
    BY <1>28 DEF TypeOK, TreeKept, Tick
<1>29. CASE Reload
    BY <1>29 DEF TypeOK, TreeKept, Reload
<1>30. CASE UNCHANGED vars
    BY <1>30 DEF TypeOK, TreeKept, vars
<1>. QED
    BY <1>1, <1>2, <1>3, <1>4, <1>5, <1>6, <1>7, <1>8, <1>9, <1>10, <1>11, <1>12, <1>13, <1>14,
       <1>15, <1>16, <1>17, <1>18, <1>19, <1>20, <1>21, <1>22, <1>23, <1>24, <1>25, <1>26,
       <1>27, <1>28, <1>29, <1>30 DEF Next, Requests, HandlerStep, GoroutineStep,
       SchedulerStep, CrawlStep, Thread

(* The lock of a repository changes as it is taken and released. *)
LEMMA LockSteps ==
    ASSUME CacheTypes, [Next]_vars
    PROVE  lock' = lock \/ (\E u \in Thread : TakeLock(u) \/ ReleaseLock(u)) \/ EvictLock \/ EvictUnlock
<1>. DEFINE Goal ==
           lock' = lock \/ (\E u \in Thread : TakeLock(u) \/ ReleaseLock(u)) \/ EvictLock \/ EvictUnlock
<1>1. ASSUME NEW h \in Handler, NEW r \in Repo, NEW file \in BOOLEAN, RequestEntryPoint(h, r, file)
      PROVE Goal
    BY <1>1 DEF RequestEntryPoint
<1>2. ASSUME NEW h \in Handler, NEW r \in Repo, RequestMember(h, r) PROVE Goal
    BY <1>2 DEF RequestMember
<1>3. ASSUME NEW h \in Handler, NEW r \in Repo, RequestMissingMember(h, r) PROVE Goal
    BY <1>3 DEF RequestMissingMember
<1>4. ASSUME NEW h \in Handler, Inspect(h) PROVE Goal
    BY <1>4 DEF Inspect
<1>5. ASSUME NEW h \in Handler, FetchEntryPoint(h) PROVE Goal
    BY <1>5 DEF FetchEntryPoint
<1>6. ASSUME NEW h \in Handler, Recheck(h) PROVE Goal
    BY <1>6 DEF Recheck
<1>7. ASSUME NEW h \in Handler, Fail(h) PROVE Goal
    BY <1>7 DEF Fail
<1>8. ASSUME NEW h \in Handler, Dispatch(h) PROVE Goal
    BY <1>8 DEF Dispatch
<1>9. ASSUME NEW h \in Handler, Serve(h) PROVE Goal
    BY <1>9 DEF Serve
<1>10. ASSUME NEW t \in Thread, TakeLock(t) PROVE Goal
    BY <1>10 DEF TakeLock
<1>11. ASSUME NEW t \in Thread, UnderLock(t) PROVE Goal
    BY <1>11 DEF UnderLock
<1>12. ASSUME NEW t \in Thread, Sync(t) PROVE Goal
    BY <1>12 DEF Sync
<1>13. ASSUME NEW t \in Thread, MarkCrawled(t) PROVE Goal
    BY <1>13 DEF MarkCrawled
<1>14. ASSUME NEW t \in Thread, MarkSignaturePolicy(t) PROVE Goal
    BY <1>14 DEF MarkSignaturePolicy
<1>15. ASSUME NEW t \in Thread, ReleaseLock(t) PROVE Goal
    BY <1>15 DEF ReleaseLock
<1>16. ASSUME NEW r \in Repo, LeaveQueue(r) PROVE Goal
    BY <1>16 DEF LeaveQueue
<1>17. ASSUME NEW r \in Repo, LeaveInflight(r) PROVE Goal
    BY <1>17 DEF LeaveInflight
<1>18. CASE BeginPass
    BY <1>18 DEF BeginPass
<1>19. ASSUME NEW r \in Repo, CrawlConfigured(r) PROVE Goal
    BY <1>19 DEF CrawlConfigured
<1>20. CASE TakeSnapshot
    BY <1>20 DEF TakeSnapshot
<1>21. ASSUME NEW r \in Repo, CrawlDue(r) PROVE Goal
    BY <1>21 DEF CrawlDue
<1>22. CASE EndPass
    BY <1>22 DEF EndPass
<1>23. CASE EvictLock
    BY <1>23 DEF EvictLock
<1>24. CASE EvictRecheck
    BY <1>24 DEF EvictRecheck
<1>25. CASE EvictRemove
    BY <1>25 DEF EvictRemove
<1>26. CASE EvictDelete
    BY <1>26 DEF EvictDelete
<1>27. CASE EvictUnlock
    BY <1>27 DEF EvictUnlock
<1>28. CASE Tick
    BY <1>28 DEF Tick
<1>29. CASE Reload
    BY <1>29 DEF Reload
<1>30. CASE UNCHANGED vars
    BY <1>30 DEF vars
<1>. QED
    BY <1>1, <1>2, <1>3, <1>4, <1>5, <1>6, <1>7, <1>8, <1>9, <1>10, <1>11, <1>12, <1>13, <1>14,
       <1>15, <1>16, <1>17, <1>18, <1>19, <1>20, <1>21, <1>22, <1>23, <1>24, <1>25, <1>26,
       <1>27, <1>28, <1>29, <1>30 DEF Next, Requests, HandlerStep, GoroutineStep,
       SchedulerStep, CrawlStep, Thread

(* The clock and the policy change on their own. *)
LEMMA ClockSteps ==
    ASSUME CacheTypes, [Next]_vars
    PROVE  (now' = now \/ Tick) /\ (policy' = policy \/ Reload)
<1>1. ASSUME NEW h \in Handler, NEW r \in Repo, NEW file \in BOOLEAN, RequestEntryPoint(h, r, file)
      PROVE (now' = now \/ Tick) /\ (policy' = policy \/ Reload)
    BY <1>1 DEF Tick, Reload, RequestEntryPoint
<1>2. ASSUME NEW h \in Handler, NEW r \in Repo, RequestMember(h, r)
      PROVE (now' = now \/ Tick) /\ (policy' = policy \/ Reload)
    BY <1>2 DEF Tick, Reload, RequestMember
<1>3. ASSUME NEW h \in Handler, NEW r \in Repo, RequestMissingMember(h, r)
      PROVE (now' = now \/ Tick) /\ (policy' = policy \/ Reload)
    BY <1>3 DEF Tick, Reload, RequestMissingMember
<1>4. ASSUME NEW h \in Handler, Inspect(h)
      PROVE (now' = now \/ Tick) /\ (policy' = policy \/ Reload)
    BY <1>4 DEF Tick, Reload, Inspect
<1>5. ASSUME NEW h \in Handler, FetchEntryPoint(h)
      PROVE (now' = now \/ Tick) /\ (policy' = policy \/ Reload)
    BY <1>5 DEF Tick, Reload, FetchEntryPoint
<1>6. ASSUME NEW h \in Handler, Recheck(h)
      PROVE (now' = now \/ Tick) /\ (policy' = policy \/ Reload)
    BY <1>6 DEF Tick, Reload, Recheck
<1>7. ASSUME NEW h \in Handler, Fail(h)
      PROVE (now' = now \/ Tick) /\ (policy' = policy \/ Reload)
    BY <1>7 DEF Tick, Reload, Fail
<1>8. ASSUME NEW h \in Handler, Dispatch(h)
      PROVE (now' = now \/ Tick) /\ (policy' = policy \/ Reload)
    BY <1>8 DEF Tick, Reload, Dispatch
<1>9. ASSUME NEW h \in Handler, Serve(h)
      PROVE (now' = now \/ Tick) /\ (policy' = policy \/ Reload)
    BY <1>9 DEF Tick, Reload, Serve
<1>10. ASSUME NEW t \in Thread, TakeLock(t)
      PROVE (now' = now \/ Tick) /\ (policy' = policy \/ Reload)
    BY <1>10 DEF Tick, Reload, TakeLock
<1>11. ASSUME NEW t \in Thread, UnderLock(t)
      PROVE (now' = now \/ Tick) /\ (policy' = policy \/ Reload)
    BY <1>11 DEF Tick, Reload, UnderLock
<1>12. ASSUME NEW t \in Thread, Sync(t)
      PROVE (now' = now \/ Tick) /\ (policy' = policy \/ Reload)
    BY <1>12 DEF Tick, Reload, Sync
<1>13. ASSUME NEW t \in Thread, MarkCrawled(t)
      PROVE (now' = now \/ Tick) /\ (policy' = policy \/ Reload)
    BY <1>13 DEF Tick, Reload, MarkCrawled
<1>14. ASSUME NEW t \in Thread, MarkSignaturePolicy(t)
      PROVE (now' = now \/ Tick) /\ (policy' = policy \/ Reload)
    BY <1>14 DEF Tick, Reload, MarkSignaturePolicy
<1>15. ASSUME NEW t \in Thread, ReleaseLock(t)
      PROVE (now' = now \/ Tick) /\ (policy' = policy \/ Reload)
    BY <1>15 DEF Tick, Reload, ReleaseLock
<1>16. ASSUME NEW r \in Repo, LeaveQueue(r)
      PROVE (now' = now \/ Tick) /\ (policy' = policy \/ Reload)
    BY <1>16 DEF Tick, Reload, LeaveQueue
<1>17. ASSUME NEW r \in Repo, LeaveInflight(r)
      PROVE (now' = now \/ Tick) /\ (policy' = policy \/ Reload)
    BY <1>17 DEF Tick, Reload, LeaveInflight
<1>18. CASE BeginPass
    BY <1>18 DEF Tick, Reload, BeginPass
<1>19. ASSUME NEW r \in Repo, CrawlConfigured(r)
      PROVE (now' = now \/ Tick) /\ (policy' = policy \/ Reload)
    BY <1>19 DEF Tick, Reload, CrawlConfigured
<1>20. CASE TakeSnapshot
    BY <1>20 DEF Tick, Reload, TakeSnapshot
<1>21. ASSUME NEW r \in Repo, CrawlDue(r)
      PROVE (now' = now \/ Tick) /\ (policy' = policy \/ Reload)
    BY <1>21 DEF Tick, Reload, CrawlDue
<1>22. CASE EndPass
    BY <1>22 DEF Tick, Reload, EndPass
<1>23. CASE EvictLock
    BY <1>23 DEF Tick, Reload, EvictLock
<1>24. CASE EvictRecheck
    BY <1>24 DEF Tick, Reload, EvictRecheck
<1>25. CASE EvictRemove
    BY <1>25 DEF Tick, Reload, EvictRemove
<1>26. CASE EvictDelete
    BY <1>26 DEF Tick, Reload, EvictDelete
<1>27. CASE EvictUnlock
    BY <1>27 DEF Tick, Reload, EvictUnlock
<1>28. CASE Tick
    BY <1>28 DEF Tick
<1>29. CASE Reload
    BY <1>29 DEF Reload
<1>30. CASE UNCHANGED vars
    BY <1>30 DEF Tick, Reload, vars
<1>. QED
    BY <1>1, <1>2, <1>3, <1>4, <1>5, <1>6, <1>7, <1>8, <1>9, <1>10, <1>11, <1>12, <1>13, <1>14,
       <1>15, <1>16, <1>17, <1>18, <1>19, <1>20, <1>21, <1>22, <1>23, <1>24, <1>25, <1>26,
       <1>27, <1>28, <1>29, <1>30 DEF Next, Requests, HandlerStep, GoroutineStep,
       SchedulerStep, CrawlStep, Thread

(* The types and places are inductive. *)
LEMMA TypesStep ==
    ASSUME CacheTypes, [Next]_vars
    PROVE  CacheTypes'
<1>. USE DEF CacheTypes
<1>1. now' \in Time /\ policy' \in Policies
    BY ClockSteps, MirrorCacheAssumption DEF TypeOK, Tick, Reload, Time
<1>2. entries' \in [Repo -> Entry \cup {None}]
  <2>1. CASE RegistryKept
    BY <2>1 DEF RegistryKept
  <2>2. ASSUME NEW t \in Thread, MarkCrawled(t) PROVE entries' \in [Repo -> Entry \cup {None}]
    <3>1. th[t].repo \in Repo
      BY <2>2 DEF MarkCrawled, Placed
    <3>. QED
      BY <2>2, <3>1, MarkCrawledRecords
  <2>3. ASSUME NEW t \in Thread, MarkSignaturePolicy(t) PROVE entries' \in [Repo -> Entry \cup {None}]
    <3>1. th[t].repo \in Repo /\ th[t].mode \in Policies
      BY <2>3 DEF MarkSignaturePolicy, Placed
    <3>. QED
      BY <2>3, <3>1, MarkPolicyRecords
  <2>. QED
    BY <2>1, <2>2, <2>3, RegistrySteps
<1>3. tree' \in [Repo -> Policies \cup {Absent, Fetched}]
  <2>1. CASE TreeKept
    BY <2>1 DEF TreeKept
  <2>2. ASSUME NEW h \in Handler, FetchEntryPoint(h) PROVE tree' \in [Repo -> Policies \cup {Absent, Fetched}]
    BY <2>2, FetchEffect DEF TypeOK
  <2>3. ASSUME NEW t \in Thread, Sync(t) PROVE tree' \in [Repo -> Policies \cup {Absent, Fetched}]
    <3>1. th[t].mode \in Policies
      BY <2>3 DEF Sync, Placed
    <3>. QED
      BY <2>3, <3>1, SyncEffect DEF TypeOK
  <2>. QED
    BY <2>1, <2>2, <2>3, TreeSteps
<1>4. lock' \in [Repo -> Repo \cup Handler \cup {Scheduler, None}]
  <2>1. \A t \in Thread : TakeLock(t) \/ ReleaseLock(t) => lock' \in [Repo -> Repo \cup Handler \cup {Scheduler, None}]
    BY DEF TypeOK, TakeLock, ReleaseLock, Thread
  <2>2. EvictLock \/ EvictUnlock => lock' \in [Repo -> Repo \cup Handler \cup {Scheduler, None}]
    BY DEF TypeOK, EvictLock, EvictUnlock
  <2>. QED
    BY <2>1, <2>2, LockSteps DEF TypeOK
<1>5. th' \in [Thread -> ThreadState] /\ \A u \in Thread : Placed(u, th'[u])
    BY ThreadsStayPlaced
<1>6. sched' \in SchedState /\ SchedPlaced(sched')
    BY SchedulerStaysPlaced
<1>7. TypeOK'
    BY <1>1, <1>2, <1>3, <1>4, <1>5, <1>6 DEF TypeOK, Thread
<1>. QED
    BY <1>5, <1>6, <1>7

(* What an earlier process may have left of a repository. *)
LEMMA LeftTyped ==
    ASSUME NEW r \in Repo, NEW left \in Left(r)
    PROVE  /\ left[1] \in Entry \cup {None} /\ left[2] \in Policies \cup {Absent, Fetched}
           /\ left[1] # None /\ left[1].policy # None =>
                 left[1].policy = left[2] /\ r \in Signed /\ left[2] # Off
<1>. DEFINE requested == [Blank EXCEPT !.requested = 0]
            crawled == [requested EXCEPT !.crawled = 0, !.next = CrawlInterval]
<1>1. 0 \in Stamp /\ CrawlInterval \in {Never} \cup 0..(MaxTime + CrawlInterval + RetryInterval)
    BY CacheNames DEF Stamp, Time
<1>2. requested \in Entry /\ requested.policy = None
    BY <1>1 DEF Blank, Entry, Stamp
<1>3. crawled \in Entry
    BY <1>1, <1>2 DEF Entry
<1>. HIDE DEF requested, crawled
<1>4. ASSUME NEW p \in Policies \cup {None}
      PROVE  LET e == [crawled EXCEPT !.policy = p] IN e \in Entry /\ e.policy = p
    BY <1>3 DEF Entry
<1>5. CASE left = <<None, Absent>>
    BY <1>5
<1>6. CASE left = <<requested, Fetched>>
    BY <1>2, <1>6
<1>7. ASSUME NEW p \in IF r \in Signed THEN Policies ELSE {Off},
             left = <<[crawled EXCEPT !.policy = IF p = Off THEN None ELSE p], p>>
      PROVE  /\ left[1] \in Entry /\ left[2] \in Policies
             /\ left[1].policy # None => left[1].policy = left[2] /\ r \in Signed /\ left[2] # Off
  <2>1. p \in Policies
    BY <1>7, CacheNames
  <2>2. left[1] \in Entry /\ left[1].policy = (IF p = Off THEN None ELSE p) /\ left[2] = p
    BY <1>4, <1>7, <2>1
  <2>. QED
    BY <1>7, <2>1, <2>2, CacheNames
<1>. USE DEF requested, crawled
<1>. QED
    BY <1>5, <1>6, <1>7 DEF Left

(* What a process starts from. *)
LEMMA InitTypes ==
    ASSUME Init
    PROVE  CacheTypes
<1>1. PICK left \in [Repo -> UNION {Left(r) : r \in Repo}] :
        /\ \A r \in Repo : left[r] \in Left(r)
        /\ entries = [r \in Repo |-> left[r][1]]
        /\ tree = [r \in Repo |-> left[r][2]]
    BY DEF Init
<1>2. ASSUME NEW r \in Repo
      PROVE  left[r][1] \in Entry \cup {None} /\ left[r][2] \in Policies \cup {Absent, Fetched}
    BY <1>1, LeftTyped
<1>3. StartTime \in Time /\ StartPolicies \subseteq Policies /\ 0 \in Time
    BY MirrorCacheAssumption DEF Time
<1>4. /\ entries \in [Repo -> Entry \cup {None}]
      /\ tree \in [Repo -> Policies \cup {Absent, Fetched}]
    BY <1>1, <1>2
<1>5. sched \in SchedState /\ SchedPlaced(sched)
  <2>1. NoSnap \in [Repo -> Entry \cup {None}]
    BY DEF NoSnap
  <2>. QED
    BY <1>3, <2>1 DEF Init, SchedState, SchedPlaced
<1>6. /\ th \in [Thread -> ThreadState] /\ \A t \in Thread : Placed(t, th[t])
    BY IdleTyped, CacheNames DEF Init, Thread, Placed, Idle, CrawlPlace, HandlerPlace
<1>7. now \in Time /\ policy \in Policies
    BY <1>3 DEF Init
<1>8. lock \in [Repo -> Repo \cup Handler \cup {Scheduler, None}]
    BY DEF Init
<1>9. TypeOK
    BY <1>4, <1>5, <1>6, <1>7, <1>8 DEF TypeOK, Thread
<1>. QED
    BY <1>5, <1>6, <1>9 DEF CacheTypes


-----------------------------------------------------------------------------
(* The types hold from the start and in every step. *)
THEOREM CacheIsTyped == Spec => []CacheTypes
<1>1. Init => CacheTypes
    BY InitTypes
<1>2. CacheTypes /\ [Next]_vars => CacheTypes'
    BY TypesStep
<1>. QED
    BY <1>1, <1>2, PTL DEF Spec

(* Nobody but a request or the configuration registers a repository: not a *)
(* crawl that outlived its registration (state.go MarkCrawled,             *)
(* MarkSignaturePolicy).                                                   *)
THEOREM TrafficRegisters == Spec => OnlyTrafficRegisters
<1>. DEFINE Registers(r) == entries[r] = None /\ entries'[r] # None
                               => entries'[r].requested = now \/ r \in Configured
<1>1. ASSUME CacheTypes, [Next]_vars, NEW r \in Repo
      PROVE  Registers(r)
  <2>1. CASE RegistryKept
    BY <2>1 DEF RegistryKept, EntryKept, Tracked
  <2>2. ASSUME NEW t \in Thread, MarkCrawled(t) PROVE Registers(r)
    <3>1. th[t].repo \in Repo
      BY <1>1, <2>2 DEF MarkCrawled, CacheTypes, Placed
    <3>. QED
      BY <1>1, <2>2, <3>1, MarkCrawledRecords DEF Tracked, CacheTypes
  <2>3. ASSUME NEW t \in Thread, MarkSignaturePolicy(t) PROVE Registers(r)
    <3>1. th[t].repo \in Repo /\ th[t].mode \in Policies
      BY <1>1, <2>3 DEF MarkSignaturePolicy, CacheTypes, Placed
    <3>. QED
      BY <1>1, <2>3, <3>1, MarkPolicyRecords DEF Tracked, CacheTypes
  <2>. QED
    BY <1>1, <2>1, <2>2, <2>3, RegistrySteps
<1>2. CacheTypes /\ [Next]_vars => [\A r \in Repo : Registers(r)]_vars
    BY <1>1
<1>. QED
    BY <1>2, CacheIsTyped, PTL DEF Spec, OnlyTrafficRegisters

-----------------------------------------------------------------------------
(* While the policy stays. *)

(* Files that were verified as configured stay so, or go. *)
LEMMA VerifiedStays ==
    ASSUME Reloadable = {}, SettledInv, [Next]_vars
    PROVE  /\ policy' = policy
           /\ \A r \in Repo : Protected(r) /\ Verified(r) => tree'[r] \in {policy, Absent}
<1>. USE DEF SettledInv
<1>1. policy' = policy
    BY ClockSteps DEF Reload
<1>2. ASSUME NEW r \in Repo, Protected(r), Verified(r)
      PROVE  tree'[r] \in {policy, Absent}
  <2>1. CASE TreeKept
    BY <1>2, <2>1 DEF TreeKept, Verified
  <2>2. ASSUME NEW h \in Handler, FetchEntryPoint(h) PROVE tree'[r] \in {policy, Absent}
    <3>1. h \in Thread /\ th[h].pc = "fetch"
      BY <2>2 DEF FetchEntryPoint, Thread
    <3>2. th[h].repo # r
      BY <1>2, <3>1 DEF GoesBy
    <3>3. tree' \in {tree, [tree EXCEPT ![th[h].repo] = Fetched]}
      BY <2>2, FetchEffect DEF CacheTypes
    <3>. QED
      BY <1>2, <3>2, <3>3 DEF Verified, CacheTypes, TypeOK
  <2>3. ASSUME NEW t \in Thread, Sync(t) PROVE tree'[r] \in {policy, Absent}
    <3>1. th[t].pc = "sync"
      BY <2>3 DEF Sync
    <3>2. th[t].repo = r => th[t].mode = policy
      BY <1>2, <3>1 DEF GoesBy
    <3>3. tree' = tree \/ tree' = [tree EXCEPT ![th[t].repo] = th[t].mode]
      BY <2>3, SyncEffect DEF CacheTypes
    <3>. QED
      BY <1>2, <3>2, <3>3 DEF Verified, CacheTypes, TypeOK
  <2>. QED
    BY <2>1, <2>2, <2>3, TreeSteps
<1>. QED
    BY <1>1, <1>2

(* What a goroutine that does not move goes by stays right. *)
LEMMA UnmovedGoesBy ==
    ASSUME Reloadable = {}, SettledInv, [Next]_vars, NEW u \in Thread, th'[u] = th[u]
    PROVE  GoesBy(u)'
<1>1. GoesBy(u) /\ Placed(u, th[u])
    BY DEF SettledInv, CacheTypes
<1>2. th[u].pc \in InCrawl \cup {"inspect", "fetch", "recheck", "dispatch", "serve"} => th[u].repo \in Repo
    BY <1>1 DEF Placed, InCrawl
<1>. QED
    BY <1>1, <1>2, VerifiedStays DEF GoesBy, Protected, Verified, InCrawl

(* The registry's claims stay right. *)
LEMMA ClaimsStep ==
    ASSUME Reloadable = {}, SettledInv, [Next]_vars
    PROVE  ClaimsInv'
<1>. USE DEF SettledInv
<1>. SUFFICES ASSUME NEW r \in Repo, entries'[r] # None, entries'[r].policy = policy
              PROVE  Protected(r) /\ Verified(r)
    BY VerifiedStays DEF ClaimsInv, Tracked, Protected, Verified
<1>1. policy # None
    BY CacheNames DEF CacheTypes, TypeOK
<1>2. Tracked(r) /\ entries[r].policy = policy => Protected(r) /\ Verified(r)
    BY DEF ClaimsInv
<1>3. CASE RegistryKept
    BY <1>1, <1>2, <1>3 DEF RegistryKept, EntryKept, Tracked
<1>4. ASSUME NEW t \in Thread, MarkCrawled(t) PROVE Protected(r) /\ Verified(r)
  <2>1. th[t].repo \in Repo
    BY <1>4 DEF MarkCrawled, CacheTypes, Placed
  <2>. QED
    BY <1>2, <1>4, <2>1, MarkCrawledRecords DEF Tracked, CacheTypes
<1>5. ASSUME NEW t \in Thread, MarkSignaturePolicy(t) PROVE Protected(r) /\ Verified(r)
  <2>1. th[t].repo \in Repo /\ th[t].mode \in Policies /\ th[t].pc = "policy"
    BY <1>5 DEF MarkSignaturePolicy, CacheTypes, Placed
  <2>2. CASE r = th[t].repo
    BY <2>1, <2>2 DEF GoesBy
  <2>3. CASE r # th[t].repo
    BY <1>2, <1>5, <2>1, <2>3, MarkPolicyRecords DEF Tracked, CacheTypes
  <2>. QED
    BY <2>2, <2>3
<1>. QED
    BY <1>3, <1>4, <1>5, RegistrySteps

(* A crawl that begins has nothing to go by. *)
LEMMA BegunGoesBy ==
    ASSUME NEW r \in Repo, Begins(r)
    PROVE  GoesBy(r)'
BY DEF Begins, GoesBy, InCrawl

(* Under the lock a crawl goes by what is configured, or by what the registry *)
(* claims.                                                                    *)
LEMMA UnderLockGoesBy ==
    ASSUME Reloadable = {}, SettledInv, [Next]_vars, NEW t \in Thread, UnderLock(t)
    PROVE  OnlyMoves(t) /\ GoesBy(t)'
<1>. DEFINE r == th[t].repo
            m == th'[t].mode
<1>1. /\ th[t].pc = "held" /\ Placed(t, th[t]) /\ GoesBy(t) /\ TypeOK
      /\ OnlyMoves(t) /\ Placed(t, th'[t])
    BY UnderLockPlaced DEF UnderLock, SettledInv, CacheTypes
<1>2. r \in Repo /\ policy \in Policies
    BY <1>1 DEF Placed, TypeOK
<1>3. /\ th'[t].repo = r
      /\ m \in IF t \in Handler THEN {th[t].mode} ELSE IF Protected(r) THEN Settings ELSE {Off}
      /\ \/ m = Broken /\ th'[t].pc = "record"
         \/ m # Broken /\ th'[t].pc \in {"sync", "unlock"}
      /\ th'[t].ok => t \in Handler /\ Tracked(r) /\ entries[r].policy = th[t].mode
    BY <1>1, <1>2, UnderLockEffect
<1>4. t \in Handler => Protected(r) /\ m \in {policy, Broken} /\ m = th[t].mode
    BY <1>1, <1>3 DEF GoesBy, InCrawl
<1>5. m \in IF Protected(r) THEN {policy, Broken} ELSE {Off}
    BY <1>3, <1>4, CacheNames
<1>6. th'[t].ok => th'[t].pc # "record"
  <2>1. th'[t].ok /\ th'[t].pc = "record" => m \in Policies
    BY <1>1 DEF Placed
  <2>. QED
    BY <1>3, <2>1, CacheNames
<1>7. th'[t].ok /\ th'[t].pc = "unlock" => m = policy /\ Verified(r)
    BY <1>2, <1>3, <1>4 DEF SettledInv, ClaimsInv
<1>8. Protected(r) /\ Verified(r) => tree'[r] \in {policy', Absent}
    BY <1>2, VerifiedStays
<1>9. policy' = policy /\ th'[t].pc \in {"record", "sync", "unlock"}
    BY <1>3, VerifiedStays
<1>. HIDE DEF m, r
<1>. QED
    BY <1>1, <1>3, <1>4, <1>5, <1>6, <1>7, <1>8, <1>9
    DEF GoesBy, InCrawl, Protected, Verified, m

(* Every goroutine goes by what is right. *)
LEMMA GoesByStep ==
    ASSUME Reloadable = {}, SettledInv, [Next]_vars
    PROVE  \A u \in Thread : GoesBy(u)'
<1>. USE DEF SettledInv
<1>1. ASSUME NEW h \in Handler, NEW r \in Repo, NEW file \in BOOLEAN, RequestEntryPoint(h, r, file)
      PROVE \A u \in Thread : GoesBy(u)'
  <2>1. OnlyMoves(h) /\ GoesBy(h)'
    BY <1>1, RequestEffect, VerifiedStays, CacheNames
    DEF CacheTypes, ClaimsInv, GoesBy, Protected, Verified, InCrawl, Placed, TypeOK, Same, Thread,
        HandlerPlace, CrawlPlace, Tracked
  <2>. QED
    BY <2>1, UnmovedGoesBy DEF OnlyMoves
<1>2. ASSUME NEW h \in Handler, NEW r \in Repo, RequestMember(h, r)
      PROVE \A u \in Thread : GoesBy(u)'
    BY <1>2, UnmovedGoesBy DEF RequestMember
<1>3. ASSUME NEW h \in Handler, NEW r \in Repo, RequestMissingMember(h, r)
      PROVE \A u \in Thread : GoesBy(u)'
  <2>1. OnlyMoves(h) /\ GoesBy(h)'
    BY <1>3, MissingMemberEffect, VerifiedStays, CacheNames
    DEF CacheTypes, ClaimsInv, GoesBy, Protected, Verified, InCrawl, Placed, TypeOK, Same, Thread,
        HandlerPlace, CrawlPlace
  <2>. QED
    BY <2>1, UnmovedGoesBy DEF OnlyMoves
<1>4. ASSUME NEW h \in Handler, Inspect(h) PROVE \A u \in Thread : GoesBy(u)'
  <2>1. OnlyMoves(h) /\ GoesBy(h)'
    BY <1>4, InspectEffect, VerifiedStays, CacheNames
    DEF CacheTypes, ClaimsInv, GoesBy, Protected, Verified, InCrawl, Placed, TypeOK, Same, Thread,
        HandlerPlace, CrawlPlace
  <2>. QED
    BY <2>1, UnmovedGoesBy DEF OnlyMoves
<1>5. ASSUME NEW h \in Handler, FetchEntryPoint(h) PROVE \A u \in Thread : GoesBy(u)'
  <2>1. OnlyMoves(h) /\ GoesBy(h)'
    BY <1>5, FetchEffect, VerifiedStays, CacheNames
    DEF CacheTypes, ClaimsInv, GoesBy, Protected, Verified, InCrawl, Placed, TypeOK, Same, Thread,
        HandlerPlace, CrawlPlace
  <2>. QED
    BY <2>1, UnmovedGoesBy DEF OnlyMoves
<1>6. ASSUME NEW h \in Handler, Recheck(h) PROVE \A u \in Thread : GoesBy(u)'
  <2>1. OnlyMoves(h) /\ GoesBy(h)'
    BY <1>6, RecheckEffect, VerifiedStays, CacheNames
    DEF CacheTypes, ClaimsInv, GoesBy, Protected, Verified, InCrawl, Placed, TypeOK, Same, Thread,
        HandlerPlace, CrawlPlace
  <2>. QED
    BY <2>1, UnmovedGoesBy DEF OnlyMoves
<1>7. ASSUME NEW h \in Handler, Fail(h) PROVE \A u \in Thread : GoesBy(u)'
  <2>1. OnlyMoves(h) /\ GoesBy(h)'
    BY <1>7, Ends, VerifiedStays, CacheNames
    DEF CacheTypes, ClaimsInv, GoesBy, Protected, Verified, InCrawl, Placed, TypeOK, Same, Thread,
        HandlerPlace, CrawlPlace, Fail, Idle
  <2>. QED
    BY <2>1, UnmovedGoesBy DEF OnlyMoves
<1>8. ASSUME NEW h \in Handler, Dispatch(h) PROVE \A u \in Thread : GoesBy(u)'
  <2>1. th[h].repo \in Repo /\ TypeOK
    BY <1>8 DEF Dispatch, CacheTypes, Placed, Thread
  <2>2. GoesBy(h)'
    BY <1>8, <2>1, DispatchEffect, VerifiedStays DEF GoesBy, Protected, Verified, InCrawl,
       Thread
  <2>3. ASSUME NEW u \in Thread \ {h} PROVE GoesBy(u)'
    <3>1. th'[u] = th[u] \/ (u \in Repo /\ Begins(u))
      BY <1>8, <2>1, DispatchEffect
    <3>2. u \in Repo /\ Begins(u) => GoesBy(u)'
      BY BegunGoesBy
    <3>. QED
      BY <3>1, <3>2, UnmovedGoesBy
  <2>. QED
    BY <2>2, <2>3
<1>9. ASSUME NEW h \in Handler, Serve(h) PROVE \A u \in Thread : GoesBy(u)'
  <2>1. OnlyMoves(h) /\ GoesBy(h)'
    BY <1>9, Ends, VerifiedStays, CacheNames
    DEF CacheTypes, ClaimsInv, GoesBy, Protected, Verified, InCrawl, Placed, TypeOK, Same, Thread,
        HandlerPlace, CrawlPlace, Serve, Idle
  <2>. QED
    BY <2>1, UnmovedGoesBy DEF OnlyMoves
<1>10. ASSUME NEW t \in Thread, TakeLock(t) PROVE \A u \in Thread : GoesBy(u)'
  <2>1. OnlyMoves(t) /\ GoesBy(t)'
    BY <1>10, TakeLockEffect, VerifiedStays, CacheNames
    DEF CacheTypes, ClaimsInv, GoesBy, Protected, Verified, InCrawl, Placed, TypeOK, Same, Thread,
        HandlerPlace, CrawlPlace
  <2>. QED
    BY <2>1, UnmovedGoesBy DEF OnlyMoves
<1>11. ASSUME NEW t \in Thread, UnderLock(t) PROVE \A u \in Thread : GoesBy(u)'
    BY <1>11, UnderLockGoesBy, UnmovedGoesBy DEF OnlyMoves
<1>12. ASSUME NEW t \in Thread, Sync(t) PROVE \A u \in Thread : GoesBy(u)'
  <2>1. OnlyMoves(t) /\ GoesBy(t)'
    BY <1>12, SyncEffect, VerifiedStays, CacheNames
    DEF CacheTypes, ClaimsInv, GoesBy, Protected, Verified, InCrawl, Placed, TypeOK, Same, Thread,
        HandlerPlace, CrawlPlace
  <2>. QED
    BY <2>1, UnmovedGoesBy DEF OnlyMoves
<1>13. ASSUME NEW t \in Thread, MarkCrawled(t) PROVE \A u \in Thread : GoesBy(u)'
  <2>1. OnlyMoves(t) /\ GoesBy(t)'
    BY <1>13, MarkCrawledEffect, VerifiedStays, CacheNames
    DEF CacheTypes, ClaimsInv, GoesBy, Protected, Verified, InCrawl, Placed, TypeOK, Same, Thread,
        HandlerPlace, CrawlPlace
  <2>. QED
    BY <2>1, UnmovedGoesBy DEF OnlyMoves
<1>14. ASSUME NEW t \in Thread, MarkSignaturePolicy(t) PROVE \A u \in Thread : GoesBy(u)'
  <2>1. OnlyMoves(t) /\ GoesBy(t)'
    BY <1>14, MarkPolicyEffect, VerifiedStays, CacheNames
    DEF CacheTypes, ClaimsInv, GoesBy, Protected, Verified, InCrawl, Placed, TypeOK, Same, Thread,
        HandlerPlace, CrawlPlace
  <2>. QED
    BY <2>1, UnmovedGoesBy DEF OnlyMoves
<1>15. ASSUME NEW t \in Thread, ReleaseLock(t) PROVE \A u \in Thread : GoesBy(u)'
  <2>1. OnlyMoves(t) /\ GoesBy(t)'
    BY <1>15, ReleaseEffect, VerifiedStays, CacheNames
    DEF CacheTypes, ClaimsInv, GoesBy, Protected, Verified, InCrawl, Placed, TypeOK, Same, Thread,
        HandlerPlace, CrawlPlace
  <2>. QED
    BY <2>1, UnmovedGoesBy DEF OnlyMoves
<1>16. ASSUME NEW r \in Repo, LeaveQueue(r) PROVE \A u \in Thread : GoesBy(u)'
  <2>1. OnlyMoves(r) /\ GoesBy(r)'
    BY <1>16, LeaveQueueEffect, VerifiedStays, CacheNames
    DEF CacheTypes, ClaimsInv, GoesBy, Protected, Verified, InCrawl, Placed, TypeOK, Same, Thread,
        HandlerPlace, CrawlPlace
  <2>. QED
    BY <2>1, UnmovedGoesBy DEF OnlyMoves
<1>17. ASSUME NEW r \in Repo, LeaveInflight(r) PROVE \A u \in Thread : GoesBy(u)'
  <2>1. OnlyMoves(r) /\ GoesBy(r)'
    BY <1>17, Ends, VerifiedStays, CacheNames
    DEF CacheTypes, ClaimsInv, GoesBy, Protected, Verified, InCrawl, Placed, TypeOK, Same, Thread,
        HandlerPlace, CrawlPlace, LeaveInflight, Idle
  <2>. QED
    BY <2>1, UnmovedGoesBy DEF OnlyMoves
<1>18. CASE BeginPass
    BY <1>18, UnmovedGoesBy DEF BeginPass
<1>19. ASSUME NEW r \in Repo, CrawlConfigured(r) PROVE \A u \in Thread : GoesBy(u)'
  <2>1. th' = th \/ (~Inflight(r) /\ th' = [th EXCEPT ![r] = [Idle EXCEPT !.pc = "queued", !.repo = r]])
    BY <1>19 DEF CrawlConfigured
  <2>2. CASE ~Inflight(r) /\ th' = [th EXCEPT ![r] = [Idle EXCEPT !.pc = "queued", !.repo = r]]
    <3>1. OnlyMoves(r) /\ Begins(r)
      BY <2>2, Queues DEF CacheTypes
    <3>. QED
      BY <3>1, BegunGoesBy, UnmovedGoesBy DEF OnlyMoves
  <2>. QED
    BY <2>1, <2>2, UnmovedGoesBy
<1>20. CASE TakeSnapshot
    BY <1>20, UnmovedGoesBy DEF TakeSnapshot
<1>21. ASSUME NEW r \in Repo, CrawlDue(r) PROVE \A u \in Thread : GoesBy(u)'
  <2>1. th' = th \/ (~Inflight(r) /\ th' = [th EXCEPT ![r] = [Idle EXCEPT !.pc = "queued", !.repo = r]])
    BY <1>21 DEF CrawlDue
  <2>2. CASE ~Inflight(r) /\ th' = [th EXCEPT ![r] = [Idle EXCEPT !.pc = "queued", !.repo = r]]
    <3>1. OnlyMoves(r) /\ Begins(r)
      BY <2>2, Queues DEF CacheTypes
    <3>. QED
      BY <3>1, BegunGoesBy, UnmovedGoesBy DEF OnlyMoves
  <2>. QED
    BY <2>1, <2>2, UnmovedGoesBy
<1>22. CASE EndPass
    BY <1>22, UnmovedGoesBy DEF EndPass
<1>23. CASE EvictLock
    BY <1>23, UnmovedGoesBy DEF EvictLock
<1>24. CASE EvictRecheck
    BY <1>24, UnmovedGoesBy DEF EvictRecheck
<1>25. CASE EvictRemove
    BY <1>25, UnmovedGoesBy DEF EvictRemove
<1>26. CASE EvictDelete
    BY <1>26, UnmovedGoesBy DEF EvictDelete
<1>27. CASE EvictUnlock
    BY <1>27, UnmovedGoesBy DEF EvictUnlock
<1>28. CASE Tick
    BY <1>28, UnmovedGoesBy DEF Tick
<1>29. CASE Reload
    BY <1>29, UnmovedGoesBy DEF Reload
<1>30. CASE UNCHANGED vars
    BY <1>30, UnmovedGoesBy DEF vars
<1>. QED
    BY <1>1, <1>2, <1>3, <1>4, <1>5, <1>6, <1>7, <1>8, <1>9, <1>10, <1>11, <1>12, <1>13, <1>14,
       <1>15, <1>16, <1>17, <1>18, <1>19, <1>20, <1>21, <1>22, <1>23, <1>24, <1>25, <1>26,
       <1>27, <1>28, <1>29, <1>30 DEF Next, Requests, HandlerStep, GoroutineStep,
       SchedulerStep, CrawlStep, Thread

LEMMA SettledInit ==
    ASSUME Init
    PROVE  SettledInv
<1>1. PICK left \in [Repo -> UNION {Left(r) : r \in Repo}] :
        /\ \A r \in Repo : left[r] \in Left(r)
        /\ entries = [r \in Repo |-> left[r][1]]
        /\ tree = [r \in Repo |-> left[r][2]]
    BY DEF Init
<1>2. policy # None /\ policy \in Policies /\ CacheTypes
    BY InitTypes, CacheNames DEF CacheTypes, TypeOK
<1>3. ASSUME NEW r \in Repo, Tracked(r), entries[r].policy = policy
      PROVE  Protected(r) /\ Verified(r)
  <2>1. left[r][1] # None /\ left[r][1].policy = policy /\ tree[r] = left[r][2]
    BY <1>1, <1>3 DEF Tracked
  <2>2. left[r][1].policy = left[r][2] /\ r \in Signed /\ left[r][2] # Off
    BY <1>1, <1>2, <2>1, LeftTyped
  <2>. QED
    BY <2>1, <2>2 DEF Protected, Verified
<1>4. \A t \in Thread : GoesBy(t)
    BY DEF Init, Thread, Idle, GoesBy, InCrawl
<1>. QED
    BY <1>2, <1>3, <1>4 DEF SettledInv, ClaimsInv

LEMMA SettledHolds ==
    ASSUME Reloadable = {}
    PROVE  Spec => []SettledInv
<1>1. Init => SettledInv
    BY SettledInit
<1>2. SettledInv /\ [Next]_vars => SettledInv'
    BY TypesStep, ClaimsStep, GoesByStep DEF SettledInv
<1>. QED
    BY <1>1, <1>2, PTL DEF Spec

(* A registry entry that names the configured policy is right about the      *)
(* files, whatever requests, crawls and evictions interleave, while the      *)
(* configuration is not reloaded (serve.go needsSignatureCheck goes by it).  *)
THEOREM RegistryKeepsItsClaims ==
    ASSUME Reloadable = {}
    PROVE  Spec => []RegistryInv
<1>1. SettledInv => RegistryInv
    BY DEF SettledInv, CacheTypes, ClaimsInv, Verified, RegistryInv, PolicyMatchesTree
<1>. QED
    BY <1>1, SettledHolds, PTL

(* A protected entry point is served as verified under the policy the request *)
(* found, whatever happened since it looked (serve.go handleOnline), while    *)
(* the configuration is not reloaded.                                         *)
THEOREM EntryPointsAreVerified ==
    ASSUME Reloadable = {}
    PROVE  Spec => []ServedVerified
<1>1. SettledInv => ServedVerified
    BY CacheNames DEF SettledInv, GoesBy, Verified, ServedVerified, Thread, CacheTypes, TypeOK
<1>. QED
    BY <1>1, SettledHolds, PTL

-----------------------------------------------------------------------------
(* Whatever reloads install, where that verifies. *)

\* What a goroutine that another step leaves where it is, or moves on.
StaysUnder(u) == Works(u)' => Works(u) /\ th'[u].repo = th[u].repo

(* But for taking and releasing locks, no step brings a goroutine under one. *)
LEMMA Workers ==
    ASSUME CacheTypes, [Next]_vars
    PROVE  (\A u \in Thread : StaysUnder(u)) \/ \E u \in Thread : TakeLock(u) \/ ReleaseLock(u)
<1>. DEFINE Goal ==
           (\A u \in Thread : StaysUnder(u)) \/ \E u \in Thread : TakeLock(u) \/ ReleaseLock(u)
<1>1. ASSUME NEW h \in Handler, NEW r \in Repo, NEW file \in BOOLEAN, RequestEntryPoint(h, r, file)
      PROVE Goal
  <2>1. OnlyMoves(h) /\ StaysUnder(h)
    BY <1>1, RequestEffect DEF CacheTypes, Placed, StaysUnder, Works, Same, Thread
  <2>. QED
    BY <2>1 DEF OnlyMoves, StaysUnder, Works, Thread
<1>2. ASSUME NEW h \in Handler, NEW r \in Repo, RequestMember(h, r) PROVE Goal
    BY <1>2 DEF StaysUnder, Works, RequestMember
<1>3. ASSUME NEW h \in Handler, NEW r \in Repo, RequestMissingMember(h, r) PROVE Goal
  <2>1. OnlyMoves(h) /\ StaysUnder(h)
    BY <1>3, MissingMemberEffect DEF CacheTypes, Placed, StaysUnder, Works, Same, Thread
  <2>. QED
    BY <2>1 DEF OnlyMoves, StaysUnder, Works, Thread
<1>4. ASSUME NEW h \in Handler, Inspect(h) PROVE Goal
  <2>1. OnlyMoves(h) /\ StaysUnder(h)
    BY <1>4, InspectEffect DEF CacheTypes, Placed, StaysUnder, Works, Same, Thread
  <2>. QED
    BY <2>1 DEF OnlyMoves, StaysUnder, Works, Thread
<1>5. ASSUME NEW h \in Handler, FetchEntryPoint(h) PROVE Goal
  <2>1. OnlyMoves(h) /\ StaysUnder(h)
    BY <1>5, FetchEffect DEF CacheTypes, Placed, StaysUnder, Works, Same, Thread
  <2>. QED
    BY <2>1 DEF OnlyMoves, StaysUnder, Works, Thread
<1>6. ASSUME NEW h \in Handler, Recheck(h) PROVE Goal
  <2>1. OnlyMoves(h) /\ StaysUnder(h)
    BY <1>6, RecheckEffect DEF CacheTypes, Placed, StaysUnder, Works, Same, Thread
  <2>. QED
    BY <2>1 DEF OnlyMoves, StaysUnder, Works, Thread
<1>7. ASSUME NEW h \in Handler, Fail(h) PROVE Goal
  <2>1. OnlyMoves(h) /\ StaysUnder(h)
    BY <1>7, Ends DEF CacheTypes, Placed, StaysUnder, Works, Same, Thread, Fail
  <2>. QED
    BY <2>1 DEF OnlyMoves, StaysUnder, Works, Thread
<1>8. ASSUME NEW h \in Handler, Dispatch(h) PROVE Goal
  <2>1. th[h].repo \in Repo
    BY <1>8 DEF Dispatch, CacheTypes, Placed, Thread
  <2>. QED
    BY <1>8, <2>1, DispatchEffect DEF CacheTypes, Begins, StaysUnder, Works, Thread
<1>9. ASSUME NEW h \in Handler, Serve(h) PROVE Goal
  <2>1. OnlyMoves(h) /\ StaysUnder(h)
    BY <1>9, Ends DEF CacheTypes, Placed, StaysUnder, Works, Same, Thread, Serve
  <2>. QED
    BY <2>1 DEF OnlyMoves, StaysUnder, Works, Thread
<1>10. ASSUME NEW t \in Thread, TakeLock(t) PROVE Goal
    BY <1>10
<1>11. ASSUME NEW t \in Thread, UnderLock(t) PROVE Goal
  <2>1. th[t].repo \in Repo
    BY <1>11 DEF UnderLock, CacheTypes, Placed
  <2>2. OnlyMoves(t) /\ StaysUnder(t)
    BY <1>11, <2>1, UnderLockEffect DEF CacheTypes, Placed, StaysUnder, Works, Same, Thread
  <2>. QED
    BY <2>2 DEF OnlyMoves, StaysUnder, Works, Thread
<1>12. ASSUME NEW t \in Thread, Sync(t) PROVE Goal
  <2>1. OnlyMoves(t) /\ StaysUnder(t)
    BY <1>12, SyncEffect DEF CacheTypes, Placed, StaysUnder, Works, Same, Thread
  <2>. QED
    BY <2>1 DEF OnlyMoves, StaysUnder, Works, Thread
<1>13. ASSUME NEW t \in Thread, MarkCrawled(t) PROVE Goal
  <2>1. OnlyMoves(t) /\ StaysUnder(t)
    BY <1>13, MarkCrawledEffect DEF CacheTypes, Placed, StaysUnder, Works, Same, Thread
  <2>. QED
    BY <2>1 DEF OnlyMoves, StaysUnder, Works, Thread
<1>14. ASSUME NEW t \in Thread, MarkSignaturePolicy(t) PROVE Goal
  <2>1. OnlyMoves(t) /\ StaysUnder(t)
    BY <1>14, MarkPolicyEffect DEF CacheTypes, Placed, StaysUnder, Works, Same, Thread
  <2>. QED
    BY <2>1 DEF OnlyMoves, StaysUnder, Works, Thread
<1>15. ASSUME NEW t \in Thread, ReleaseLock(t) PROVE Goal
    BY <1>15
<1>16. ASSUME NEW r \in Repo, LeaveQueue(r) PROVE Goal
  <2>1. OnlyMoves(r) /\ StaysUnder(r)
    BY <1>16, LeaveQueueEffect DEF CacheTypes, Placed, StaysUnder, Works, Same, Thread
  <2>. QED
    BY <2>1 DEF OnlyMoves, StaysUnder, Works, Thread
<1>17. ASSUME NEW r \in Repo, LeaveInflight(r) PROVE Goal
  <2>1. OnlyMoves(r) /\ StaysUnder(r)
    BY <1>17, Ends DEF CacheTypes, Placed, StaysUnder, Works, Same, Thread, LeaveInflight
  <2>. QED
    BY <2>1 DEF OnlyMoves, StaysUnder, Works, Thread
<1>18. CASE BeginPass
    BY <1>18 DEF StaysUnder, Works, BeginPass
<1>19. ASSUME NEW r \in Repo, CrawlConfigured(r) PROVE Goal
  <2>1. th' = th \/ (~Inflight(r) /\ th' = [th EXCEPT ![r] = [Idle EXCEPT !.pc = "queued", !.repo = r]])
    BY <1>19 DEF CrawlConfigured
  <2>2. CASE ~Inflight(r) /\ th' = [th EXCEPT ![r] = [Idle EXCEPT !.pc = "queued", !.repo = r]]
    <3>1. OnlyMoves(r) /\ Begins(r)
      BY <2>2, Queues DEF CacheTypes
    <3>. QED
      BY <3>1 DEF OnlyMoves, Begins, StaysUnder, Works
  <2>. QED
    BY <2>1, <2>2 DEF StaysUnder, Works
<1>20. CASE TakeSnapshot
    BY <1>20 DEF StaysUnder, Works, TakeSnapshot
<1>21. ASSUME NEW r \in Repo, CrawlDue(r) PROVE Goal
  <2>1. th' = th \/ (~Inflight(r) /\ th' = [th EXCEPT ![r] = [Idle EXCEPT !.pc = "queued", !.repo = r]])
    BY <1>21 DEF CrawlDue
  <2>2. CASE ~Inflight(r) /\ th' = [th EXCEPT ![r] = [Idle EXCEPT !.pc = "queued", !.repo = r]]
    <3>1. OnlyMoves(r) /\ Begins(r)
      BY <2>2, Queues DEF CacheTypes
    <3>. QED
      BY <3>1 DEF OnlyMoves, Begins, StaysUnder, Works
  <2>. QED
    BY <2>1, <2>2 DEF StaysUnder, Works
<1>22. CASE EndPass
    BY <1>22 DEF StaysUnder, Works, EndPass
<1>23. CASE EvictLock
    BY <1>23 DEF StaysUnder, Works, EvictLock
<1>24. CASE EvictRecheck
    BY <1>24 DEF StaysUnder, Works, EvictRecheck
<1>25. CASE EvictRemove
    BY <1>25 DEF StaysUnder, Works, EvictRemove
<1>26. CASE EvictDelete
    BY <1>26 DEF StaysUnder, Works, EvictDelete
<1>27. CASE EvictUnlock
    BY <1>27 DEF StaysUnder, Works, EvictUnlock
<1>28. CASE Tick
    BY <1>28 DEF StaysUnder, Works, Tick
<1>29. CASE Reload
    BY <1>29 DEF StaysUnder, Works, Reload
<1>30. CASE UNCHANGED vars
    BY <1>30 DEF StaysUnder, Works, vars
<1>. QED
    BY <1>1, <1>2, <1>3, <1>4, <1>5, <1>6, <1>7, <1>8, <1>9, <1>10, <1>11, <1>12, <1>13, <1>14,
       <1>15, <1>16, <1>17, <1>18, <1>19, <1>20, <1>21, <1>22, <1>23, <1>24, <1>25, <1>26,
       <1>27, <1>28, <1>29, <1>30 DEF Next, Requests, HandlerStep, GoroutineStep,
       SchedulerStep, CrawlStep, Thread

(* Nor the scheduler. *)
LEMMA Evictors ==
    ASSUME CacheTypes, [Next]_vars
    PROVE  \/ EvictLock \/ EvictUnlock
           \/ sched'.pc \in {"recheck", "remove", "delete", "unlock"} =>
                 sched.pc \in {"recheck", "remove", "delete", "unlock"} /\ sched'.key = sched.key
<1>. USE DEF CacheTypes
<1>. DEFINE Goal ==
           \/ EvictLock \/ EvictUnlock
           \/ sched'.pc \in {"recheck", "remove", "delete", "unlock"} =>
                 sched.pc \in {"recheck", "remove", "delete", "unlock"} /\ sched'.key = sched.key
<1>1. ASSUME NEW h \in Handler, NEW r \in Repo, NEW file \in BOOLEAN, RequestEntryPoint(h, r, file)
      PROVE Goal
    BY <1>1 DEF TypeOK, SchedState, RequestEntryPoint
<1>2. ASSUME NEW h \in Handler, NEW r \in Repo, RequestMember(h, r) PROVE Goal
    BY <1>2 DEF TypeOK, SchedState, RequestMember
<1>3. ASSUME NEW h \in Handler, NEW r \in Repo, RequestMissingMember(h, r) PROVE Goal
    BY <1>3 DEF TypeOK, SchedState, RequestMissingMember
<1>4. ASSUME NEW h \in Handler, Inspect(h) PROVE Goal
    BY <1>4 DEF TypeOK, SchedState, Inspect
<1>5. ASSUME NEW h \in Handler, FetchEntryPoint(h) PROVE Goal
    BY <1>5 DEF TypeOK, SchedState, FetchEntryPoint
<1>6. ASSUME NEW h \in Handler, Recheck(h) PROVE Goal
    BY <1>6 DEF TypeOK, SchedState, Recheck
<1>7. ASSUME NEW h \in Handler, Fail(h) PROVE Goal
    BY <1>7 DEF TypeOK, SchedState, Fail
<1>8. ASSUME NEW h \in Handler, Dispatch(h) PROVE Goal
    BY <1>8 DEF TypeOK, SchedState, Dispatch
<1>9. ASSUME NEW h \in Handler, Serve(h) PROVE Goal
    BY <1>9 DEF TypeOK, SchedState, Serve
<1>10. ASSUME NEW t \in Thread, TakeLock(t) PROVE Goal
    BY <1>10 DEF TypeOK, SchedState, TakeLock
<1>11. ASSUME NEW t \in Thread, UnderLock(t) PROVE Goal
    BY <1>11 DEF TypeOK, SchedState, UnderLock
<1>12. ASSUME NEW t \in Thread, Sync(t) PROVE Goal
    BY <1>12 DEF TypeOK, SchedState, Sync
<1>13. ASSUME NEW t \in Thread, MarkCrawled(t) PROVE Goal
    BY <1>13 DEF TypeOK, SchedState, MarkCrawled
<1>14. ASSUME NEW t \in Thread, MarkSignaturePolicy(t) PROVE Goal
    BY <1>14 DEF TypeOK, SchedState, MarkSignaturePolicy
<1>15. ASSUME NEW t \in Thread, ReleaseLock(t) PROVE Goal
    BY <1>15 DEF TypeOK, SchedState, ReleaseLock
<1>16. ASSUME NEW r \in Repo, LeaveQueue(r) PROVE Goal
    BY <1>16 DEF TypeOK, SchedState, LeaveQueue
<1>17. ASSUME NEW r \in Repo, LeaveInflight(r) PROVE Goal
    BY <1>17 DEF TypeOK, SchedState, LeaveInflight
<1>18. CASE BeginPass
    BY <1>18 DEF TypeOK, SchedState, BeginPass
<1>19. ASSUME NEW r \in Repo, CrawlConfigured(r) PROVE Goal
    BY <1>19 DEF TypeOK, SchedState, CrawlConfigured
<1>20. CASE TakeSnapshot
    BY <1>20 DEF TypeOK, SchedState, TakeSnapshot
<1>21. ASSUME NEW r \in Repo, CrawlDue(r) PROVE Goal
  <2>1. \E p \in {"evict", "due"}, k \in Repo \cup {None} :
           sched' = [sched EXCEPT !.todo = sched.todo \ {r}, !.pc = p, !.key = k]
    BY <1>21 DEF CrawlDue
  <2>. QED
    BY <1>21, <2>1 DEF TypeOK, SchedState
<1>22. CASE EndPass
    BY <1>22 DEF TypeOK, SchedState, EndPass
<1>23. CASE EvictLock
    BY <1>23 DEF TypeOK, SchedState, EvictLock
<1>24. CASE EvictRecheck
    BY <1>24 DEF TypeOK, SchedState, EvictRecheck
<1>25. CASE EvictRemove
    BY <1>25 DEF TypeOK, SchedState, EvictRemove
<1>26. CASE EvictDelete
    BY <1>26 DEF TypeOK, SchedState, EvictDelete
<1>27. CASE EvictUnlock
    BY <1>27 DEF TypeOK, SchedState, EvictUnlock
<1>28. CASE Tick
    BY <1>28 DEF TypeOK, SchedState, Tick
<1>29. CASE Reload
    BY <1>29 DEF TypeOK, SchedState, Reload
<1>30. CASE UNCHANGED vars
    BY <1>30 DEF TypeOK, SchedState, vars
<1>. QED
    BY <1>1, <1>2, <1>3, <1>4, <1>5, <1>6, <1>7, <1>8, <1>9, <1>10, <1>11, <1>12, <1>13, <1>14,
       <1>15, <1>16, <1>17, <1>18, <1>19, <1>20, <1>21, <1>22, <1>23, <1>24, <1>25, <1>26,
       <1>27, <1>28, <1>29, <1>30 DEF Next, Requests, HandlerStep, GoroutineStep,
       SchedulerStep, CrawlStep, Thread

(* Two goroutines, or a goroutine and an eviction, are never under one lock. *)
LEMMA LocksStep ==
    ASSUME CacheTypes, LocksInv, [Next]_vars
    PROVE  LocksInv'
<1>. USE DEF CacheTypes, LocksInv
<1>. DEFINE Evicting == sched.pc \in {"recheck", "remove", "delete", "unlock"}
<1>1. ASSUME NEW t \in Thread, TakeLock(t) PROVE LocksInv'
  <2>1. /\ OnlyMoves(t) /\ th[t].pc = "lock" /\ Same(t) /\ sched' = sched
        /\ lock[th[t].repo] = None /\ lock' = [lock EXCEPT ![th[t].repo] = t]
    BY <1>1, TakeLockEffect DEF TakeLock
  <2>2. th[t].repo \in Repo
    BY <2>1 DEF Placed
  <2>3. \A u \in Thread : Works(u) => th[u].repo \in Repo /\ lock[th[u].repo] # None
    BY CacheNames DEF Placed, Works
  <2>4. Evicting => sched.key \in Repo /\ lock[sched.key] # None
    BY CacheNames DEF SchedPlaced
  <2>5. \A u \in Thread : Works(u)' => lock'[th'[u].repo] = u
    BY <2>1, <2>2, <2>3 DEF OnlyMoves, Same, Works, TypeOK
  <2>6. Evicting => lock'[sched.key] = Scheduler
    BY <2>1, <2>2, <2>4 DEF TypeOK
  <2>. QED
    BY <2>1, <2>5, <2>6
<1>2. ASSUME NEW t \in Thread, ReleaseLock(t) PROVE LocksInv'
  <2>1. /\ OnlyMoves(t) /\ th[t].pc = "unlock" /\ ~Works(t)' /\ sched' = sched
        /\ lock' = [lock EXCEPT ![th[t].repo] = None]
    BY <1>2, ReleaseEffect DEF ReleaseLock, Works
  <2>2. lock[th[t].repo] = t /\ t # Scheduler
    BY <2>1, CacheNames DEF Works
  <2>3. \A u \in Thread \ {t} : Works(u)' => Works(u) /\ th[u].repo # th[t].repo /\ th'[u] = th[u]
    BY <2>1, <2>2 DEF OnlyMoves, Works
  <2>4. \A u \in Thread : Works(u)' => lock'[th'[u].repo] = u
    BY <2>1, <2>3 DEF Works, TypeOK, Placed
  <2>5. Evicting => lock'[sched.key] = Scheduler
    BY <2>1, <2>2 DEF SchedPlaced, TypeOK
  <2>. QED
    BY <2>1, <2>4, <2>5
<1>3. CASE EvictLock
  <2>1. /\ th' = th /\ lock[sched.key] = None /\ lock' = [lock EXCEPT ![sched.key] = Scheduler]
        /\ sched.key \in Repo /\ sched'.key = sched.key
    BY <1>3 DEF EvictLock, SchedPlaced, TypeOK, SchedState
  <2>2. \A u \in Thread : Works(u) => lock'[th[u].repo] = u
    BY <2>1, CacheNames DEF Works, Placed, TypeOK
  <2>. QED
    BY <2>1, <2>2 DEF Works, TypeOK
<1>4. CASE EvictUnlock
  <2>1. /\ th' = th /\ lock[sched.key] = Scheduler /\ lock' = [lock EXCEPT ![sched.key] = None]
        /\ sched'.pc = "due"
    BY <1>4 DEF EvictUnlock, TypeOK, SchedState
  <2>2. \A u \in Thread : Works(u) => lock'[th[u].repo] = u
    BY <2>1, CacheNames DEF Works, Placed, TypeOK
  <2>. QED
    BY <2>1, <2>2 DEF Works
<1>5. CASE /\ lock' = lock /\ \A u \in Thread : StaysUnder(u)
           /\ Evicting' => Evicting /\ sched'.key = sched.key
    BY <1>5 DEF StaysUnder, Works
<1>. QED
    BY <1>1, <1>2, <1>3, <1>4, <1>5, LockSteps, Workers, Evictors

\* A crawl that has an outcome to record.
Records(t) == th[t].pc \in {"record", "policy"}

(* Where every policy verifies, every repository is protected. *)
LEMMA AllProtected ==
    ASSUME Off \notin Policies, TypeOK
    PROVE  Signed = Repo /\ \A r \in Repo : Protected(r)
BY MirrorCacheAssumption DEF TypeOK, Protected

(* Only the crawl under the lock brings files. *)
LEMMA TreeUnderLock ==
    ASSUME KeysInv, [Next]_vars, NEW r \in Repo, tree'[r] \notin {tree[r], Absent}
    PROVE  \E t \in Thread : Sync(t) /\ th[t].repo = r
<1>. USE DEF KeysInv
<1>1. TreeKept => tree'[r] \in {tree[r], Absent}
    BY DEF TreeKept
<1>2. \A h \in Handler : ~FetchEntryPoint(h)
    BY DEF FetchEntryPoint, Publishes, Thread
<1>3. ASSUME NEW t \in Thread, Sync(t), th[t].repo # r
      PROVE  tree'[r] = tree[r]
    BY <1>3, SyncEffect DEF CacheTypes, TypeOK
<1>. QED
    BY <1>1, <1>2, <1>3, TreeSteps

(* What a crawl has published stays there until it lets go of the lock. *)
LEMMA PublishedStays ==
    ASSUME KeysInv, [Next]_vars, NEW u \in Thread, Works(u), ~Sync(u)
    PROVE  tree'[th[u].repo] \in {tree[th[u].repo], Absent}
<1>1. th[u].repo \in Repo /\ lock[th[u].repo] = u
    BY DEF KeysInv, CacheTypes, Placed, LocksInv, Works
<1>2. ASSUME NEW t \in Thread, Sync(t), th[t].repo = th[u].repo
      PROVE  t = u
    BY <1>1, <1>2 DEF KeysInv, LocksInv, Works, Sync
<1>. QED
    BY <1>1, <1>2, TreeUnderLock

LEMMA UnmovedPublishes ==
    ASSUME KeysInv, [Next]_vars, NEW u \in Thread, th'[u] = th[u]
    PROVE  Publishes(u)'
<1>1. Publishes(u) /\ ~Sync(u)
    BY SyncEffect DEF KeysInv, CacheTypes
<1>. QED
    BY <1>1, PublishedStays DEF Publishes, Works

(* What a crawl is about to record is what it published. *)
LEMMA PublishesStep ==
    ASSUME Off \notin Policies, KeysInv, [Next]_vars
    PROVE  \A u \in Thread : Publishes(u)'
<1>. USE DEF KeysInv
<1>1. ASSUME NEW h \in Handler, NEW r \in Repo, NEW file \in BOOLEAN, RequestEntryPoint(h, r, file)
      PROVE \A u \in Thread : Publishes(u)'
  <2>1. OnlyMoves(h) /\ Publishes(h)'
    BY <1>1, RequestEffect DEF CacheTypes, Publishes
  <2>. QED
    BY <2>1, UnmovedPublishes DEF OnlyMoves, Thread
<1>2. ASSUME NEW h \in Handler, NEW r \in Repo, RequestMember(h, r)
      PROVE \A u \in Thread : Publishes(u)'
    BY <1>2, UnmovedPublishes DEF RequestMember
<1>3. ASSUME NEW h \in Handler, NEW r \in Repo, RequestMissingMember(h, r)
      PROVE \A u \in Thread : Publishes(u)'
  <2>1. OnlyMoves(h) /\ Publishes(h)'
    BY <1>3, MissingMemberEffect DEF CacheTypes, Publishes
  <2>. QED
    BY <2>1, UnmovedPublishes DEF OnlyMoves, Thread
<1>4. ASSUME NEW h \in Handler, Inspect(h) PROVE \A u \in Thread : Publishes(u)'
  <2>1. th[h].repo \in Repo
    BY <1>4 DEF Inspect, CacheTypes, Placed, Thread
  <2>2. OnlyMoves(h) /\ Publishes(h)'
    BY <1>4, <2>1, InspectEffect, AllProtected DEF CacheTypes, Publishes
  <2>. QED
    BY <2>2, UnmovedPublishes DEF OnlyMoves, Thread
<1>5. ASSUME NEW h \in Handler, FetchEntryPoint(h) PROVE \A u \in Thread : Publishes(u)'
    BY <1>5 DEF FetchEntryPoint, Publishes, Thread
<1>6. ASSUME NEW h \in Handler, Recheck(h) PROVE \A u \in Thread : Publishes(u)'
  <2>1. OnlyMoves(h) /\ Publishes(h)'
    BY <1>6, RecheckEffect DEF CacheTypes, Publishes
  <2>. QED
    BY <2>1, UnmovedPublishes DEF OnlyMoves, Thread
<1>7. ASSUME NEW h \in Handler, Fail(h) PROVE \A u \in Thread : Publishes(u)'
  <2>1. OnlyMoves(h) /\ Publishes(h)'
    BY <1>7, Ends DEF CacheTypes, Publishes, Fail, Thread
  <2>. QED
    BY <2>1, UnmovedPublishes DEF OnlyMoves, Thread
<1>8. ASSUME NEW h \in Handler, Dispatch(h) PROVE \A u \in Thread : Publishes(u)'
  <2>1. th[h].repo \in Repo /\ TypeOK
    BY <1>8 DEF Dispatch, CacheTypes, Placed, Thread
  <2>2. Publishes(h)'
    BY <1>8, <2>1, DispatchEffect DEF Publishes
  <2>3. ASSUME NEW u \in Thread \ {h} PROVE Publishes(u)'
    <3>1. th'[u] = th[u] \/ (u \in Repo /\ Begins(u))
      BY <1>8, <2>1, DispatchEffect
    <3>2. Begins(u) => Publishes(u)'
      BY DEF Begins, Publishes
    <3>. QED
      BY <3>1, <3>2, UnmovedPublishes
  <2>. QED
    BY <2>2, <2>3
<1>9. ASSUME NEW h \in Handler, Serve(h) PROVE \A u \in Thread : Publishes(u)'
  <2>1. OnlyMoves(h) /\ Publishes(h)'
    BY <1>9, Ends DEF CacheTypes, Publishes, Serve, Thread
  <2>. QED
    BY <2>1, UnmovedPublishes DEF OnlyMoves, Thread
<1>10. ASSUME NEW t \in Thread, TakeLock(t) PROVE \A u \in Thread : Publishes(u)'
  <2>1. OnlyMoves(t) /\ Publishes(t)'
    BY <1>10, TakeLockEffect DEF CacheTypes, Publishes
  <2>. QED
    BY <2>1, UnmovedPublishes DEF OnlyMoves, Thread
<1>11. ASSUME NEW t \in Thread, UnderLock(t) PROVE \A u \in Thread : Publishes(u)'
  <2>1. th[t].repo \in Repo
    BY <1>11 DEF UnderLock, CacheTypes, Placed
  <2>2. OnlyMoves(t) /\ Placed(t, th'[t])
    BY <1>11, UnderLockPlaced
  <2>3. th'[t].pc = "record" => th'[t].mode = Broken
    BY <1>11, <2>1, UnderLockEffect DEF CacheTypes
  <2>4. th'[t].pc \in {"record", "sync", "unlock"}
    BY <1>11, <2>1, UnderLockEffect DEF CacheTypes
  <2>5. Publishes(t)'
    BY <2>2, <2>3, <2>4, CacheNames DEF Publishes, Placed
  <2>. QED
    BY <2>2, <2>5, UnmovedPublishes DEF OnlyMoves
<1>12. ASSUME NEW t \in Thread, Sync(t) PROVE \A u \in Thread : Publishes(u)'
  <2>1. th[t].repo \in Repo
    BY <1>12 DEF Sync, CacheTypes, Placed
  <2>2. OnlyMoves(t) /\ Publishes(t)'
    BY <1>12, <2>1, SyncEffect DEF CacheTypes, TypeOK, Publishes
  <2>. QED
    BY <2>2, UnmovedPublishes DEF OnlyMoves
<1>13. ASSUME NEW t \in Thread, MarkCrawled(t) PROVE \A u \in Thread : Publishes(u)'
  <2>1. OnlyMoves(t) /\ Publishes(t)'
    BY <1>13, MarkCrawledEffect DEF CacheTypes, Publishes, Same, MarkCrawled
  <2>. QED
    BY <2>1, UnmovedPublishes DEF OnlyMoves, Thread
<1>14. ASSUME NEW t \in Thread, MarkSignaturePolicy(t) PROVE \A u \in Thread : Publishes(u)'
  <2>1. OnlyMoves(t) /\ Publishes(t)'
    BY <1>14, MarkPolicyEffect DEF CacheTypes, Publishes
  <2>. QED
    BY <2>1, UnmovedPublishes DEF OnlyMoves, Thread
<1>15. ASSUME NEW t \in Thread, ReleaseLock(t) PROVE \A u \in Thread : Publishes(u)'
  <2>1. OnlyMoves(t) /\ Publishes(t)'
    BY <1>15, ReleaseEffect DEF CacheTypes, Publishes
  <2>. QED
    BY <2>1, UnmovedPublishes DEF OnlyMoves, Thread
<1>16. ASSUME NEW r \in Repo, LeaveQueue(r) PROVE \A u \in Thread : Publishes(u)'
  <2>1. OnlyMoves(r) /\ Publishes(r)'
    BY <1>16, LeaveQueueEffect DEF CacheTypes, Publishes
  <2>. QED
    BY <2>1, UnmovedPublishes DEF OnlyMoves, Thread
<1>17. ASSUME NEW r \in Repo, LeaveInflight(r) PROVE \A u \in Thread : Publishes(u)'
  <2>1. OnlyMoves(r) /\ Publishes(r)'
    BY <1>17, Ends DEF CacheTypes, Publishes, LeaveInflight, Thread
  <2>. QED
    BY <2>1, UnmovedPublishes DEF OnlyMoves, Thread
<1>18. CASE BeginPass
    BY <1>18, UnmovedPublishes DEF BeginPass
<1>19. ASSUME NEW r \in Repo, CrawlConfigured(r) PROVE \A u \in Thread : Publishes(u)'
  <2>1. th' = th \/ (~Inflight(r) /\ th' = [th EXCEPT ![r] = [Idle EXCEPT !.pc = "queued", !.repo = r]])
    BY <1>19 DEF CrawlConfigured
  <2>2. CASE ~Inflight(r) /\ th' = [th EXCEPT ![r] = [Idle EXCEPT !.pc = "queued", !.repo = r]]
    <3>1. OnlyMoves(r) /\ Begins(r)
      BY <2>2, Queues DEF CacheTypes
    <3>2. Publishes(r)'
      BY <3>1 DEF Begins, Publishes
    <3>. QED
      BY <3>1, <3>2, UnmovedPublishes DEF OnlyMoves
  <2>. QED
    BY <2>1, <2>2, UnmovedPublishes
<1>20. CASE TakeSnapshot
    BY <1>20, UnmovedPublishes DEF TakeSnapshot
<1>21. ASSUME NEW r \in Repo, CrawlDue(r) PROVE \A u \in Thread : Publishes(u)'
  <2>1. th' = th \/ (~Inflight(r) /\ th' = [th EXCEPT ![r] = [Idle EXCEPT !.pc = "queued", !.repo = r]])
    BY <1>21 DEF CrawlDue
  <2>2. CASE ~Inflight(r) /\ th' = [th EXCEPT ![r] = [Idle EXCEPT !.pc = "queued", !.repo = r]]
    <3>1. OnlyMoves(r) /\ Begins(r)
      BY <2>2, Queues DEF CacheTypes
    <3>2. Publishes(r)'
      BY <3>1 DEF Begins, Publishes
    <3>. QED
      BY <3>1, <3>2, UnmovedPublishes DEF OnlyMoves
  <2>. QED
    BY <2>1, <2>2, UnmovedPublishes
<1>22. CASE EndPass
    BY <1>22, UnmovedPublishes DEF EndPass
<1>23. CASE EvictLock
    BY <1>23, UnmovedPublishes DEF EvictLock
<1>24. CASE EvictRecheck
    BY <1>24, UnmovedPublishes DEF EvictRecheck
<1>25. CASE EvictRemove
    BY <1>25, UnmovedPublishes DEF EvictRemove
<1>26. CASE EvictDelete
    BY <1>26, UnmovedPublishes DEF EvictDelete
<1>27. CASE EvictUnlock
    BY <1>27, UnmovedPublishes DEF EvictUnlock
<1>28. CASE Tick
    BY <1>28, UnmovedPublishes DEF Tick
<1>29. CASE Reload
    BY <1>29, UnmovedPublishes DEF Reload
<1>30. CASE UNCHANGED vars
    BY <1>30, UnmovedPublishes DEF vars
<1>. QED
    BY <1>1, <1>2, <1>3, <1>4, <1>5, <1>6, <1>7, <1>8, <1>9, <1>10, <1>11, <1>12, <1>13, <1>14,
       <1>15, <1>16, <1>17, <1>18, <1>19, <1>20, <1>21, <1>22, <1>23, <1>24, <1>25, <1>26,
       <1>27, <1>28, <1>29, <1>30 DEF Next, Requests, HandlerStep, GoroutineStep,
       SchedulerStep, CrawlStep, Thread

(* A crawl keeps its outcome until it has recorded it. *)
LEMMA OutcomeStays ==
    ASSUME CacheTypes, [Next]_vars
    PROVE  \A u \in Thread :
              Records(u) => th'[u] = th[u] \/ MarkCrawled(u) \/ MarkSignaturePolicy(u)
<1>. DEFINE Goal ==
           \A u \in Thread :
              Records(u) => th'[u] = th[u] \/ MarkCrawled(u) \/ MarkSignaturePolicy(u)
<1>1. ASSUME NEW h \in Handler, NEW r \in Repo, NEW file \in BOOLEAN, RequestEntryPoint(h, r, file)
      PROVE Goal
  <2>1. OnlyMoves(h) /\ ~Records(h)
    BY <1>1, RequestEffect DEF CacheTypes, Records, Thread, RequestEntryPoint
  <2>. QED
    BY <2>1 DEF OnlyMoves
<1>2. ASSUME NEW h \in Handler, NEW r \in Repo, RequestMember(h, r) PROVE Goal
    BY <1>2 DEF RequestMember
<1>3. ASSUME NEW h \in Handler, NEW r \in Repo, RequestMissingMember(h, r) PROVE Goal
  <2>1. OnlyMoves(h) /\ ~Records(h)
    BY <1>3, MissingMemberEffect DEF CacheTypes, Records, Thread, RequestMissingMember
  <2>. QED
    BY <2>1 DEF OnlyMoves
<1>4. ASSUME NEW h \in Handler, Inspect(h) PROVE Goal
  <2>1. OnlyMoves(h) /\ ~Records(h)
    BY <1>4, InspectEffect DEF CacheTypes, Records, Thread
  <2>. QED
    BY <2>1 DEF OnlyMoves
<1>5. ASSUME NEW h \in Handler, FetchEntryPoint(h) PROVE Goal
  <2>1. OnlyMoves(h) /\ ~Records(h)
    BY <1>5, FetchEffect DEF CacheTypes, Records, Thread
  <2>. QED
    BY <2>1 DEF OnlyMoves
<1>6. ASSUME NEW h \in Handler, Recheck(h) PROVE Goal
  <2>1. OnlyMoves(h) /\ ~Records(h)
    BY <1>6, RecheckEffect DEF CacheTypes, Records, Thread
  <2>. QED
    BY <2>1 DEF OnlyMoves
<1>7. ASSUME NEW h \in Handler, Fail(h) PROVE Goal
  <2>1. OnlyMoves(h) /\ ~Records(h)
    BY <1>7, Ends DEF CacheTypes, Records, Thread, Fail
  <2>. QED
    BY <2>1 DEF OnlyMoves
<1>8. ASSUME NEW h \in Handler, Dispatch(h) PROVE Goal
  <2>1. th[h].repo \in Repo
    BY <1>8 DEF Dispatch, CacheTypes, Placed, Thread
  <2>. QED
    BY <1>8, <2>1, DispatchEffect DEF CacheTypes, Begins, Records
<1>9. ASSUME NEW h \in Handler, Serve(h) PROVE Goal
  <2>1. OnlyMoves(h) /\ ~Records(h)
    BY <1>9, Ends DEF CacheTypes, Records, Thread, Serve
  <2>. QED
    BY <2>1 DEF OnlyMoves
<1>10. ASSUME NEW t \in Thread, TakeLock(t) PROVE Goal
  <2>1. OnlyMoves(t) /\ ~Records(t)
    BY <1>10, TakeLockEffect DEF CacheTypes, Records, Thread
  <2>. QED
    BY <2>1 DEF OnlyMoves
<1>11. ASSUME NEW t \in Thread, UnderLock(t) PROVE Goal
  <2>1. OnlyMoves(t) /\ ~Records(t)
    BY <1>11, UnderLockPlaced DEF Records, UnderLock
  <2>. QED
    BY <2>1 DEF OnlyMoves
<1>12. ASSUME NEW t \in Thread, Sync(t) PROVE Goal
  <2>1. OnlyMoves(t) /\ ~Records(t)
    BY <1>12, SyncEffect DEF CacheTypes, Records, Thread
  <2>. QED
    BY <2>1 DEF OnlyMoves
<1>13. ASSUME NEW t \in Thread, MarkCrawled(t) PROVE Goal
  <2>1. OnlyMoves(t)
    BY <1>13, MarkCrawledEffect DEF CacheTypes
  <2>. QED
    BY <1>13, <2>1 DEF OnlyMoves
<1>14. ASSUME NEW t \in Thread, MarkSignaturePolicy(t) PROVE Goal
  <2>1. OnlyMoves(t)
    BY <1>14, MarkPolicyEffect DEF CacheTypes
  <2>. QED
    BY <1>14, <2>1 DEF OnlyMoves
<1>15. ASSUME NEW t \in Thread, ReleaseLock(t) PROVE Goal
  <2>1. OnlyMoves(t) /\ ~Records(t)
    BY <1>15, ReleaseEffect DEF CacheTypes, Records, Thread
  <2>. QED
    BY <2>1 DEF OnlyMoves
<1>16. ASSUME NEW r \in Repo, LeaveQueue(r) PROVE Goal
  <2>1. OnlyMoves(r) /\ ~Records(r)
    BY <1>16, LeaveQueueEffect DEF CacheTypes, Records, Thread
  <2>. QED
    BY <2>1 DEF OnlyMoves
<1>17. ASSUME NEW r \in Repo, LeaveInflight(r) PROVE Goal
  <2>1. OnlyMoves(r) /\ ~Records(r)
    BY <1>17, Ends DEF CacheTypes, Records, Thread, LeaveInflight
  <2>. QED
    BY <2>1 DEF OnlyMoves
<1>18. CASE BeginPass
    BY <1>18 DEF BeginPass
<1>19. ASSUME NEW r \in Repo, CrawlConfigured(r) PROVE Goal
  <2>1. th' = th \/ (~Inflight(r) /\ th' = [th EXCEPT ![r] = [Idle EXCEPT !.pc = "queued", !.repo = r]])
    BY <1>19 DEF CrawlConfigured
  <2>2. CASE ~Inflight(r) /\ th' = [th EXCEPT ![r] = [Idle EXCEPT !.pc = "queued", !.repo = r]]
    <3>1. OnlyMoves(r) /\ Begins(r)
      BY <2>2, Queues DEF CacheTypes
    <3>. QED
      BY <3>1 DEF OnlyMoves, Begins, Records
  <2>. QED
    BY <2>1, <2>2
<1>20. CASE TakeSnapshot
    BY <1>20 DEF TakeSnapshot
<1>21. ASSUME NEW r \in Repo, CrawlDue(r) PROVE Goal
  <2>1. th' = th \/ (~Inflight(r) /\ th' = [th EXCEPT ![r] = [Idle EXCEPT !.pc = "queued", !.repo = r]])
    BY <1>21 DEF CrawlDue
  <2>2. CASE ~Inflight(r) /\ th' = [th EXCEPT ![r] = [Idle EXCEPT !.pc = "queued", !.repo = r]]
    <3>1. OnlyMoves(r) /\ Begins(r)
      BY <2>2, Queues DEF CacheTypes
    <3>. QED
      BY <3>1 DEF OnlyMoves, Begins, Records
  <2>. QED
    BY <2>1, <2>2
<1>22. CASE EndPass
    BY <1>22 DEF EndPass
<1>23. CASE EvictLock
    BY <1>23 DEF EvictLock
<1>24. CASE EvictRecheck
    BY <1>24 DEF EvictRecheck
<1>25. CASE EvictRemove
    BY <1>25 DEF EvictRemove
<1>26. CASE EvictDelete
    BY <1>26 DEF EvictDelete
<1>27. CASE EvictUnlock
    BY <1>27 DEF EvictUnlock
<1>28. CASE Tick
    BY <1>28 DEF Tick
<1>29. CASE Reload
    BY <1>29 DEF Reload
<1>30. CASE UNCHANGED vars
    BY <1>30 DEF vars
<1>. QED
    BY <1>1, <1>2, <1>3, <1>4, <1>5, <1>6, <1>7, <1>8, <1>9, <1>10, <1>11, <1>12, <1>13, <1>14,
       <1>15, <1>16, <1>17, <1>18, <1>19, <1>20, <1>21, <1>22, <1>23, <1>24, <1>25, <1>26,
       <1>27, <1>28, <1>29, <1>30 DEF Next, Requests, HandlerStep, GoroutineStep,
       SchedulerStep, CrawlStep, Thread

(* The registry's policy stays what the files were verified under. *)
LEMMA NamesTreeStep ==
    ASSUME Off \notin Policies, KeysInv, [Next]_vars, NEW r \in Repo
    PROVE  NamesTree(r)'
<1>. USE DEF KeysInv
<1>. SUFFICES ASSUME entries'[r] # None, entries'[r].policy # None, ~entries'[r].failed
              PROVE  \/ tree'[r] \in {entries'[r].policy, Absent}
                     \/ \E t \in Thread : th'[t].pc \in {"record", "policy"} /\ th'[t].repo = r
    BY DEF NamesTree, Tracked
<1>1. ASSUME NEW t \in Thread, MarkCrawled(t), th[t].repo = r
      PROVE  th'[t].pc = "policy" /\ th'[t].repo = r
  <2>1. /\ th[t].pc = "record" /\ th'[t].repo = r
        /\ th'[t].pc = IF th[t].ok /\ th[t].mode # Off /\ r \in Signed THEN "policy" ELSE "unlock"
    BY <1>1, MarkCrawledEffect DEF CacheTypes, Same
  <2>2. th[t].ok
    BY <1>1, MarkCrawledRecords DEF CacheTypes, Tracked
  <2>3. th[t].mode \in Policies
    BY <2>1, <2>2 DEF CacheTypes, Placed
  <2>. QED
    BY <2>1, <2>2, <2>3, AllProtected DEF CacheTypes
<1>2. ASSUME NEW t \in Thread, MarkSignaturePolicy(t), th[t].repo = r
      PROVE  tree'[r] \in {entries'[r].policy, Absent}
  <2>1. th[t].pc = "policy" /\ th[t].mode \in Policies /\ tree' = tree
    BY <1>2 DEF MarkSignaturePolicy, CacheTypes, Placed
  <2>2. entries'[r].policy = th[t].mode
    BY <1>2, <2>1, MarkPolicyRecords DEF CacheTypes, Tracked
  <2>. QED
    BY <1>2, <2>1, <2>2 DEF Publishes
<1>3. CASE /\ \A t \in Thread : MarkCrawled(t) \/ MarkSignaturePolicy(t) => th[t].repo # r
           /\ ~\E t \in Thread : Sync(t) /\ th[t].repo = r
  <2>1. /\ entries'[r].policy # None => Tracked(r)
        /\ Tracked(r) => entries'[r].policy = entries[r].policy /\ entries'[r].failed = entries[r].failed
    <3>1. CASE RegistryKept
      BY <3>1 DEF RegistryKept, EntryKept, Tracked
    <3>2. ASSUME NEW t \in Thread, MarkCrawled(t) \/ MarkSignaturePolicy(t)
          PROVE  entries'[r] = entries[r]
      <4>1. th[t].repo # r /\ th[t].repo \in Repo
        BY <1>3, <3>2 DEF MarkCrawled, MarkSignaturePolicy, CacheTypes, Placed
      <4>2. th[t].pc = "policy" => th[t].mode \in Policies
        BY DEF CacheTypes, Placed
      <4>. QED
        BY <3>2, <4>1, <4>2, MarkCrawledRecords, MarkPolicyRecords DEF CacheTypes, MarkSignaturePolicy
    <3>. QED
      BY <3>1, <3>2, RegistrySteps DEF Tracked
  <2>2. tree'[r] \in {tree[r], Absent}
    BY <1>3, TreeUnderLock
  <2>3. CASE tree[r] \in {entries[r].policy, Absent}
    BY <2>1, <2>2, <2>3
  <2>4. ASSUME NEW t \in Thread, th[t].pc \in {"record", "policy"}, th[t].repo = r
        PROVE  th'[t] = th[t]
    BY <1>3, <2>4, OutcomeStays DEF Records
  <2>. QED
    BY <2>1, <2>3, <2>4 DEF NamesTree
<1>4. ASSUME NEW t \in Thread, Sync(t), th[t].repo = r
      PROVE  th'[t].pc = "record" /\ th'[t].repo = r
    BY <1>4, SyncEffect DEF CacheTypes
<1>. QED
    BY <1>1, <1>2, <1>3, <1>4

LEMMA KeysInit ==
    ASSUME Init
    PROVE  KeysInv
<1>1. PICK left \in [Repo -> UNION {Left(r) : r \in Repo}] :
        /\ \A r \in Repo : left[r] \in Left(r)
        /\ entries = [r \in Repo |-> left[r][1]]
        /\ tree = [r \in Repo |-> left[r][2]]
    BY DEF Init
<1>2. ASSUME NEW r \in Repo
      PROVE  NamesTree(r)
    BY <1>1, LeftTyped DEF NamesTree, Tracked
<1>3. LocksInv /\ \A t \in Thread : Publishes(t)
    BY DEF Init, LocksInv, Works, Publishes, Thread, Idle
<1>. QED
    BY <1>2, <1>3, InitTypes DEF KeysInv

(* The policy a registry entry names is that of the last successful crawl,  *)
(* whatever reloads install (state.go SignaturePolicy), where every policy  *)
(* verifies; a crawl under Off leaves the name that was there: see the      *)
(* findings.                                                                *)
THEOREM PolicyIsOfTheLastSuccess ==
    ASSUME Off \notin Policies
    PROVE  Spec => []PolicyOfLastSuccess
<1>1. Init => KeysInv
    BY KeysInit
<1>2. KeysInv /\ [Next]_vars => KeysInv'
    BY TypesStep, LocksStep, PublishesStep, NamesTreeStep DEF KeysInv
<1>3. KeysInv => PolicyOfLastSuccess
  <2>1. ASSUME KeysInv, NEW t \in Thread, th[t].pc \in {"record", "policy"}
        PROVE  lock[th[t].repo] # None
    BY <2>1, CacheNames DEF KeysInv, LocksInv, Works
  <2>. QED
    BY <2>1 DEF KeysInv, NamesTree, PolicyOfLastSuccess
<1>. QED
    BY <1>1, <1>2, <1>3, PTL DEF Spec

==============================================================================
