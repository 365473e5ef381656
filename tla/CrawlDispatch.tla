---------------------------- MODULE CrawlDispatch ----------------------------
(***************************************************************************)
(* How repo-sync's server runs crawls (server/crawl_loop.go) and stops     *)
(* them (server_cmd.go, server/http.go): request handlers and the crawl    *)
(* loop dispatch crawl goroutines through the in-flight set, handlers crawl*)
(* signature-protected repositories themselves, the loop evicts stale      *)
(* resources; crawls first take a slot (slotMu, slotCond), then the archive*)
(* root's lock and the resource's lock (LockTable).  What a crawl does to  *)
(* files and state is the business of other modules; here it is a critical *)
(* section that may record an outcome in the store (dirty).                *)
(***************************************************************************)
EXTENDS LockTable

CONSTANTS
    Resource,      \* state keys of tracked resources
    RootKey,       \* RootKey[r]: "deb-root:"+Root when r is a suite below an archive root, else None
    Crawler,       \* goroutines startCrawl can have alive at once
    Handler,       \* HTTP handler goroutines
    Scheduler,     \* the CrawlLoop goroutine
    Limits,        \* values a reload may give crawler.concurrent_crawls
    DrainTimeout   \* whether http.Server.Shutdown may give up on handlers (shutdownTimeout)

ASSUME CrawlDispatchAssumption ==
    /\ Resource \subseteq Key
    /\ RootKey \in [Resource -> (Key \ Resource) \cup {None}]
    /\ None \notin Key
    /\ Thread = Crawler \cup Handler \cup {Scheduler}
    /\ Crawler \cap Handler = {}
    /\ Scheduler \notin Crawler \cup Handler
    /\ Limits # {} /\ Limits \subseteq Nat \ {0}      \* config: validate:"gt=0"
    /\ DrainTimeout \in BOOLEAN

VARIABLES
    pc,            \* pc[t]: where goroutine t stands
    job,           \* job[t]: the resource t works on
    inflight,      \* the in-flight set
    slotsInUse,
    limit,         \* cfg.C.Crawler.ConcurrentCrawls
    wg,            \* the counter of crawlWG
    phase,         \* how far ServerCmd.Run has come
    dirty,         \* Store.dirty: an outcome is recorded and not yet on disk
    flushing       \* FlushLoop has not returned

dispatchVars == <<pc, job, inflight, slotsInUse, limit, wg, phase, dirty, flushing>>
vars == <<dispatchVars, lockVars>>

\* "slot": about to test the limit; "asleep": in slotCond.Wait; "start": a
\* crawl goroutine about to read crawlCtx; "lock", "unlock": inside
\* lockResource or an unlock closure; "crawl": holding every lock; "wake":
\* between slotMu.Unlock and Broadcast; "leave", "done": the two deferred
\* steps of a crawl goroutine; "spawn": between marking in-flight and
\* crawlWG.Add; "request": a handler still able to dispatch; "entry": the
\* loop past its ctx check.
Place2 == {"idle", "request", "entry", "spawn", "slot", "asleep", "start", "lock",
           "crawl", "unlock", "release", "wake", "leave", "done", "returned"}
Phase == {"serving", "rebinding", "draining", "canceled", "waiting", "flush", "saved", "exited"}

TypeOK ==
    /\ LockTypeOK
    /\ pc \in [Thread -> Place2]
    /\ job \in [Thread -> Resource \cup {None}]
    /\ inflight \in SUBSET Resource
    /\ slotsInUse \in Nat
    /\ limit \in Limits
    /\ wg \in Nat
    /\ phase \in Phase
    /\ dirty \in BOOLEAN
    /\ flushing \in BOOLEAN

Init ==
    /\ LockInit
    /\ pc = [t \in Thread |-> "idle"]
    /\ job = [t \in Thread |-> None]
    /\ inflight = {}
    /\ slotsInUse = 0
    /\ limit \in Limits
    /\ wg = 0
    /\ phase = "serving"
    /\ dirty = FALSE
    /\ flushing = TRUE

Alive == phase # "exited"
Canceled == phase \notin {"serving", "rebinding", "draining"}      \* crawlCtx.Err() # nil

Goto(t, p) == pc' = [pc EXCEPT ![t] = p]

-----------------------------------------------------------------------------
(* Slots. *)
TakeSlot(t) ==
    /\ pc[t] = "slot" /\ slotsInUse < limit
    /\ slotsInUse' = slotsInUse + 1
    /\ Goto(t, IF t \in Crawler THEN "start" ELSE "lock")
    /\ UNCHANGED <<lockVars, job, inflight, limit, wg, phase, dirty, flushing>>

SleepForSlot(t) ==
    /\ pc[t] = "slot" /\ slotsInUse >= limit
    /\ Goto(t, "asleep")
    /\ UNCHANGED <<lockVars, job, inflight, slotsInUse, limit, wg, phase, dirty, flushing>>

\* Mutant: nobody is woken.
ReleaseSlotSilently(t) ==
    /\ pc[t] = "release"
    /\ slotsInUse' = slotsInUse - 1
    /\ Goto(t, IF t \in Crawler THEN "leave" ELSE "idle")
    /\ UNCHANGED <<lockVars, job, inflight, limit, wg, phase, dirty, flushing>>

ReleaseSlot(t) ==
    /\ pc[t] = "release"
    /\ slotsInUse' = slotsInUse - 1
    /\ Goto(t, "wake")
    /\ UNCHANGED <<lockVars, job, inflight, limit, wg, phase, dirty, flushing>>

\* slotCond.Broadcast: every sleeper tests the limit again.
Broadcast(t) ==
    /\ pc[t] = "wake"
    /\ pc' = [u \in Thread |-> IF pc[u] = "asleep" THEN "slot"
                               ELSE IF u # t THEN pc[u]
                               ELSE IF t \in Crawler THEN "leave" ELSE "idle"]
    /\ job' = IF t \in Crawler THEN job ELSE [job EXCEPT ![t] = None]
    /\ UNCHANGED <<lockVars, inflight, slotsInUse, limit, wg, phase, dirty, flushing>>

-----------------------------------------------------------------------------
(* Dispatch. *)
\* A request arrives; the listener accepts none once Shutdown was called.
Arrive(h) ==
    /\ pc[h] = "idle" /\ phase = "serving"
    /\ Goto(h, "request")
    /\ UNCHANGED <<lockVars, job, inflight, slotsInUse, limit, wg, phase, dirty, flushing>>

\* Mutant: a pass goes on whatever became of its context.
ConsiderEntryBlindly ==
    /\ pc[Scheduler] = "idle"
    /\ Goto(Scheduler, "entry")
    /\ UNCHANGED <<lockVars, job, inflight, slotsInUse, limit, wg, phase, dirty, flushing>>

\* Between two resources of a pass the loop checks its context.
ConsiderEntry ==
    /\ pc[Scheduler] = "idle"
    /\ Goto(Scheduler, IF Canceled THEN "returned" ELSE "entry")
    /\ UNCHANGED <<lockVars, job, inflight, slotsInUse, limit, wg, phase, dirty, flushing>>

\* A request that dispatches nothing, a resource that is not due.
Skip(t) ==
    /\ pc[t] \in {"request", "entry"}
    /\ Goto(t, "idle")
    /\ UNCHANGED <<lockVars, job, inflight, slotsInUse, limit, wg, phase, dirty, flushing>>

\* Mutant: duplicate dispatches are not collapsed.
StartCrawlAgain(t, r) ==
    /\ pc[t] \in {"request", "entry"}
    /\ inflight' = inflight \cup {r}
    /\ Goto(t, "spawn")
    /\ job' = [job EXCEPT ![t] = r]
    /\ UNCHANGED <<lockVars, slotsInUse, limit, wg, phase, dirty, flushing>>

\* startCrawl: the test and set of inflight is one lockMu section, ...
StartCrawl(t, r) ==
    /\ pc[t] \in {"request", "entry"}
    /\ IF r \in inflight
         THEN Goto(t, "idle") /\ UNCHANGED <<job, inflight>>
         ELSE /\ inflight' = inflight \cup {r}
              /\ Goto(t, "spawn")
              /\ job' = [job EXCEPT ![t] = r]
    /\ UNCHANGED <<lockVars, slotsInUse, limit, wg, phase, dirty, flushing>>

\* Mutant: the goroutine is not counted in.
SpawnUncounted(t, g) ==
    /\ pc[t] = "spawn"
    /\ g \in Crawler /\ pc[g] = "idle"
    /\ pc' = [pc EXCEPT ![t] = "idle", ![g] = "slot"]
    /\ job' = [job EXCEPT ![t] = None, ![g] = job[t]]
    /\ UNCHANGED <<lockVars, inflight, slotsInUse, limit, wg, phase, dirty, flushing>>

\* ... crawlWG.Add and the go statement come after it.
Spawn(t, g) ==
    /\ pc[t] = "spawn"
    /\ g \in Crawler /\ pc[g] = "idle"
    /\ wg' = wg + 1
    /\ pc' = [pc EXCEPT ![t] = "idle", ![g] = "slot"]
    /\ job' = [job EXCEPT ![t] = None, ![g] = job[t]]
    /\ UNCHANGED <<lockVars, inflight, slotsInUse, limit, phase, dirty, flushing>>

\* crawlProtectedRepository: neither in-flight nor in crawlWG, on the handler.
ProtectedCrawl(h, r) ==
    /\ pc[h] = "request"
    /\ Goto(h, "slot")
    /\ job' = [job EXCEPT ![h] = r]
    /\ UNCHANGED <<lockVars, inflight, slotsInUse, limit, wg, phase, dirty, flushing>>

\* evictStale takes a crawl's locks without a slot.
Evict(r) ==
    /\ pc[Scheduler] = "entry"
    /\ Goto(Scheduler, "lock")
    /\ job' = [job EXCEPT ![Scheduler] = r]
    /\ UNCHANGED <<lockVars, inflight, slotsInUse, limit, wg, phase, dirty, flushing>>

\* Mutant: the early return keeps the slot.
CheckContextLeaks(g) ==
    /\ pc[g] = "start"
    /\ Goto(g, IF Canceled THEN "leave" ELSE "lock")
    /\ UNCHANGED <<lockVars, job, inflight, slotsInUse, limit, wg, phase, dirty, flushing>>

\* A crawl goroutine with a slot gives up when its context is canceled.
CheckContext(g) ==
    /\ pc[g] = "start"
    /\ Goto(g, IF Canceled THEN "release" ELSE "lock")
    /\ UNCHANGED <<lockVars, job, inflight, slotsInUse, limit, wg, phase, dirty, flushing>>

-----------------------------------------------------------------------------
(* crawlResource, crawlProtectedRepository and evictStale under their locks: *)
(* the archive root's first, given back last.                                *)
\* Mutant: the archive root is not locked.
NextLockOfResource(t) == job[t]

NextLock(t) ==
    LET root == RootKey[job[t]]
    IN  IF root # None /\ at[t][root] # "holding" THEN root ELSE job[t]

LastLock(t) == IF at[t][job[t]] # "out" THEN job[t] ELSE RootKey[job[t]]

OutermostLock(t) == IF RootKey[job[t]] # None THEN RootKey[job[t]] ELSE job[t]

LookupNext(t) ==
    /\ pc[t] = "lock"
    /\ Lookup(t, NextLock(t))
    /\ UNCHANGED dispatchVars

AcquireNext(t) ==
    /\ pc[t] = "lock"
    /\ Acquire(t, NextLock(t))
    /\ Goto(t, IF NextLock(t) = job[t] THEN "crawl" ELSE "lock")
    /\ UNCHANGED <<job, inflight, slotsInUse, limit, wg, phase, dirty, flushing>>

\* The synchronization, the policy short cut or the eviction, and what it
\* records; MarkCrawled and Delete leave the store alone when the entry is gone.
Work(t) ==
    /\ pc[t] = "crawl"
    /\ Goto(t, "unlock")
    /\ dirty' \in {dirty, TRUE}
    /\ UNCHANGED <<lockVars, job, inflight, slotsInUse, limit, wg, phase, flushing>>

UnlockLast(t) ==
    /\ pc[t] = "unlock"
    /\ Unlock(t, LastLock(t))
    /\ UNCHANGED dispatchVars

UnrefLast(t) ==
    /\ pc[t] = "unlock"
    /\ Unref(t, LastLock(t))
    /\ IF LastLock(t) # OutermostLock(t) THEN UNCHANGED <<pc, job>>
       ELSE IF t = Scheduler THEN Goto(t, "idle") /\ job' = [job EXCEPT ![t] = None]
       ELSE Goto(t, "release") /\ UNCHANGED job
    /\ UNCHANGED <<inflight, slotsInUse, limit, wg, phase, dirty, flushing>>

-----------------------------------------------------------------------------
(* The deferred steps of a crawl goroutine, after its slot is free. *)
LeaveInflight(g) ==
    /\ pc[g] = "leave"
    /\ inflight' = inflight \ {job[g]}
    /\ Goto(g, "done")
    /\ UNCHANGED <<lockVars, job, slotsInUse, limit, wg, phase, dirty, flushing>>

WaitGroupDone(g) ==
    /\ pc[g] = "done"
    /\ wg' = wg - 1
    /\ Goto(g, "idle")
    /\ job' = [job EXCEPT ![g] = None]
    /\ UNCHANGED <<lockVars, inflight, slotsInUse, limit, phase, dirty, flushing>>

-----------------------------------------------------------------------------
(* ServerCmd.Run and FlushLoop. *)
\* SIGHUP; a moved listen address shuts the old listener down, ...
Reload ==
    /\ phase = "serving"
    /\ limit' \in Limits
    /\ phase' \in {"serving", "rebinding"}
    /\ UNCHANGED <<lockVars, pc, job, inflight, slotsInUse, wg, dirty, flushing>>

PhaseStep(from, to) == phase = from /\ phase' = to

Drained == DrainTimeout \/ \A h \in Handler : pc[h] = "idle"

\* ... then binds the new one, or stops the crawls when it cannot.
Rebind ==
    /\ PhaseStep("rebinding", "serving") \/ PhaseStep("rebinding", "canceled")
    /\ Drained
    /\ UNCHANGED <<lockVars, pc, job, inflight, slotsInUse, limit, wg, dirty, flushing>>

\* A signal or a service stop: httpServer.Shutdown, ...
Stop ==
    /\ PhaseStep("serving", "draining")
    /\ UNCHANGED <<lockVars, pc, job, inflight, slotsInUse, limit, wg, dirty, flushing>>

\* ... which returns when the handlers did or after shutdownTimeout, ...
ShutdownReturns ==
    /\ PhaseStep("draining", "canceled")
    /\ Drained
    /\ UNCHANGED <<lockVars, pc, job, inflight, slotsInUse, limit, wg, dirty, flushing>>

\* Mutant: crawls are waited for while the loop still runs.
CrawlLoopAbandoned ==
    /\ PhaseStep("canceled", "waiting")
    /\ UNCHANGED <<lockVars, pc, job, inflight, slotsInUse, limit, wg, dirty, flushing>>

\* ... then stopCrawls: cancel, wait for the loop, ...
CrawlLoopReturned ==
    /\ PhaseStep("canceled", "waiting")
    /\ pc[Scheduler] = "returned"
    /\ UNCHANGED <<lockVars, pc, job, inflight, slotsInUse, limit, wg, dirty, flushing>>

\* ... WaitCrawls, ...
WaitCrawls ==
    /\ PhaseStep("waiting", "flush")
    /\ wg = 0
    /\ UNCHANGED <<lockVars, pc, job, inflight, slotsInUse, limit, wg, dirty, flushing>>

\* ... and the final Save, after which Run returns and the process exits.
FinalSave ==
    /\ PhaseStep("flush", "saved")
    /\ dirty' = FALSE
    /\ UNCHANGED <<lockVars, pc, job, inflight, slotsInUse, limit, wg, flushing>>

Exit ==
    /\ PhaseStep("saved", "exited")
    /\ UNCHANGED <<lockVars, pc, job, inflight, slotsInUse, limit, wg, dirty, flushing>>

\* FlushLoop saves on its ticker, and once more when it sees the cancellation.
Flush ==
    /\ flushing
    /\ dirty' = FALSE
    /\ flushing' = ~Canceled
    /\ UNCHANGED <<lockVars, pc, job, inflight, slotsInUse, limit, wg, phase>>

-----------------------------------------------------------------------------
SlotStep(t) == TakeSlot(t) \/ SleepForSlot(t) \/ ReleaseSlot(t) \/ Broadcast(t)

LockStep(t) ==
    LookupNext(t) \/ AcquireNext(t) \/ Work(t) \/ UnlockLast(t) \/ UnrefLast(t)

DispatchStep(t) ==
    \/ Skip(t)
    \/ \E r \in Resource : StartCrawl(t, r)
    \/ \E g \in Crawler : Spawn(t, g)

CrawlerStep(g) ==
    SlotStep(g) \/ LockStep(g) \/ CheckContext(g) \/ LeaveInflight(g) \/ WaitGroupDone(g)

HandlerStep(h) ==
    \/ SlotStep(h) \/ LockStep(h) \/ DispatchStep(h)
    \/ \E r \in Resource : ProtectedCrawl(h, r)

SchedulerStep ==
    \/ LockStep(Scheduler) \/ DispatchStep(Scheduler) \/ ConsiderEntry
    \/ \E r \in Resource : Evict(r)

MainStep ==
    Rebind \/ ShutdownReturns \/ CrawlLoopReturned \/ WaitCrawls \/ FinalSave \/ Exit

Next ==
    \/ /\ Alive
       /\ \/ \E g \in Crawler : CrawlerStep(g)
          \/ \E h \in Handler : Arrive(h) \/ HandlerStep(h)
          \/ SchedulerStep
          \/ Reload \/ Stop \/ MainStep \/ Flush
    \/ phase = "exited" /\ UNCHANGED vars

Spec == Init /\ [][Next]_vars

-----------------------------------------------------------------------------
(* Every goroutine keeps running: crawls and evictions end, since requests   *)
(* to the upstream time out, and the Go scheduler is fair.  Nothing obliges   *)
(* requests to arrive, a reload or a stop to happen.                          *)
Progress ==
    /\ \A g \in Crawler : WF_vars(Alive /\ CrawlerStep(g))
    /\ \A h \in Handler : WF_vars(Alive /\ HandlerStep(h))
    /\ WF_vars(Alive /\ SchedulerStep)
    /\ WF_vars(Alive /\ MainStep)

\* sync.Mutex hands a contended lock to a starving waiter.  Nothing of the kind
\* is promised of a slot: Broadcast wakes everybody, who comes first takes it.
LocksFair == \A t \in Thread : SF_vars(Alive /\ AcquireNext(t))

LiveSpec == Spec /\ Progress /\ LocksFair
-----------------------------------------------------------------------------
(* Properties. *)
HasSlot(t) ==
    t # Scheduler /\ pc[t] \in {"start", "lock", "crawl", "unlock", "release"}

Underway(g) == g \in Crawler /\ pc[g] # "idle"

LocksOf(r) == {r} \cup ({RootKey[r]} \ {None})

\* No two goroutines are at work on one resource, nor on two suites of one
\* archive root, whichever of the three paths brought them there (crawl_loop.go
\* "suites sharing a pool never download the same file concurrently", "eviction
\* never races an in-flight sibling-suite crawl").
CrawlExclusive ==
    \A s, t \in Thread :
        s # t /\ pc[s] = "crawl" /\ pc[t] = "crawl"
            => LocksOf(job[s]) \cap LocksOf(job[t]) = {}

\* slotsInUse is the number of goroutines that took a slot and have not given
\* it back: none leaks on the early return of a canceled crawl, and no more
\* crawls run at once than the largest limit ever configured.
SlotsExact ==
    /\ slotsInUse = Cardinality({t \in Thread : HasSlot(t)})
    /\ \E n \in Limits : slotsInUse <= n

\* A goroutine asleep for a slot can count on a Broadcast still to come: some
\* goroutine has a slot or is about to wake the sleepers (acquireCrawlSlot's
\* test and Wait are one section of slotMu; Broadcast is outside it).
SleepersWoken ==
    (\E t \in Thread : pc[t] = "asleep")
        => \E t \in Thread : HasSlot(t) \/ pc[t] = "wake"

\* Concurrent dispatches collapse: from the mark to its removal a key has one
\* crawl goroutine or one dispatcher about to start it, and the mark stays, and
\* goes with them.
SingleFlight ==
    LET Flying(t) == \/ pc[t] = "spawn"
                     \/ t \in Crawler /\ pc[t] \notin {"idle", "done"}
    IN  /\ \A t \in Thread : Flying(t) => job[t] \in inflight
        /\ \A s, t \in Thread : s # t /\ Flying(s) /\ Flying(t) => job[s] # job[t]
        /\ \A r \in inflight : \E t \in Thread : Flying(t) /\ job[t] = r

\* The bookkeeping of startCrawl and the slots agrees with what the goroutines
\* do, at every step of a reload, a cancellation and a stop: slots, sleepers,
\* in-flight marks and the wait group.
DispatchInv ==
    /\ TypeOK
    /\ SlotsExact
    /\ SleepersWoken
    /\ SingleFlight
    /\ wg = Cardinality({g \in Crawler : Underway(g)})

\* When every handler returns within the shutdown timeout: once main is inside
\* WaitCrawls nobody is about to call crawlWG.Add (server_cmd.go "a WaitGroup
\* Add racing Wait is a misuse panic"); no dispatched crawl is left when it has
\* returned; and what crawls, evictions and requests recorded is on disk when
\* the process exits.
StopInOrder ==
    /\ phase = "waiting" => \A t \in Thread : pc[t] # "spawn"
    /\ phase \in {"flush", "saved", "exited"} => \A g \in Crawler : ~Underway(g)
    /\ phase = "exited" => ~dirty

\* A crawl waits for a slot for ever only while slots are given back for ever, to
\* goroutines that come before it: no slot is lost, no Broadcast missed by one
\* who was about to sleep, and no holder of a slot stuck behind the locks that
\* those without one hold.  Which waiter is next, slotCond does not say.
SlotsTurnOver ==
    \A t \in Crawler \cup Handler :
        <>[](Alive /\ pc[t] \in {"slot", "asleep"}) => []<>(\E u \in Thread : pc[u] = "release")

\* A stop is never blocked: handlers, loop, crawls, locks and slots cannot all
\* wait for one another (server/http.go "giving up after shutdownTimeout").
StopCompletes == phase \in {"rebinding", "draining"} ~> phase \in {"serving", "exited"}
=============================================================================
