------------------------------ MODULE FetchPool ------------------------------
(***************************************************************************)
(* The download pool (fetch/fetch.go Many) of one synchronization: the     *)
(* dispatching goroutine, its workers, the unbuffered channel of indexes,  *)
(* the one-place channel of errors, the context and the wait group; next   *)
(* to it, requests of the server that fetch a file on demand; and what the *)
(* synchronization does with the outcome (mirror/deb.go, arch.go): fetch a *)
(* pair again, promote what was staged.  Staged indexes of a failed run    *)
(* stay behind, and the process may die anywhere.                          *)
(***************************************************************************)
EXTENDS FileFetch

CONSTANTS
    Worker,        \* goroutines of the pool
    Main,          \* the goroutine that called Many
    Request,       \* request handlers
    JobLists,      \* what Many is asked for: [jobs, tolerant], whether miss is not nil
    OnDemand       \* jobs of request handlers

ASSUME FetchPoolAssumption ==
    /\ Caller = Worker \cup Request \cup {Main}
    /\ Main \notin Worker \cup Request /\ Worker \cap Request = {}
    /\ \A c \in Worker : SourceOf[c] = SourceOf[Main]
    /\ \A list \in JobLists : list.jobs \in Seq(FileJob) /\ list.tolerant \in BOOLEAN
    \* serve.go passes no Expect, and does not stage.
    /\ OnDemand \subseteq {j \in FileJob : j.want = Nothing /\ ~j.stage}

VARIABLES
    pool,          \* what Many holds, and its caller after it
    at             \* at[w]: the job worker w has, or Ready for one, or Gone

vars == <<fetchVars, pool, at>>

\* next is the index to send or to promote, err the place of the error
\* channel, verdict what Many returns, found its states (a file is missing until
\* a worker says otherwise), missed what miss has counted, keep the set that
\* pruning spares.  ours, the paths this run has staged, is history for a
\* property: the code only looks whether there is a staged file.
NoPool == [pc |-> "idle", jobs |-> <<>>, next |-> 1, err |-> "none", verdict |-> "none",
           tolerant |-> FALSE, found |-> <<>>, missed |-> {}, keep |-> {}, ours |-> {}]

Ready == 0
Gone == -1

Context == SourceOf[Main]
Todo(i) == pool.jobs[i]
Sent == pool.next > Len(pool.jobs)

Init ==
    /\ FetchInit
    /\ pool = NoPool
    /\ at = [w \in Worker |-> Gone]

TypeOK ==
    /\ FetchTypeOK
    /\ pool.pc \in {"idle", "dispatch", "wait", "returned", "promote"}
    /\ pool.next \in 1..(Len(pool.jobs) + 1)
    /\ pool.err \in {"none", "error"}
    /\ pool.verdict \in {"none", "ok", "error", "canceled"}
    /\ {pool.keep, pool.ours} \subseteq SUBSET Path
    /\ pool.missed \subseteq DOMAIN pool.jobs
    /\ \A i \in DOMAIN pool.found : pool.found[i] \in {"missing", "unchanged", "fetched", "staged"}
    /\ \A w \in Worker : at[w] \in {Gone, Ready} \cup DOMAIN pool.jobs
    /\ \A w \in Worker : at[w] \in {Gone, Ready} <=> At(w, "idle")

-----------------------------------------------------------------------------
(* Many *)
Begin(list) ==
    /\ pool.pc = "idle" /\ At(Main, "idle")
    /\ pool' = [NoPool EXCEPT !.pc = "dispatch", !.jobs = list.jobs, !.tolerant = list.tolerant,
                              !.found = [i \in DOMAIN list.jobs |-> "missing"]]
    /\ at' = [w \in Worker |-> Ready]
    /\ UNCHANGED fetchVars

\* indexes <- idx: the channel is unbuffered, so a worker takes it there and then.
Dispatch(w) ==
    /\ pool.pc = "dispatch" /\ ~Sent /\ at[w] = Ready
    /\ at' = [at EXCEPT ![w] = pool.next]
    /\ Invoke(w, Todo(pool.next))
    /\ pool' = [pool EXCEPT !.next = @ + 1]
    /\ UNCHANGED <<serves, files, owner, active, canceled>>

\* Mutant: the error is returned, and the workers are not told.
TakeErrorOnly ==
    /\ pool.pc = "dispatch" /\ ~Sent /\ pool.err # "none"
    /\ pool' = [pool EXCEPT !.err = "none", !.verdict = "error"]
    /\ UNCHANGED <<fetchVars, at>>

TakeError ==
    /\ pool.pc = "dispatch" /\ ~Sent /\ pool.err # "none"
    /\ pool' = [pool EXCEPT !.pc = "wait", !.err = "none", !.verdict = "error"]
    /\ UNCHANGED <<fetchVars, at>>

\* Mutant: a canceled dispatch is taken for a finished one.
SeeNothing ==
    /\ pool.pc = "dispatch" /\ ~Sent /\ Context \in canceled
    /\ pool' = [pool EXCEPT !.pc = "wait"]
    /\ UNCHANGED <<fetchVars, at>>

SeeCanceled ==
    /\ pool.pc = "dispatch" /\ ~Sent /\ Context \in canceled
    /\ pool' = [pool EXCEPT !.pc = "wait", !.verdict = "canceled"]
    /\ UNCHANGED <<fetchVars, at>>

CloseIndexes ==
    /\ pool.pc = "dispatch" /\ Sent
    /\ pool' = [pool EXCEPT !.pc = "wait"]
    /\ UNCHANGED <<fetchVars, at>>

-----------------------------------------------------------------------------
(* A worker, with the result of its call. *)
Hang(w) == call' = [call EXCEPT ![w] = NoCall]
Outcome(w) == call[w].result

\* FileStaged: the file is this run's.
Ours(w) == IF Outcome(w) = "staged" THEN pool.ours \cup {Dst(w)} ELSE pool.ours

Deliver(w) ==
    /\ At(w, "done") /\ Outcome(w) \in {"unchanged", "fetched", "staged"}
    /\ pool' = [pool EXCEPT !.found[at[w]] = Outcome(w), !.keep = @ \cup {Dst(w)}, !.ours = Ours(w)]
    /\ at' = [at EXCEPT ![w] = Ready]
    /\ Hang(w)
    /\ UNCHANGED <<serves, files, owner, active, canceled>>

\* An optional file that upstream lacks is skipped, another one counted as
\* missing where that is tolerated.
Skip(w) ==
    /\ At(w, "done") /\ Outcome(w) = "notfound"
    /\ Job(w).optional \/ pool.tolerant
    /\ pool' = IF Job(w).optional THEN pool ELSE [pool EXCEPT !.missed = @ \cup {at[w]}]
    /\ at' = [at EXCEPT ![w] = Ready]
    /\ Hang(w)
    /\ UNCHANGED <<serves, files, owner, active, canceled>>

HardFailure(w) ==
    /\ At(w, "done")
    /\ \/ Outcome(w) \in {"error", "mismatch"}
       \/ Outcome(w) = "notfound" /\ ~Job(w).optional /\ ~pool.tolerant

\* The first error is kept, later ones are dropped; the worker ends.
Raise(w) ==
    /\ HardFailure(w)
    /\ pool' = [pool EXCEPT !.err = "error"]
    /\ at' = [at EXCEPT ![w] = Gone]
    /\ Hang(w)
    /\ UNCHANGED <<serves, files, owner, active, canceled>>

\* range indexes ends.
Quit(w) ==
    /\ pool.pc = "wait" /\ at[w] = Ready
    /\ at' = [at EXCEPT ![w] = Gone]
    /\ UNCHANGED <<fetchVars, pool>>

\* Mutant: the abort does not wait for the workers.
ReturnAtOnce ==
    /\ pool.pc = "wait"
    /\ pool.verdict = "none" => \A w \in Worker : at[w] = Gone
    /\ pool' = [pool EXCEPT !.pc = "returned",
                            !.verdict = IF @ # "none" THEN @
                                        ELSE IF pool.err # "none" THEN "error" ELSE "ok"]
    /\ UNCHANGED <<fetchVars, at>>

\* wg.Wait, then the error left in the channel, if any.
ReturnMany ==
    /\ pool.pc = "wait"
    /\ \A w \in Worker : at[w] = Gone
    /\ pool' = [pool EXCEPT !.pc = "returned",
                            !.verdict = IF @ # "none" THEN @
                                        ELSE IF pool.err # "none" THEN "error" ELSE "ok"]
    /\ UNCHANGED <<fetchVars, at>>

-----------------------------------------------------------------------------
(* The caller of Many. *)
\* A synchronization has a Source and a context of its own.
End ==
    /\ pool' = NoPool
    /\ active' = [active EXCEPT ![Context] = 0]
    /\ canceled' = canceled \ {Context}
    /\ UNCHANGED <<serves, files, owner, at>>

\* It fails, and leaves what was staged.
Abandon == pool.pc = "returned" /\ pool.verdict # "ok" /\ End /\ UNCHANGED call

\* A pair whose signature does not verify is fetched afresh.
Refetch(i) ==
    /\ pool.pc = "returned" /\ pool.verdict = "ok" /\ At(Main, "idle")
    /\ Todo(i).stage /\ pool.found[i] # "missing"
    /\ Invoke(Main, [Todo(i) EXCEPT !.deep = FALSE, !.fresh = TRUE])
    /\ UNCHANGED <<serves, files, owner, active, canceled, pool, at>>

Refetched ==
    /\ At(Main, "done")
    /\ IF Outcome(Main) \in {"unchanged", "fetched", "staged"}
         THEN /\ pool' = [pool EXCEPT !.ours = Ours(Main)]
              /\ UNCHANGED <<serves, files, owner, active, canceled, at>>
         ELSE End
    /\ Hang(Main)

StartPromoting ==
    /\ pool.pc = "returned" /\ pool.verdict = "ok" /\ At(Main, "idle")
    /\ pool' = [pool EXCEPT !.pc = "promote", !.next = 1]
    /\ UNCHANGED <<fetchVars, at>>

\* PromoteStaged of what was asked for staged and is not missing; no staged file
\* is no error.
Promote ==
    /\ pool.pc = "promote" /\ ~Sent
    /\ LET p == Todo(pool.next).path
           present == Todo(pool.next).stage /\ pool.found[pool.next] # "missing" /\ staged[p] # Nothing
       IN  /\ final' = IF present THEN [final EXCEPT ![p] = staged[p]] ELSE final
           /\ staged' = IF present THEN [staged EXCEPT ![p] = Nothing] ELSE staged
    /\ pool' = [pool EXCEPT !.next = @ + 1]
    /\ UNCHANGED <<serves, partial, owner, active, canceled, call, at>>

Finish == pool.pc = "promote" /\ Sent /\ End /\ UNCHANGED call

-----------------------------------------------------------------------------
(* A request that fetches a file on demand (serve.go fetchUpstream). *)
Ask(h, j) ==
    /\ At(h, "idle")
    /\ Invoke(h, j)
    /\ UNCHANGED <<serves, files, owner, active, canceled, pool, at>>

Answer(h) ==
    /\ At(h, "done")
    /\ Hang(h)
    /\ active' = [active EXCEPT ![SourceOf[h]] = 0]
    /\ UNCHANGED <<serves, files, owner, canceled, pool, at>>

\* The crawl is stopped.  A client that goes away cancels a download that never
\* resumes (no Expect), so that looks like mirrors failing.
Cancel ==
    /\ Context \notin canceled
    /\ pool.pc # "idle"
    /\ canceled' = canceled \cup {Context}
    /\ UNCHANGED <<serves, files, owner, active, call, pool, at>>

\* The process dies.
Crash ==
    /\ \E c \in Caller : ~At(c, "idle")
    /\ owner' = [x \in Stripes |-> Nobody]
    /\ active' = [s \in Source |-> 0]
    /\ canceled' = {}
    /\ call' = [c \in Caller |-> NoCall]
    /\ pool' = NoPool
    /\ at' = [w \in Worker |-> Gone]
    /\ UNCHANGED <<serves, files>>

WorkerStep(w) == Dispatch(w) \/ Deliver(w) \/ Skip(w) \/ Raise(w) \/ Quit(w)
              \/ (CallStep(w) /\ UNCHANGED <<pool, at>>)

RequestStep(h) == Answer(h) \/ (CallStep(h) /\ UNCHANGED <<pool, at>>)

MainStep ==
    \/ TakeError \/ SeeCanceled \/ CloseIndexes \/ ReturnMany
    \/ Abandon \/ Refetched \/ StartPromoting \/ Promote \/ Finish
    \/ (CallStep(Main) /\ UNCHANGED <<pool, at>>)

Next ==
    \/ \E w \in Worker : WorkerStep(w)
    \/ \E h \in Request : RequestStep(h)
    \/ MainStep
    \/ \E list \in JobLists : Begin(list)
    \/ \E i \in DOMAIN pool.jobs : Refetch(i)
    \/ \E h \in Request, j \in OnDemand : Ask(h, j)
    \/ Cancel
    \/ \E m \in Mirror : Advance(m) /\ UNCHANGED <<pool, at>>
    \/ Crash

Spec == Init /\ [][Next]_vars

-----------------------------------------------------------------------------
(* Properties. *)

\* When Many reports success, every job was done: each file was delivered and is
\* spared by pruning, or it is optional, or its absence is counted; no job is lost
\* to an abort, a cancellation or an error that arrived after the last dispatch
\* (fetch.go "The first hard failure aborts the remaining work").
SuccessMeansDone ==
    pool.pc = "returned" /\ pool.verdict = "ok" =>
        \A i \in DOMAIN pool.jobs :
            IF pool.found[i] = "missing" THEN Todo(i).optional \/ i \in pool.missed
            ELSE Todo(i).path \in pool.keep

\* No download goes on behind the back of a synchronization that Many has
\* returned to, which would write beside its cleanup and after its locks.
NobodyLeftBehind ==
    pool.pc \in {"idle", "returned", "promote"} => \A w \in Worker : at[w] = Gone /\ At(w, "idle")

\* The pool's bookkeeping is well formed, and ends with its workers.
PoolInv == TypeOK /\ NobodyLeftBehind

\* Promotion publishes what this run staged, when it first asked for the file or
\* when it refetched a pair, never what an interrupted or failed run left (fetch.go
\* "Clear any staged leftover from an interrupted run so a later promote can never
\* publish stale content").
NoLeftoverPromoted ==
    [][pool.pc = "promote" /\ pool' # pool /\ final' # final
          => Todo(pool.next).path \in pool.ours]_vars

\* Dispatcher, workers, channels and wait group never all wait for one another:
\* a pool that is not disturbed by requests can always go on, in whatever order
\* errors, cancellation and completion came (fetch.go Many: close, Wait, and the
\* error channel's one place).
NobodyStuck ==
    pool.pc # "idle" /\ (\A h \in Request : At(h, "idle"))
        => ENABLED (MainStep \/ \E w \in Worker : WorkerStep(w))
=============================================================================
