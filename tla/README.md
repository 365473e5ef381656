# Verification of repo-sync

TLA+ models of [repo-sync](../src/README.md), a mirror and caching proxy for Linux package
repositories written in Go, with the TLC configurations that check them and TLAPS proofs of
their main invariants. Paths below are relative to `src/`.

Contents: [the system](#the-system), [modules](#modules), [runs](#runs), [fairness](#fairness),
[proofs](#proofs), [known races](#known-races), [what is not modelled](#what-is-not-modelled),
[plan](#plan), [running the checks](#running-the-checks).

## The system

repo-sync has two ways of working. `repo-sync sync` mirrors repositories into a directory and
exits; cron starts it, so runs overlap. `repo-sync server` answers HTTP requests from a
directory it fills on demand: it fetches what is asked for, registers the repository a request
belongs to, and crawls registered repositories on a schedule with the same mirroring code.

| Component | State | Operations | Hard behaviour | What makes it correct |
|---|---|---|---|---|
| Lock table (`server/crawl_loop.go` `lockResource`) | `locks`, `refs`, one mutex per entry | look up or create, lock, unlock, drop at zero | an entry dropped under a waiter | one holder per key; counts exact; refines a plain mutex per key |
| Crawl dispatch (`crawl_loop.go` `startCrawl`, `crawlResource`, `crawlProtectedRepository`, `evictStale`) | `inflight`, `slotsInUse`, `crawlWG` | mark, count, take a slot, take one or two locks, work, undo it all | three paths into a crawl; a condition variable; a limit that reloads | no two workers on one tree; slots and wait group exact; nobody sleeps unwoken |
| Life cycle (`server_cmd.go`, `server/http.go`) | how far `Run` has come | serve, reload, rebind, shut down, cancel, wait, flush | a shutdown that gives up on requests; `Add` racing `Wait` | a stop ends; no outcome lost when handlers return in time |
| Registry (`state/state.go`) | entries by key, `dirty` | MarkRequested, TouchRepoMembers, MarkListed, MarkCrawled, MarkSignaturePolicy, Delete, Snapshot, Load, Save, FlushLoop | read-modify-write from many goroutines | only traffic and configuration register; claims match the files |
| Requests (`server/serve.go` `handleOnline`) | local copies of an entry and of the disk | look, fetch or crawl, serve, dispatch | everything read before a crawl and used after it | a protected entry point goes out only verified under the configured keys |
| Scheduler (`crawl_loop.go` `CrawlLoop`) | a snapshot of the registry | crawlConfigured, crawlDue, evictStale | decides on a snapshot while requests go on | what is registered is crawled or dropped |
| Generic files (`serve.go` `handleGeneric`, `failure_cache.go`) | generic entries, failed paths | fetch, revalidate, expire | expiry inside a tree that became a repository | a verified file is never evicted by an older entry |
| Destination lock (`mirror/sync.go` `lockDestination`) | the lock file, its flock | open, flock, compare, remove, close | removal racing open; crashes | one run per destination; no file left behind |
| File download (`fetch/fetch.go` `File`, `fetch/source.go`) | partial, staged and final file; mirror in use | stage, resume, verify, rename, promote | stale partials, mirrors that differ, crashes | what is installed is one verified version |
| Download pool (`fetch.go` `Many`) | the job channel, one error slot | dispatch, work, abort | error, cancellation and completion race | success means every job is done or tolerated; no error lost |
| Missing files (`fetch/missing.go`) | records across runs | Tolerate, Finish | budget counts runs in a row | a run fails exactly while something is inside its budget |
| Pruning (`fetch.go` `PruneTree`) | first-unreferenced times across runs | prune | grace across runs; work files of other writers | nothing the current generation needs is removed |
| RPM (`mirror/rpm.go`) | staged root, live root, hidden packages | stage, verify, fetch, withdraw, publish, roll back | several files published one after another | live metadata's packages are there; unverified generations stay unpublished |
| Deb (`mirror/deb.go`) | staged and live release documents, indexes, by-hash names, pool | stage, check, fetch, promote, link by hash, publish, prune | three documents and two signatures, published without a rollback | the release a client follows has its indexes and pool files, and never goes back |
| Arch, Alpine (`mirror/arch.go`, `apk.go`) | staged and live database, packages with signatures | stage, verify pairs, promote signatures before packages, publish | a pair is two files | a live package and its signature belong together; listed packages stay |
| Discovery (`mirror/sync.go`, `discover.go`, `discover_cache.go`) | what earlier crawls found, with the time it was first missed | crawl, replay, withdraw, evict, save, synchronize | partial crawls, cancellations, nested base URLs | nothing is withdrawn before its grace period; every local copy stays on record |
| Signatures (`mirror/signature.go`), traces, type resolution, configuration, command line | - | verify, render, probe, parse | keyservers, I/O | - |

How they interact: a request handler and the scheduler both go through the registry and the
in-flight set to a crawl goroutine; the goroutine takes a slot, then the archive root's lock (a
Debian suite shares its `pool/` with its siblings), then the resource's lock; it runs the
mirroring code of `mirror/`, which downloads through `fetch.Many` and `fetch.File`; it records
its outcome in the registry, which `FlushLoop` writes to disk. A handler that needs a
signature-protected repository runs the same crawl on its own goroutine. `ServerCmd.Run` starts
all of it, reloads it on SIGHUP and takes it down.

## Modules

| Module | Models | Code |
|---|---|---|
| `KeyedMutex` | the abstract specification of `lockResource`: per key, an owner and those who asked | `crawl_loop.go:25-59` |
| `LockTable` | the reference-counted table that implements it | `crawl_loop.go:25-59` |
| `CrawlDispatch` (EXTENDS `LockTable`) | slots, in-flight set, wait group, the three paths into a crawl, reload, rebind, stop, flushing | `crawl_loop.go`, `server_cmd.go`, `http.go`, `state.go:210-251` |
| `Schedule` | `refreshTier`, `nextCrawlAt`, `dueForInventory`, `activeInInventory` as operators | `crawl_loop.go:504-594` |
| `MirrorCache` (EXTENDS `Schedule`) | requests, crawls, scheduler and evictions over the registry and the disk | `serve.go`, `crawl_loop.go`, `state.go` |
| `DestLock` | the lock file of `repo-sync sync`, with crashes | `mirror/sync.go:19-72` |
| `Publication` | the abstract specification of a published tree: acceptable generations, in order | `mirror/rpm.go` |
| `RpmSync` | `syncRPM` run after run: staging, verification, fetching, missing files, publication, rollback, pruning | `mirror/rpm.go`, `fetch/missing.go`, `fetch/fetch.go` |
| `FileFetch` | one call of `File` or `FileFresh`: stripes, partials, resuming, mirror failover, verification, staging | `fetch/fetch.go:165-414`, `fetch/source.go` |
| `FetchPool` (EXTENDS `FileFetch`) | `Many` with its workers, requests beside it, promotion after it | `fetch/fetch.go:454-587`, `mirror/arch.go:174-190`, `mirror/deb.go:415-436`, `serve.go:60-83` |
| `DebSync` | `syncDeb` run after run: release documents, indexes, by-hash names, pool files, publication, pruning | `mirror/deb.go` |
| `ArchSync` | `syncArch` and `syncApk` run after run: database, package pairs, companion files, promotions, pruning | `mirror/arch.go`, `apk.go` |
| `Discovery` | `discoverTargets` and what follows it, run after run: crawl, replay, withdrawal, eviction, save, synchronization | `mirror/discover.go`, `discover_cache.go`, `sync.go` |
| `DestLockProofs`, `RpmSyncProofs`, `DebSyncProofs`, `ArchSyncProofs`, `DiscoveryProofs`, `MirrorCacheProofs` | theorems about the module named | - |
| `CrawlDispatchProofs` | theorems about `LockTable` and `CrawlDispatch` | - |
| `FetchPoolProofs` | theorems about `FileFetch` and `FetchPool` | - |
| `MCCrawlDispatch`, `MCMirrorCache`, `MCDestLock`, `MCRpmSync`, `MCFetchPool`, `MCDebSync`, `MCArchSync`, `MCDiscovery` | instances for TLC | - |

Each module keeps all of the control of its code and sums up the data:

* **`LockTable`.** `Lookup`, `Acquire`, `Unlock` and `Unref` are the four critical sections of
  `lockResource` and the closure it returns. `entry[t][k]` is the pointer a call holds on its
  stack, `Lock` the addresses the allocator may hand out again once nothing points at them; that
  is what makes a dropped entry dangerous, so it is modelled.
* **`CrawlDispatch`.** `pc[t]` is where a goroutine stands. Each section of `lockMu`, `slotMu`
  and an entry's mutex is a step; `slotCond.Broadcast` comes outside `slotMu`, so it is a step
  after `ReleaseSlot`. The deferred calls of a crawl goroutine run in reverse order: slot,
  in-flight mark, wait group. A handler's own crawl is neither in flight nor in the wait group,
  as in the code. `phase` follows `ServerCmd.Run` through a stop: `Shutdown` returns when the
  handlers did (or, with `DrainTimeout`, whenever it likes; `CrawlSafety` leaves that out, see
  [known races](#known-races)), the crawl context is canceled, the loop waited for, then the
  crawls, then the final `Save`. A reload may give a new limit and may move the listener, which
  drains the old one first and stops the crawls when the new address cannot be bound. What a
  crawl does is one step here, `Work`, which may set `dirty`.
* **`MirrorCache`.** Slots and reference counts are left to the two modules above; `lock[r]` is
  the mutex they provide. Every call on the registry and every look at the disk is a step.
  `tree[r]` says what the disk holds of a repository: nothing, an entry point fetched on demand,
  or a generation with the policy (the configured keys) it was verified under. A handler's
  record carries what `handleOnline` keeps in local variables: whether the entry was already
  registered, the policy it named, whether the artifacts were present, the settings it loaded. A
  member request (`TouchRepoMembers`) is one step when the file is there or fetched by itself,
  and goes to the protected crawl when it is missing. `Left(r)` is what an earlier process that
  stopped cleanly may have left of a repository: nothing, a crawl under any policy, or an entry
  point fetched without one; what runs under `Off` leave of a repository that was verified
  before is what `CacheReload` shows.
* **`DestLock`.** `fd`, `flock` and `path` are the descriptor, the kernel's lock and the file at
  the path; a crash closes the descriptor and leaves the file. So does a run that fails to lock
  or to examine it, and one whose `os.Remove` fails, which is only logged (`sync.go:68-70`);
  `left` is history and says that the file at the path was left so and not taken over since.
* **`RpmSync`.** `run` is what `syncRPM` holds in memory and loses when it dies; everything else
  is on disk. A root file is its generation and its stamp, the newest generation a conditional
  request with its modification time hides: promotion keeps `Last-Modified`, a rollback writes
  new files. Upstream may publish its next generation between any two requests. Every request
  may fail and, for packages, may be answered 404; each step of the publication may fail, and so
  may parts of the rollback. Each file fetched, hidden or promoted is a step, so a death can
  come between any two. Download workers are taken one at a time: their order does not matter
  here, since paths differ. `budget` is `.repo-sync-missing.json`, `aged` the prune state.
  `accepted`, `crashed` and `torn` are history that only the properties read.

* **`FileFetch`.** Content is a sequence of blocks, so that a partial file is a prefix and a
  resumed one may be a mixture; each block written is a step, and so is every look at the disk
  and every answer of a mirror. `call[c]` is what `file` and `download` hold on the stack. A
  mirror either follows upstream or lags; `Body[g][p]` is what generation `g` has at a path. A
  checksum is equality of content. `TryAgain` is the second round of `file`'s loop.
* **`FetchPool`.** `pool` is `Many`'s frame and the little of its caller's that follows (a
  refetched pair, promotion), `at[w]` the job in a worker's hand. `pool.ours` is history, kept
  for `NoLeftoverPromoted` alone: which paths this run has staged. A send on the unbuffered
  channel and its receipt are one step. Requests and the crawl use different `Source` objects
  and contexts but the same stripes. The crawl may be canceled at any time (a canceled request
  only looks like failing mirrors, as it never resumes), and so may come the death of the
  process, which leaves the three files of every path as they are.
* **`DebSync`.** A generation names one issue of the package index, in several compressed
  variants, each a file with a by-hash name of its own. `live` and `staged` are the three
  release documents, `index` and `next` the index files in place and staged, `byhash[v][n]` what
  is published under the digest of issue `n`. A run without a checked signature judges an index
  by its size, so an index of the same size may be taken for another; `flawed` records that or
  that a by-hash name could not be made, `ahead` that a Release newer than the InRelease beside
  it was published, `torn` that a run ended between `Release.gpg` and `Release`. Pruning may
  remove any unreferenced file, with whatever grace period: the periods themselves are
  `RpmSync`'s subject. The layout is suite or flat; only indexes in a subdirectory get by-hash
  names (`deb.go:483`, `conf.nested`), so those of a flat repository beside its Release have
  none and are there under their plain names until a run replaces one (`behind`). A Release.gpg
  or InRelease that upstream dropped is removed, or the removal fails, which is only logged: the
  document is then `stuck`, publication goes on, and a later pruning may get rid of it
  (`PruneDoc`).
* **`ArchSync`.** A package is a file and its signature; `Want[g][p]` is its content, which is
  also that of its signature, so a pair matches when the contents do. With checks on both are
  staged, every pair is verified, and signatures are promoted before packages; with checks off,
  and always for Alpine, files go straight to their place. `torn` holds the packages whose
  signature was promoted without them, `accepted` those the live database was published without.
  A companion, the database's signature or a package's signature that upstream dropped is
  removed, or the removal fails, which is only logged: `stuck` and `stray` hold those,
  publication goes on, and a later run or pruning may remove them.
* **`Discovery`.** `cache` is the copy of the state file a run holds, `saved` what is on disk,
  `have` the entries with a local copy. `List` takes one directory of the crawl's queue; the
  order is left open, as the crawl's workers leave it. `sighted` and `seen` are history: what
  the run at work, and what recorded crawls, found and when. `untracked` says that a removal
  failed, or that the state file could not be written or read, which the code only logs.
  Repositories and files are kept in two lists (`discover_cache.go:152-206`) by the same rules;
  an entry may be a directory and one of the two in turn, and what is a repository and a file of
  the same path in turn would be two entries.

`PROJECT.json` maps every definition to the lines it stands for.

## Runs

| Run | Instance | Checks |
|---|---|---|
| `CrawlSafety` | 2 suites below one archive root, 2 crawl goroutines, 1 handler, loop, limits 1 and 2 | `DispatchInv` (types, exact slots and wait group, sleepers woken, one goroutine per resource), `CrawlExclusive`, `StopInOrder` |
| `CrawlLive` | 1 suite and its root, 2 crawl goroutines, 1 handler, loop, limit 1, 3 addresses, a drain that may time out | `LockInv` (reference counts, entries and mutexes exact), `MutualExclusion`, `ImplementsMutex` (refinement of `KeyedMutex`), `SlotsTurnOver`, `StopCompletes` |
| `CacheSafety` | 1 signed repository, 2 handlers, policies key1, key2 and off; a process that starts with key2 over what another left | `RegistryInv` (types, the recorded policy is the tree's), `ServedVerified`, `OnlyTrafficRegisters` |
| `CacheKeys` | 1 configured signed repository, 1 handler, reloads between two keys | `PolicyOfLastSuccess` |
| `CacheLive` | 1 unprotected repository, 1 handler, clock to 1 | `RegisteredIsCrawled` |
| `CacheReload` | as `CacheKeys`, with signature checks switched off and on again | violation of `PolicyOfLastSuccess` |
| `MCDestLock` | 3 runs, 4 inodes, 2 attempts, crashes anywhere, locks, looks and removals that fail | `LockFileInv`, `OneRunSyncs`, `NothingLeftBehind` |
| `RpmSync` | 3 generations, the second unsigned; an index, a package that drops out and returns, one that changes under its name; all signature modes | `ShowsGenerations` (refinement of `Publication`), `PublishedComplete`, `LiveComplete`, `SignatureMatches`, `RecordsInv` |
| `DebSync` | 3 generations, the second without `Release.gpg` and with the first's index, the third without `InRelease` and with a new index of the same size in one variant less; required, if-present and off, with and without by-hash names; removals that fail | `LiveComplete`, `SignatureMatches`, `PublishedInOrder` |
| `ArchSync` | 3 generations; a package that changes under its name, one that drops out, a generation without signature and companion; three signature modes and Alpine; removals that fail | `LiveComplete`, `PairsMatch`, `NoStaleCompanion` |
| `Fetch` | 2 workers and 1 request; an index of 2 blocks with 2 generations, a package that drops out, a file that never was; a mirror that moves and one that lags | `WholeFiles`, `ReportedAsListed`, `MismatchIsUpstreams`, `NoLeftoverPromoted`, `SuccessMeansDone`, `PoolInv` (types, no worker outlives `Many`), `NobodyStuck` |
| `Discovery` | 3 trees in turn of three levels, two base URLs, one below the other, depth 1; with pruning, without it and with an exclusion, dry runs | `WithdrawnAfterGrace`, `TrackedUntilRemoved`, `CleanScanExact`, `TypeOK` |

What they show:

* A crawl or an eviction has its tree to itself, whichever of the three paths it came by,
  including two suites that share a pool; the slot count does not drift on the early return of a
  canceled crawl; a sleeper always has a `Broadcast` coming; duplicate dispatches collapse to
  one goroutine and the mark goes away again.
* A stop ends: handlers, crawls, loop and main cannot all wait for one another, because slots
  are taken before locks on every path, the root's lock before the resource's, and an eviction
  takes no slot. When the handlers return within the timeout, no `Add` races `Wait` and every
  recorded outcome is on disk at exit.
* An entry point of a protected repository is served only from a generation verified under the
  configured keys, through restarts with other keys, unreadable key files, failed crawls that
  had already published, racing crawls and evictions.
* The outcome of a crawl that outlives its registration does not register it again, and a
  registration whose dispatch collapsed into such a crawl is still crawled later.
* Overlapping `sync` runs exclude one another through the lock file that each of them removes
  when it is done, also when runs crash. A file that stays behind was left by a crash or by a
  lock, look or removal that failed, and the next run that gets it takes it over and removes it;
  no overlap of runs leaves it to nobody.
* A slot is handed on as long as somebody waits for one. Which waiter gets it is left open.
* A synchronized RPM tree shows complete generations in order, verified ones when signatures are
  required, whatever upstream rotations, failures, deaths and rollbacks come between; its
  signature file belongs to its `repomd.xml`; a file it lists stays while other runs come and
  go; missing files hold a generation back exactly for their budget.
* Whatever partial a download finds, from whatever generation, mirror or dead process, what it
  installs or stages is one generation's file as a whole, and with a checksum the listed one; a
  resumed mixture is retried from scratch before its mismatch is reported. What a run promotes
  it staged itself.
* The apt release a client follows never goes back, and as long as it is followed every index
  that was served can be had, under its digest where it lies in a subdirectory, and every pool
  file that was not missed is there, through compressed variants that come and go, by-hash
  names, deaths in the middle of the promotions, and pruning; in required mode that release was
  verified, whichever of the two signed documents carried it.
* A pacman package that is live has the signature that belongs to it, unless a run ended between
  the promotions of the two, which the next run repairs, its package was missed, or upstream
  dropped the signature and it could not be removed; a companion file of the database is never
  older than the database that goes live, but for one that upstream dropped and that could not
  be removed.
* Discovery withdraws an entry only after complete crawls missed it for the grace period,
  counted from the last crawl on record that found it; whatever has a local copy is on record
  from before it is fetched until it is removed; a complete crawl finds exactly what is within
  its depth and not left out.
* `Many` returns success only when every job was delivered, was optional, or was counted as
  missing; it returns only when its workers have ended, and it always can go on, in whatever
  order errors, a cancellation and the last jobs arrive, also when all workers have failed while
  there are jobs to send.

### Bounds

* Two suites and one root give every conflict between locks (same key, same root, both); two
  crawl goroutines and a handler with limit 1 make every one of them sleep for a slot. `Crawler`
  bounds the goroutines alive at once: a dispatch waits for a free one, which the code would
  simply start. With two suites no more than two can be in flight.
* In `CrawlLive` the loop, two crawl goroutines and a handler meet at the lock table on two
  keys: enough for a count to go to zero while another goroutine is between look-up and lock and
  a third creates a new entry. Three addresses let an address be handed out again. The theorems
  hold for any number of all of them.
* `MirrorCache` has one repository in each run: its steps never relate two repositories except
  through nesting (`Below`), see [known races](#known-races). Two handlers are needed for a
  crawl to publish between another request's look and its lock. The clock runs one or two ticks
  of one crawl interval, with a one-step refresh schedule: a repository is fresh, due and stale
  in turn. `MaxTime` caps the clock and nothing else.
* `DestLock` needs a third run to create the replacement of a lock file that a first removes and
  a second has open; four inodes let every open file be distinct and one more be new.
* `RpmSync`: three generations let a file drop out and return, and let upstream rotate between
  any two requests of a run and again of the next. `Retries` 2 tells a first miss from a spent
  budget (counts are capped there, nothing reads more); a grace of one tick with a clock of one
  tick separates entering the grace period from its end. The number of runs is not bounded.
* `DebSync`: three generations let documents, variants and indexes each disappear and change
  once, in every combination with what a run had staged before. Issues have the same size, so
  that judging by size can go wrong. The number of runs is not bounded, `Retries` 2 as in
  `RpmSync`. Four configurations are run in full; their combinations with one another add
  nothing, as the options only meet in `Confs`.
* `ArchSync`: the same, with a package that changes under its name, which makes every mixture of
  old and new pair visible.
* `Discovery`: a base URL with a directory that becomes a repository and a directory again, and
  is a base URL itself; in it a repository that goes and returns as a directory; in that a file.
  So the inner directory is within the depth of one base and beyond the other's, the file is at
  first inside a repository, and where the inner directory is excluded the file is below what is
  left out. `TTL` 1, `Grace` 1 and two ticks separate a young record, an old one, and the end of
  a grace period. `MaxTime` caps the clock and nothing else; the number of runs is not bounded.
* `Fetch`: two generations of the same size without a common block make every mixture visible
  and none detectable by its size; two mirrors, one of which moves, give failover between
  different content. Three jobs for two workers let all workers fail with jobs left to send. One
  request is enough to share a stripe with a worker. The index is also asked for without its
  metadata, as a companion is (`arch.go:222`): then a refetch can stage what `Many` had found
  unchanged. `Last` bounds the generations, and an index of two blocks has exactly one proper
  prefix.

## Fairness

* `CrawlDispatch`: weak fairness of every goroutine and of main, since crawls and evictions are
  taken to end (a stop cancels their context, which ends a transfer; before that a stalled body
  could hold one up, see [known races](#known-races)) and the Go scheduler is fair. Strong
  fairness of acquiring a mutex: `sync.Mutex` hands over to a waiter that starved for 1 ms. None
  of taking a slot: `slotCond` and the retest under `slotMu` (`crawl_loop.go:97-104`) put nobody
  in order, and a newcomer may come first every time. So `SlotsTurnOver` promises a waiter no
  slot; it says that a crawl that waits for ever does so only while slots are given back again
  and again, hence not because one was lost, a `Broadcast` missed, or a holder blocked behind
  locks. A handler may likewise be passed over for ever, so that `StopCompletes` rests on
  `shutdownTimeout` (`DrainTimeout`); what it adds is that nothing after the drain can be held
  up by slots, locks or crawls. Requests, reloads and stops are never obliged to happen.
* `MirrorCache`: the same, and the disk does not refuse an eviction for ever. The clock is free,
  so the liveness run shows progress without relying on time passing.
* `DestLock`, `RpmSync`, `DebSync`, `ArchSync` and `Discovery` state safety only: each run of
  these is a sequence of steps that ends by itself as soon as its transfers do, and nothing in
  the code obliges anybody to start another one.
* `FetchPool` states no liveness: nothing bounds how long a body takes (`request_timeout` covers
  the headers only, `fetch.go:53-60`). `NobodyStuck` says with `ENABLED` that goroutines never
  wait for one another instead.

## Proofs

TLAPS checks these for every value of the constants, under the assumptions the modules name:

* `LockTableAssumption`: finitely many goroutines; nil is neither a goroutine nor an address.
* `DestLockAssumption`: nil is neither a run nor an inode; at least one attempt.
* `RpmSyncAssumption`: types, and every generation has a `repomd.xml`. Any number of
  generations, files and misses, any set of files in each, any of them signed or trusted, any
  grace period.
* `DebSyncAssumption`: types; the names of index variants and of pool files differ, as their
  paths do. Any number of generations, variants and pool files, any of them signed, trusted or
  missing.
* `ArchSyncAssumption`: types; a companion file is neither the database nor its signature, and,
  so that `torn` can name both, no package has the database's name; Alpine runs with the checks
  off, as `syncApk` has none. Any number of generations, packages and companion files.
* `DiscoveryAssumption`: types, at least one choice of options, and no base URL given twice. The
  code does not check the last: a URL that is repeated is crawled twice in a run, and without a
  grace period the second crawl may withdraw what the first has just scheduled.
* `CrawlDispatchAssumption`: the goroutines of each kind are distinct, a resource is not its
  archive root, and a limit is at least 1 (`config.go`, `gt=0`). Any number of resources, roots,
  limits and goroutines (finitely many, by `LockTableAssumption`).
* `FileFetchAssumption`, `FetchPoolAssumption`: types. A source has at least one mirror;
  upstream has any number of generations of any content; a job wants nothing in particular, or
  the content that some generation has at its path (metadata lists what upstream published); a
  request on demand wants nothing in particular and is not staged (`serve.go:81` passes no
  `Expect` and does not stage).
* `MirrorCacheAssumption`: types, the names of policies and goroutines are distinct, and where a
  repository is not of a kind that is verified, `Off` is a policy. Repositories may be nested in
  any way. Two theorems take a hypothesis more: `Reloadable = {}` (the configuration stays as it
  was when the process started; what an earlier one left was verified under any policy) or `Off
  \notin Policies` (a reload may install other keys, but none switches verification off). They
  are the configurations of `CacheSafety` and `CacheKeys`. Without the first, a request that
  looked before a reload may be served what a crawl verified after it; without the second,
  `CacheReload` shows the violation.

The theorems:

* **`LockTableInvariant`** (`LockSpec => []LockInv`). `MutualExclusion` alone is not inductive:
  a waiter's pointer might be to an entry no longer in the table. `LockInv` adds what rules that
  out: the count of an entry is exactly its holders and waiters (`RefsExact`, by the lemmas
  `UsersEnter`, `UsersLeave` and `UsersStay` on cardinalities), every call's pointer is the
  entry now in the table (`SameEntry`), entries of different keys differ (`EntriesDistinct`),
  and an entry's mutex is held by exactly the call inside (`HolderExact`). One lemma per action.
* **`LockTableMutualExclusion`** follows: two holders of a key hold the mutex of the same entry.
* **`LockTableImplementsMutex`** (`LockSpec => ImplementsMutex`). Under `LockInv` and `LockInv'`
  a look-up is `Ask`, an acquisition `Grant`, an unlock `GiveBack`, and counting out a stutter:
  the entry that goes had no holder.
* **`DestLockInvariant`** (`Spec => []LockFileInv`). A syncing run's file is the one at the path
  (`HolderOwnsPath`), which needs that a run past its flock holds that file's lock (`FlockHeld`)
  and that locks belong to open files (`OpenFiles`); no other run can then be at the point of
  removing or replacing the path's file.
* **`DestLockMutualExclusion`**, **`DestLockReleaseOwnFile`** follow.
* **`DestLockLeavesNothing`** (`Spec => []NothingLeftBehind`), by `LeftInv`: unless the file was
  left by a crash or by an error (`left`), a run that finds the lock taken leaves it to whoever
  holds it, and that run is not one that has already removed it, because a file that was removed
  does not come back to the path (`RemovedGone`), nor is it held by one that has closed it
  (`TakenLocks`).
* **`RpmSyncInvariant`** (`Spec => []RpmInv`). None of the properties below is inductive,
  because each of them speaks of the live tree and the live tree changes to what a run prepared
  many steps before. `RpmInv` says what is known of that preparation at each step: `RootInv` (a
  staged `repomd.xml` is no older than the live one, and what a run has read is what it will
  publish), `SigInv` (the signature it will publish is of that, and the one it would restore is
  of the live one), `FetchedInv` (a listed file is still to be fetched, in place, or missed, and
  what is missed when publication comes has used up its budget), `ContentInv` (files have
  contents some generation lists), `LiveInv` (what the live metadata promises is in place, and
  is never among what this run has missed, so that hiding and putting back leave it alone) and
  `AgedInv` (nothing promised is ageing). One lemma for each, one step per action.
* **`RpmSyncRecords`**, **`RpmSyncSignature`**, **`RpmSyncLive`** and **`RpmSyncPublished`**
  follow: the invariants `RecordsInv`, `SignatureMatches`, `LiveComplete` and the action
  property `PublishedComplete`.
* **`RpmSyncImplementsPublication`** (`Spec => ShowsGenerations`). Only `PublishRepomd` changes
  what the tree shows, and under `RootInv` it shows an acceptable generation that is not older
  (`Show`); `Rotate` is `Offer`; every other step, deaths and rollbacks included, is a stutter.
* **`DebSyncTypes`**, **`DebSyncStaysComplete`**, **`DebSyncStaysSigned`** and
  **`DebSyncPublishesInOrder`** (`TypeOK`, `LiveComplete`, `SignatureMatches` and the action
  property `PublishedInOrder`), by the inductive invariant `DebInv`. Here three documents and
  two signatures go live one after the other, so what a run prepared has to be known up to the
  last of them. `DocInv`: a staged document is no older than the live one, and the Release that
  may replace an InRelease is no older than that; `GotInv`: the generation whose indexes a run
  mirrors is that of the document clients will follow; `SigInv`: each document was checked by
  the time the run relies on it, and between the promotions the live signature is that of the
  Release still to come; `IndexInv`: a listed variant is still to be fetched, there, or not
  served, and once promoted it is published under its digest (`run.naming` holds the one in
  between); `PoolInv`: a listed pool file is still to be fetched, in place or missed, and what
  an authenticated run misses has used up its budget by the time it promotes.  A document whose
  removal failed is followed through: an InRelease that stays live is still the one clients
  follow, and when pruning removes it they turn to the Release published beside it
  (`DocPruned`). `LiveComplete` is a conjunct of its own: what is promoted, linked by digest and
  pruned must leave alone what the release lists that clients follow meanwhile.
* **`ArchSyncTypes`**, **`ArchSyncStaysComplete`**, **`ArchSyncPairsMatch`** and
  **`ArchSyncCompanions`** (`TypeOK`, `LiveComplete`, `PairsMatch` and the action property
  `NoStaleCompanion`), by `ArchInv`. A pair is fetched, verified and promoted as two files many
  steps apart. `GatheredInv`: a listed file is still to be fetched, obtained or missed;
  `VerifiedInv`: a pair that is not waiting any more agrees, or lacks a signature it may lack,
  which a refetch of another pair leaves alone (`TodoInv` says whose turn it is); `PlacedInv`: a
  promoted signature is the one in place when its package follows, and after the last promotion
  every package that was not missed is in place, in required mode with its signature. `PairInv`
  and `LiveInv` are the properties in the form the steps preserve: no mismatch but in `torn`,
  and what the live database lists is there and never among what this run missed (`ContentInv`:
  contents are those some generation lists), so that a promotion cannot remove its signature.
  For the documents, `DocInv` says that the database a run has read is the one it publishes,
  `SigInv` that the signature it verified is that database's, and `CompanionInv` follows the
  companions from staging to promotion: each is absent, of the database's generation or a later
  one, as upstream is asked for it after the database, or one whose removal failed.
* **`DiscoveryTypeOK`**, **`DiscoveryRecord`** (`Spec => []RecordInv`). The record a run holds
  and the one on disk differ until `Save`, so the invariant says where a run is (`RunInv`), that
  no base comes twice (`BasesInv`), that a recorded entry was seen and not after it was first
  missed (`SeenInv`), what this run has sighted (`SightedInv`), that a local copy is on the
  run's record or waits for its removal (`PendingInv`), and that what is to be synchronized is
  on record (`TargetsInv`).
* **`DiscoveryTracked`** and **`DiscoveryWithdrawal`** follow: `TrackedUntilRemoved` and the
  action property `WithdrawnAfterGrace`.
* **`DiscoveryFindsAll`** (`Spec => []CleanScanExact`), by `ScanInv`: while upstream stays and
  no listing fails, what is queued can be reached at its depth, what was found was to be found,
  and whatever is to be found and is not yet has a directory of its path in the queue
  (`OnTheWay`). A path is followed upwards by the recursive function `Above`. What it is at one
  level and at the next (`AboveUnfolds`), and that the way from an entry is the way from its
  parent one level on (`AboveShifts`), is proved by a least counterexample (`LeastNumber`, from
  the library's well-founded ordering of finite sets), since the induction theorems take an
  operator as a parameter and cannot be used.
* **`DispatchBookkeeping`** (`Spec => []DispatchInv`), by the inductive invariant `CrawlInv`.
  That slots are exact is a cardinality (`Holders`) that each step changes by one or not at all,
  and so is the wait group (`Crawls`); a sleeper has somebody to wake it because whoever holds a
  slot, or has released one and not yet broadcast, will. Both need to know where a goroutine of
  each kind can stand (`WhereInv`).
* **`CrawlsAreExclusive`**. `LocksInv` says which locks a goroutine has at each place: its
  resource's and its archive root's, the root's first. Two at work on one resource, or on two
  suites of a root, would both hold a key, against `LockInv` of the table.
* **`StopsInOrder`** (unless `DrainTimeout`): `Returned` says how far a stop has come at each
  phase: handlers idle, then the loop returned, then no crawl underway.
* **`DispatchUsesTheTable`** (`Spec => LockSpec`). `CrawlDispatch` calls the table's four
  sections as steps of its own; under `LocksInv` each of its steps is one of the table's or none
  (`TableStep`). So what is proved of the table holds here: **`DispatchMutualExclusion`**,
  **`DispatchImplementsMutex`**, and `LockInv` itself, which `CrawlInv` takes over by this lemma
  instead of proving it again.
* **`FilesAreWhole`**, **`ReportsAreTrue`**, **`SuccessIsComplete`**, **`PoolIsWellFormed`**,
  **`MismatchesAreUpstreams`**, by one inductive invariant, `PoolIndInv`. A file is whole when
  it is promoted because its hash was that of the content wanted, or because nothing was
  expected and what was written is one body from its beginning. So the invariant follows a
  transfer (`CallOK`): whoever is past the stripe's lock holds it, hence nobody else writes the
  partial file, hence what the hash was fed is what the file has; a transfer that did not resume
  is, with the rest of the body, one generation's content. `ReportOK` keeps what a call found
  out true until it reports it, which again rests on the stripe. For the pool, `Pending`: until
  an error is seen, each job sent is accounted for or in a worker's hand; an error that was
  raised waits in its channel, and the dispatcher sees it before it may report success.
* **`OnlyOursIsPromoted`** (`Spec => NoLeftoverPromoted`), by `OursInv` on top of `PoolIndInv`:
  from the check with which a call clears an earlier run's leftover, and for every file that was
  delivered, either nothing is staged there or this run staged it; so it stays when jobs share a
  path, when a pair is refetched and while requests are at work, as those stage nothing. One
  lemma says what a call's steps do to a staged file (`CallStepStages`), one what starting or
  ending one call does (`OneCallOurs`).
* **`TrafficRegisters`** (`Spec => OnlyTrafficRegisters`). `RegistrySteps`: every step but the
  recording of a crawl's outcome and policy leaves an entry, drops it, or is a request or the
  configuration; and those two touch only an entry that is there. Unconditional, from types
  alone (**`CacheIsTyped`**).
* **`RegistryKeepsItsClaims`** and **`EntryPointsAreVerified`** (`Reloadable = {}`), by
  `SettledInv`. The registry's claim that lets a request skip the crawl is read long before it
  is used, so the invariant says of every goroutine what it goes by (`GoesBy`) at every place
  between: once a protected repository's files are those of the configured policy, they are so
  until they are removed (`VerifiedStays`), since fetches on demand are for others and crawls
  publish what they verified. Neither needs the lock.
* **`PolicyIsOfTheLastSuccess`** (`Off \notin Policies`), by `KeysInv`. Here the lock is what
  matters: between publishing and recording, a crawl's policy is that of the files (`Publishes`)
  because no other crawl gets to publish (`LocksInv`), and an entry names the files' policy
  unless a crawl is in between (`NamesTree`).

Only model-checked: `NobodyStuck` of `FetchPool`, which is stated with `ENABLED`, and all
liveness. Liveness under fairness and `ENABLED` are out of the prover's reach, and so is
anything in a module with RECURSIVE operators; no module here has one. The other way round,
`TypeOK` of `DebSync` and `ArchSync` is proved and no run's invariant.

## Known races

Behaviour the code allows. The properties are stated so that they hold beside it; one of these,
`CacheReload`, is a run of its own that shows the violation, as a comment of the code says
otherwise.

* **A dispatch during `Wait`.** `server_cmd.go:68-69` waits for the crawl loop before
  `WaitCrawls` because an `Add` racing `Wait` is misuse. A handler that `Shutdown` abandoned
  after its timeout can still call `startCrawl` (`serve.go:316`) and so `Add`. `CrawlDispatch`
  with `DrainTimeout` does this; in `CrawlSafety`, which checks `StopInOrder`, handlers return
  in time.
* **A request between an eviction's check and its delete.** `evictStale` re-reads
  `LastRequested` under the resource lock, but `MarkRequested` takes no resource lock: a request
  that arrives during `RemoveAll` loses its registration and its files.
* **Signature checks off and on again** (`CacheReload`). A crawl under `signature_mode: off`
  publishes unverified files and leaves the policy of an earlier verified generation in the
  entry; a reload back makes the next request serve them without a check.
* **A rolled-back root looks current.** `restoreRPMRoot` (`rpm.go:187`) restores contents and
  modes but not modification times, so for an upstream that compares dates the next run's
  conditional requests are answered 304 and the generation that failed to publish is not
  mirrored before upstream publishes another one.
* **A path listed with two contents** is overwritten in place before the new metadata goes live,
  and a package hidden by `withdrawMissingPackages` stays hidden when the run dies before
  publication (`rpm.go:219`); `LiveComplete` leaves such paths out.
* **A death between publication and pruning** keeps the first-seen times of files that came back
  into use; the next generation without them prunes them at once (`RecordsInv` excludes it).
* **A protected crawl abandoned at shutdown** is in no wait group (`crawl_loop.go:186`): it may
  still be at work during the final flush.
* **A failed first contact deletes its registration** (`serve.go:300-309`) without looking
  whether the scheduler has dispatched a crawl of it or another request's crawl has verified it
  meanwhile.
* **Eviction of an outer repository** removes the whole directory (`crawl_loop.go:623`), the
  trees of repositories registered below it included, configured ones too. So does discovery
  (`discover_cache.go:305`): entries found below a withdrawn repository that upstream still has
  lose their files, and get them back when the same run synchronizes them.
* **A failed crawl can be retried early**: `crawlDue` works on a snapshot (`crawl_loop.go:569`),
  so a crawl that failed after the snapshot is dispatched again before its retry gate.
* **A handler that waited with old settings** publishes under them after a reload; the entry
  then names the old keys, so the next request crawls again.
* **`FileFresh` is not always fresh.** `force` only leaves out the conditional request; a file
  with an `Expect` whose size is known and matches is still accepted as it is (`fetch.go:260`),
  after the staged copy was removed (`fetch.go:256`). The refetch of a package whose signature
  does not verify (`arch.go:184`) may so drop the staged package and look at the old one again.
* **A good partial can be lost.** A resumed transfer that fails for any reason but a 404 removes
  the partial file (`fetch.go:278-284`), also when the connection merely broke, although
  partials are kept so that a failed download can be resumed.
* **Pruning takes no stripe.** `PruneTree` removes `.partial` and `.staged` files
  (`fetch.go:673-696`) that a request may be writing: its rename then fails, or a resumed
  download hashes bytes that are gone from the file it appends to.
* **Release and InRelease are never compared.** `deb.go:111-170` stages each for itself, so
  upstream may move on between the two requests and a Release newer than the InRelease beside it
  goes live (`ahead`). In required mode one verified document is enough: without `Release.gpg` a
  Release goes live beside a verified InRelease without having been checked itself.
* **An index judged by its size.** A run whose Release was not verified takes an index of the
  listed size as it is and links it under the listed digest, and the wrong name stays for as
  long as nothing asks for the file again (`flawed`).
* **Release.gpg and Release have no rollback** (`deb.go:443`), unlike the root files of RPM: a
  run that fails between them leaves a signature that does not match until a later run publishes
  (`torn`). A by-hash copy that a death cut short, on a file system without hard links, is kept
  as it is.
* **A missed package with its new signature.** The signature is promoted while the old package
  stays in place, when the budget lets the run go on without the package (`arch.go:203`); with
  checks off, a package signature that is there is never fetched again (`arch.go:142`), whatever
  became of its package; the companion `.db.tar.gz` and its signature go live without being
  verified.
* **A stale file that cannot be removed is served on.** `RemoveStale` (`fetch.go:438-442`) only
  logs a failed removal and the run publishes beside it: a companion or signature of the
  database (`arch.go:235`, `:248`), a package's signature (`:202`), a Release.gpg or InRelease
  (`deb.go:443`). `arch.go:232-233` says that "a stale companion or signature is never served",
  which so holds only when the removal succeeds: without `\ stuck`, `NoStaleCompanion` is
  violated by the instance of `ArchSync`. An InRelease that stays is what clients follow,
  although the files it lists are no longer kept.
* **A failed removal is forgotten.** When discovery cannot remove a withdrawn copy, or the copy
  is the destination itself, the record is dropped all the same and nothing removes it later
  (`discover_cache.go:280-310`; `:138-140` says that what is tracked stays until it is removed).
  `TrackedUntilRemoved` leaves such runs out (`untracked`).
* **The discovery state is written in place**: a crash in the middle leaves a file the next run
  cannot read, and it starts without a record. What a partial crawl found is replayed for as
  long as a complete one; sightings of a dry or canceled run are not recorded; an option that
  excludes an entry lets it be withdrawn although upstream has it.
* **A stalled body** holds its call, the stripe and the pool for ever (`fetch.go:362`).

## What is not modelled

* Classification of request paths, parsing of metadata, listings, OpenPGP and configuration,
  filters, trace files, logging, the command line and service registration: pure functions or
  pure I/O without interleavings.
* `handleGeneric` and the failure cache: a generic file is one entry that is fetched,
  revalidated and expired under the same locks as a repository, so its races are those
  `MirrorCache` shows for entry points, but for its expiry inside a tree that has become a
  repository (`crawl_loop.go:616`); it comes next in the plan.
* A failing `Save` and a crash of the server: the registry after a crash lags behind the trees.
  `Left` in `MirrorCache` covers a clean stop only.
* In the synchronizations: dry runs (but for `Discovery`), delta packages and the `verify`
  command. They take a download as a step; that it installs whole files is what `FileFetch` is
  about. `MirrorCache` sums the whole of a synchronization up in one step.
* In `Discovery`: the `--flat` layout, and two upstreams that map to one directory, such as a
  repository that becomes a file of the same name.
* Errors of removing a staged copy (`fetch.go:256`, `arch.go:65-69`, `deb.go:56-60`), which the
  code ignores.
* The count of a missing file beyond its budget: `missing.go:169` counts on, the models stop at
  `Retries`, where every comparison the code makes with it has its final outcome.
* A mirror list with mirrors that lag, in `RpmSync`, `DebSync` and `ArchSync`: upstream only
  moves on there. `FileFetch` has such mirrors.

## Plan

In this order; each new module comes with an instance, its properties and a mutant for each.

1. Done: `KeyedMutex`, `LockTable`, `CrawlDispatch`, `Schedule`, `MirrorCache`, `DestLock`,
   `Publication`, `RpmSync`, `FileFetch`, `FetchPool`, `DebSync`, `ArchSync`, `Discovery`, and
   proofs about each of them but `Schedule`, whose operators `MirrorCache` evaluates.
2. `GenericCache`: generic files and the failure cache, with the tree of a repository around
   them.

The number of runs is kept small: an instance with several properties rather than a run for
each.

## Running the checks

    tlc -workers 2 -config CrawlSafety.cfg MCCrawlDispatch
    tlapm CrawlDispatchProofs.tla     # likewise every module *Proofs

`PROJECT.json` lists every run with its module, configuration and properties, and for each
property a mutant of the code's model that violates it.
