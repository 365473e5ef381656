------------------------------ MODULE Discovery ------------------------------
(***************************************************************************)
(* Sync runs that discover their repositories (mirror/sync.go              *)
(* discoverTargets, discover.go, discover_cache.go): the crawl of directory*)
(* listings below each base URL, the record of what crawls found, which is *)
(* replayed while it is young, the withdrawal of what upstream dropped, and*)
(* the synchronization of what is left.  Upstream may change between any   *)
(* two listings, listings may fail, and a run may be canceled or die       *)
(* between any two steps.                                                  *)
(*                                                                         *)
(* Entries are the directories and files upstream ever has, each below its *)
(* parent.  A local copy of an entry is there or it is not.  The patterns  *)
(* of exclude and include_files, the depth and the accepted formats are    *)
(* one profile: the set of entries it leaves out, wherever the crawl       *)
(* starts.  The layout is the one that maps every entry to a directory or  *)
(* a file of its own below the destination.  Repositories and files are    *)
(* kept in two lists, so what is one and the other in turn is two entries. *)
(***************************************************************************)
EXTENDS Integers, Sequences, FiniteSets

CONSTANTS
    Entry,
    Top,           \* the directory all entries are below
    Parent,        \* Parent[e]: the directory e is in
    Urls,          \* the base URLs of a run, in order: Top or entries
    Last,          \* upstream has the trees 1..Last, one after another
    Kind,          \* Kind[g][e]: "none", "dir", "repo" or "file"
    Depth,         \* discover_depth
    Options,       \* the options of a run: what its profile leaves out,
                   \* whether it prunes, whether it is a dry run
    TTL,           \* discover_cache
    Grace,         \* prune_grace
    MaxTime        \* bound of the clock

Gen == 1..Last
Base == {Urls[i] : i \in 1..Len(Urls)}

ASSUME DiscoveryAssumption ==
    /\ Top \notin Entry
    /\ Parent \in [Entry -> Entry \cup {Top}]
    /\ Urls \in Seq(Entry \cup {Top})
    /\ \A i, j \in 1..Len(Urls) : Urls[i] = Urls[j] => i = j
    /\ Last \in Nat \ {0}
    /\ Kind \in [Gen -> [Entry -> {"none", "dir", "repo", "file"}]]
    /\ \A e \in Entry, g, h \in Gen : Kind[g][e] = "repo" => Kind[h][e] # "file"
    /\ Options \subseteq [leaves : SUBSET Entry, prune : BOOLEAN, dry : BOOLEAN]
    /\ Options # {}
    /\ Depth \in Nat /\ TTL \in Nat /\ Grace \in Nat /\ MaxTime \in Nat

VARIABLES
    up,       \* the tree upstream has
    now,      \* the clock
    saved,    \* the discovery state on disk: what is known per base URL
    cache,    \* the copy the run at work holds
    have,     \* entries with a local copy
    run,      \* the run at work
    seen,     \* seen[b][e]: when a recorded crawl of b last found e
    untracked \* whether a removal failed, or the record was lost or could not
              \* be written

vars == <<up, now, saved, cache, have, run, seen, untracked>>

Never == -1
Unknown == -2      \* not in the record
Current == -1      \* in the record, and not marked gone

\* crawlRecord: the entries carry the time they were first missed at.
Record == [at : {Never} \cup 0..MaxTime, options : SUBSET Entry,
           known : [Entry -> {Unknown, Current} \cup 0..MaxTime]]

NoRecord == [at |-> Never, options |-> {},
             known |-> [e \in Entry |-> Unknown]]

Idle == [pc |-> "idle", time |-> 0, opts |-> CHOOSE o \in Options : TRUE, bases |-> <<>>, base |-> {},
         queue |-> {}, found |-> {}, failed |-> FALSE, since |-> 0, evict |-> {}, targets |-> {},
         sighted |-> {}]

RunState ==
    [pc : {"idle", "bases", "scan", "evict", "sync"},
     time : 0..MaxTime, opts : Options,
     bases : Seq(Base), base : SUBSET Base,
     queue : SUBSET ((Entry \cup {Top}) \X (0..Depth)),
     found : SUBSET Entry, failed : BOOLEAN, since : 0..Last,
     evict : SUBSET Entry, targets : SUBSET Entry,
     sighted : SUBSET (Base \X Entry)]

TypeOK ==
    /\ up \in Gen /\ now \in 0..MaxTime
    /\ saved \in [Base -> Record] /\ cache \in [Base -> Record]
    /\ have \in SUBSET Entry
    /\ run \in RunState
    /\ seen \in [Base -> [Entry -> {Never} \cup 0..MaxTime]]
    /\ untracked \in BOOLEAN

Init ==
    /\ up = 1 /\ now = 0
    /\ saved = [b \in Base |-> NoRecord] /\ cache = saved
    /\ have = {}
    /\ run = Idle
    /\ seen = [b \in Base |-> [e \in Entry |-> Never]]
    /\ untracked = FALSE

-----------------------------------------------------------------------------
\* loadDiscoverCache.  The run's time is the one it began at.
Begin ==
    /\ run.pc = "idle"
    /\ \E o \in Options :
          run' = [Idle EXCEPT !.pc = "bases", !.time = now, !.opts = o, !.bases = Urls]
    /\ cache' = saved
    /\ UNCHANGED <<up, now, saved, have, seen, untracked>>

Replay(b) == {e \in Entry : cache[b].known[e] = Current}

\* reuse: a young crawl with the same options.
Young(b) ==
    /\ TTL > 0 /\ cache[b].at # Never
    /\ cache[b].options = run.opts.leaves
    /\ run.time - cache[b].at < TTL

Turn(b) == run.pc = "bases" /\ run.bases # <<>> /\ b = Head(run.bases)

Reuse(b) ==
    /\ Turn(b) /\ Young(b)
    /\ run' = [run EXCEPT !.bases = Tail(@), !.targets = @ \cup Replay(b)]
    /\ UNCHANGED <<up, now, saved, cache, have, seen, untracked>>

Scan(b) ==
    /\ Turn(b) /\ ~Young(b)
    /\ run' = [run EXCEPT !.pc = "scan", !.bases = Tail(@), !.base = {b},
                          !.queue = {<<b, 0>>}, !.found = {}, !.failed = FALSE, !.since = up]
    /\ UNCHANGED <<up, now, saved, cache, have, seen, untracked>>

-----------------------------------------------------------------------------
(* discoverRepos *)
KindNow(n) == IF n = Top THEN "dir" ELSE Kind[up][n]

\* The entries of a listing that the options leave in.
Children(n) == {e \in Entry : Parent[e] = n /\ KindNow(e) # "none" /\ e \notin run.opts.leaves}

Files(n) == {e \in Children(n) : KindNow(e) = "file"}

\* A directory with repository metadata is taken as a whole; from any other
\* one the files are collected and the directories queued.
List(n, depth) ==
    /\ run.pc = "scan" /\ <<n, depth>> \in run.queue
    /\ KindNow(n) \in {"dir", "repo"}
    /\ run' = [run EXCEPT
         !.queue = (@ \ {<<n, depth>>}) \cup
                   (IF KindNow(n) = "repo" \/ depth >= Depth THEN {}
                    ELSE (Children(n) \ Files(n)) \X {depth + 1}),
         !.found = @ \cup (IF KindNow(n) = "repo" THEN {n} ELSE Files(n))]
    /\ UNCHANGED <<up, now, saved, cache, have, seen, untracked>>

\* Mutant: a directory that cannot be listed is taken for an empty one.
ListNothing(n, depth) ==
    /\ run.pc = "scan" /\ <<n, depth>> \in run.queue
    /\ run' = [run EXCEPT !.queue = @ \ {<<n, depth>>}]
    /\ UNCHANGED <<up, now, saved, cache, have, seen, untracked>>

ListFails(n, depth) ==
    /\ run.pc = "scan" /\ <<n, depth>> \in run.queue
    /\ run' = [run EXCEPT !.queue = @ \ {<<n, depth>>}, !.failed = TRUE]
    /\ UNCHANGED <<up, now, saved, cache, have, seen, untracked>>

-----------------------------------------------------------------------------
(* update *)
\* Mutant: the record carries the end of the grace period.
GoneUntil(b, e) == IF cache[b].known[e] = Current THEN run.time + Grace ELSE cache[b].known[e]

\* When e was first missed, if this crawl misses it.
GoneSince(b, e) == IF cache[b].known[e] = Current THEN run.time ELSE cache[b].known[e]

\* Upstream dropped e for good, and pruning is on.
Withdrawn(b, e) ==
    /\ cache[b].known[e] # Unknown /\ e \notin run.found /\ ~run.failed
    /\ run.opts.prune /\ run.time - GoneSince(b, e) >= Grace

\* Mutant: without pruning a record is dropped all the same.
KnownPruned(b, e) ==
    IF e \in run.found THEN Current
    ELSE IF cache[b].known[e] = Unknown \/ run.failed THEN cache[b].known[e]
    ELSE IF run.time - GoneSince(b, e) >= Grace THEN Unknown
    ELSE GoneSince(b, e)

\* Mutant: an entry that is found again keeps its mark.
KnownStill(b, e) ==
    IF e \in run.found /\ cache[b].known[e] = Unknown THEN Current
    ELSE IF cache[b].known[e] = Unknown \/ run.failed THEN cache[b].known[e]
    ELSE IF Withdrawn(b, e) THEN Unknown
    ELSE IF e \in run.found THEN cache[b].known[e] ELSE GoneSince(b, e)

Known(b, e) ==
    IF e \in run.found THEN Current
    ELSE IF cache[b].known[e] = Unknown \/ run.failed THEN cache[b].known[e]
    ELSE IF Withdrawn(b, e) THEN Unknown
    ELSE GoneSince(b, e)

Update(b) ==
    /\ run.pc = "scan" /\ run.queue = {} /\ b \in run.base
    /\ cache' = [cache EXCEPT ![b] = [at |-> run.time, options |-> run.opts.leaves,
                                      known |-> [e \in Entry |-> Known(b, e)]]]
    /\ run' = [run EXCEPT !.pc = "evict", !.evict = {e \in Entry : Withdrawn(b, e)},
                          !.sighted = @ \cup {b} \X run.found]
    /\ UNCHANGED <<up, now, saved, have, seen, untracked>>

\* The entries below e in the tree; entries form three levels at most.
Below(e) == {d \in Entry : Parent[d] = e \/ Parent[d] \in {c \in Entry : Parent[c] = e}}

\* evictDiscovered: a directory goes with everything in it, and a removal that
\* fails is only logged.
Evict(e) ==
    /\ run.pc = "evict" /\ e \in run.evict
    /\ IF run.opts.dry THEN UNCHANGED <<have, untracked>>
       ELSE \/ have' = have \ ({e} \cup Below(e)) /\ untracked' = untracked
            \/ have' = have /\ untracked' = TRUE
    /\ run' = [run EXCEPT !.evict = @ \ {e}]
    /\ UNCHANGED <<up, now, saved, cache, seen>>

\* discoverTargets: on to the next base.
BaseDone ==
    /\ run.pc = "evict" /\ run.evict = {}
    /\ run' = [run EXCEPT !.pc = "bases", !.base = {}, !.queue = {}, !.since = 0,
                          !.found = {}, !.failed = FALSE, !.targets = @ \cup run.found]
    /\ UNCHANGED <<up, now, saved, cache, have, seen, untracked>>

\* save: only here does what the crawls found become known to later runs, and
\* where it fails the run goes on all the same.
Save ==
    /\ run.pc = "bases" /\ run.bases = <<>>
    /\ IF run.opts.dry THEN UNCHANGED <<saved, seen, untracked>>
       ELSE \/ /\ saved' = cache /\ untracked' = untracked
               /\ seen' = [b \in Base |-> [e \in Entry |->
                     IF <<b, e>> \in run.sighted THEN run.time ELSE seen[b][e]]]
            \/ UNCHANGED <<saved, seen>> /\ untracked' = TRUE
    /\ run' = [run EXCEPT !.pc = "sync", !.sighted = {},
                          !.targets = IF run.opts.dry THEN {} ELSE @]
    /\ cache' = [b \in Base |-> NoRecord]
    /\ UNCHANGED <<up, now, have>>

-----------------------------------------------------------------------------
\* syncOne and syncFiles
SyncTarget(e) ==
    /\ run.pc = "sync" /\ e \in run.targets
    /\ Kind[up][e] \in {"repo", "file"}
    /\ have' = have \cup {e}
    /\ run' = [run EXCEPT !.targets = @ \ {e}]
    /\ UNCHANGED <<up, now, saved, cache, seen, untracked>>

SyncFails(e) ==
    /\ run.pc = "sync" /\ e \in run.targets
    /\ run' = [run EXCEPT !.targets = @ \ {e}]
    /\ UNCHANGED <<up, now, saved, cache, have, seen, untracked>>

Done ==
    /\ run.pc = "sync" /\ run.targets = {}
    /\ run' = Idle
    /\ UNCHANGED <<up, now, saved, cache, have, seen, untracked>>

\* Canceled or dead: memory goes.  While the state is being written, it may be
\* left unreadable, and is taken for empty from then on.
Stop ==
    /\ run.pc # "idle"
    /\ run' = Idle /\ cache' = [b \in Base |-> NoRecord]
    /\ \/ UNCHANGED <<saved, untracked>>
       \/ /\ run.pc = "bases" /\ run.bases = <<>> /\ ~run.opts.dry
          /\ saved' = [b \in Base |-> NoRecord] /\ untracked' = TRUE
    /\ UNCHANGED <<up, now, have, seen>>

Change ==
    /\ up < Last /\ up' = up + 1
    /\ UNCHANGED <<now, saved, cache, have, run, seen, untracked>>

\* A run reads the clock once, so that it may stand still meanwhile.
Tick ==
    /\ run.pc = "idle"
    /\ now < MaxTime /\ now' = now + 1
    /\ UNCHANGED <<up, saved, cache, have, run, seen, untracked>>

Discover ==
    \/ Begin
    \/ \E b \in Base : Reuse(b) \/ Scan(b) \/ Update(b)
    \/ \E n \in Entry \cup {Top}, depth \in 0..Depth : List(n, depth) \/ ListFails(n, depth)
    \/ \E e \in Entry : Evict(e)
    \/ BaseDone \/ Save

Sync == (\E e \in Entry : SyncTarget(e) \/ SyncFails(e)) \/ Done

Next == Discover \/ Sync \/ Stop \/ Change \/ Tick

Spec == Init /\ [][Next]_vars
-----------------------------------------------------------------------------
(* Properties. *)

\* Nothing is withdrawn but after a crawl that listed everything and did not find
\* it, a grace period or more after the last recorded crawl that did, through
\* failing listings, replays, dry runs, cancellations and changed options
\* (discover_cache.go "A scan that could not list part of the tree is not
\* evidence that anything went away", "waits out the same grace period").
WithdrawnAfterGrace ==
    [][\A b \in Base, e \in Entry :
          run.pc = "scan" /\ run'.pc = "evict" /\ b \in run.base /\ e \in run'.evict
            => /\ ~run.failed /\ e \notin run.found /\ run.opts.prune
               /\ seen[b][e] # Never /\ run.time - seen[b][e] >= Grace]_vars

\* What has a local copy is in the record of some base, from before it is
\* fetched until it is removed, so that a later run can still withdraw it
\* (discover_cache.go "A withdrawal is only forgotten once the local copy goes
\* with it"), unless the removal failed or the record was lost.
TrackedUntilRemoved ==
    ~untracked => \A e \in have : \E b \in Base : saved[b].known[e] # Unknown

\* Above[k][e]: the directory k levels above e.
Above[k \in 0..Depth + 1] ==
    IF k = 0 THEN [e \in Entry |-> e]
    ELSE [e \in Entry |-> LET d == Above[k - 1][e] IN IF d = Top THEN Top ELSE Parent[d]]

\* A repository or file that a crawl of b is to find.
ToBeFound(b, e) ==
    \E k \in 0..Depth + 1 :
        /\ (KindNow(e) = "repo" /\ k <= Depth) \/ (KindNow(e) = "file" /\ k > 0)
        /\ Above[k][e] = b
        /\ \A j \in 0..k : j < k => Above[j][e] # Top /\ Above[j][e] \notin run.opts.leaves
        /\ \A j \in 1..k : KindNow(Above[j][e]) = "dir"

\* A crawl during which upstream did not change and no listing failed found
\* exactly the repositories and files within its depth that are not left out,
\* nor below what is left out, nor inside a repository.
CleanScanExact ==
    \A b \in run.base :
        run.pc = "scan" /\ run.queue = {} /\ ~run.failed /\ run.since = up
          => run.found = {e \in Entry : ToBeFound(b, e)}

=============================================================================
