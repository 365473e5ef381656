--------------------------- MODULE DiscoveryProofs ---------------------------
(***************************************************************************)
(* Proofs about Discovery for every tree, every list of base URLs without  *)
(* repetition and every choice of options, discover_cache and prune_grace: *)
(* the record a run holds and the one on disk account for every local copy,*)
(* no entry is withdrawn before its grace period, and a crawl that nothing *)
(* disturbed found all there is to find.  The first two need to know what  *)
(* the run at work has still to do: which bases are to come, what it has   *)
(* sighted and not yet saved, what it has still to remove.  The last needs *)
(* to know how what it has not found hangs below what it has queued.       *)
(***************************************************************************)
EXTENDS Discovery, SequenceTheorems, FiniteSetTheorems, TLAPS

Discovering == run.pc \in {"bases", "scan", "evict"}

\* The bases the run has still to turn to.
Coming == {run.bases[i] : i \in 1..Len(run.bases)}

\* Where the run is.
RunInv ==
    /\ run.pc # "idle" => run.time = now
    /\ run.pc # "evict" => run.evict = {}
    /\ run.pc \in {"scan", "evict"} => run.base # {}
    /\ run.pc \in {"idle", "bases", "sync"} => run.base = {}
    /\ ~Discovering => run.sighted = {}
    /\ \A b, c \in run.base : b = c

\* No base is turned to twice.
BasesInv ==
    /\ \A i, j \in 1..Len(run.bases) : run.bases[i] = run.bases[j] => i = j
    /\ run.base \cap Coming = {}

\* Whoever is on record was seen, and not after it was first missed.
Attested(record, b, e) ==
    record[b].known[e] # Unknown =>
        /\ seen[b][e] # Never
        /\ record[b].known[e] # Current => seen[b][e] <= record[b].known[e]

SeenInv ==
    /\ \A b \in Base, e \in Entry : seen[b][e] <= now /\ Attested(saved, b, e)
    /\ Discovering => \A b \in Base, e \in Entry : <<b, e>> \in run.sighted \/ Attested(cache, b, e)

\* What this run has sighted is on its record, and not to be sought again.
SightedInv ==
    \A b \in Base, e \in Entry : <<b, e>> \in run.sighted =>
        /\ cache[b].known[e] = Current /\ b \notin Coming
        /\ run.pc = "scan" => b \notin run.base

\* Local copies are on the record the run holds, or to be removed.
PendingInv ==
    Discovering /\ ~untracked /\ ~run.opts.dry =>
        \A e \in have : e \in run.evict \/ \E b \in Base : cache[b].known[e] # Unknown

\* What is to be synchronized is on record.
TargetsInv ==
    /\ Discovering => \A e \in run.targets :
          \E b \in Base \ run.base : b \notin Coming /\ cache[b].known[e] # Unknown
    /\ run.pc = "evict" => \A e \in run.found, b \in run.base : cache[b].known[e] # Unknown
    /\ run.pc = "sync" /\ ~untracked => \A e \in run.targets : \E b \in Base : saved[b].known[e] # Unknown

Core ==
    /\ RunInv /\ BasesInv /\ SeenInv /\ SightedInv /\ PendingInv /\ TargetsInv
    /\ TrackedUntilRemoved

RecordInv == TypeOK /\ Core
-----------------------------------------------------------------------------
(* The bases to come are those of a shorter and shorter list. *)
LEMMA TailOfBases ==
    ASSUME NEW s \in Seq(Base), s # <<>>
    PROVE  /\ Tail(s) \in Seq(Base)
           /\ Head(s) = s[1] /\ Head(s) \in Base
           /\ Len(s) \in Nat \ {0} /\ Len(Tail(s)) = Len(s) - 1
           /\ \A i \in 1..Len(Tail(s)) : Tail(s)[i] = s[i + 1]
BY HeadTailProperties

LEMMA UrlsAreBases == Urls \in Seq(Base)
<1>1. Len(Urls) \in Nat /\ Urls \in [1..Len(Urls) -> Entry \cup {Top}]
    BY LenProperties, DiscoveryAssumption
<1>2. Urls \in [1..Len(Urls) -> Base]
    BY <1>1 DEF Base
<1>. QED
    BY <1>1, <1>2, SeqDef

LEMMA BaseInTree == Base \subseteq Entry \cup {Top}
<1>1. Urls \in [1..Len(Urls) -> Entry \cup {Top}]
    BY LenProperties, DiscoveryAssumption
<1>. QED
    BY <1>1 DEF Base

LEMMA IdleType == Idle \in RunState
<1>1. (CHOOSE o \in Options : TRUE) \in Options
    BY DiscoveryAssumption
<1>. QED
    BY <1>1, DiscoveryAssumption, EmptySeq DEF Idle, RunState

LEMMA NoRecordType == NoRecord \in Record
BY DEF NoRecord, Record, Never, Unknown

LEMMA TypeOKInit == Init => TypeOK
<1>1. 1 \in Gen /\ 0 \in 0..MaxTime
    BY DiscoveryAssumption DEF Gen
<1>. SUFFICES ASSUME Init PROVE TypeOK
    OBVIOUS
<1>2. saved \in [Base -> Record] /\ cache \in [Base -> Record]
    BY NoRecordType DEF Init
<1>3. seen \in [Base -> [Entry -> {Never} \cup 0..MaxTime]]
    BY DEF Init
<1>. QED
    BY <1>1, <1>2, <1>3, IdleType DEF Init, TypeOK

(* What the crawl of a base makes of its record. *)
LEMMA KnownType ==
    ASSUME TypeOK, NEW b \in Base, NEW e \in Entry
    PROVE  Known(b, e) \in {Unknown, Current} \cup 0..MaxTime
BY DEF TypeOK, Known, GoneSince, RunState, Record

LEMMA TypeOKStep == TypeOK /\ [Next]_vars => TypeOK'
<1>. SUFFICES ASSUME TypeOK, [Next]_vars PROVE TypeOK'
    OBVIOUS
<1>. USE DEF TypeOK
<1>1. CASE Begin
  <2>1. PICK o \in Options :
           run' = [Idle EXCEPT !.pc = "bases", !.time = now, !.opts = o, !.bases = Urls]
      BY <1>1 DEF Begin
  <2>2. run' \in RunState
      BY <2>1, IdleType, UrlsAreBases DEF RunState
  <2>. QED
      BY <1>1, <2>2 DEF Begin
<1>2. ASSUME NEW b \in Base, Reuse(b) PROVE TypeOK'
  <2>1. run' \in RunState
      BY <1>2, TailOfBases DEF Reuse, Turn, Replay, RunState
  <2>. QED
      BY <1>2, <2>1 DEF Reuse
<1>3. ASSUME NEW b \in Base, Scan(b) PROVE TypeOK'
  <2>1. <<b, 0>> \in (Entry \cup {Top}) \X (0..Depth) /\ up \in 0..Last
      BY BaseInTree, DiscoveryAssumption DEF Gen
  <2>2. run.bases \in Seq(Base) /\ run.bases # <<>> /\ Tail(run.bases) \in Seq(Base)
      BY <1>3, TailOfBases DEF Scan, Turn, RunState
  <2>3. run' \in RunState
      BY <1>3, <2>1, <2>2 DEF Scan, RunState
  <2>. QED
      BY <1>3, <2>3 DEF Scan
<1>4. ASSUME NEW n \in Entry \cup {Top}, NEW depth \in 0..Depth, List(n, depth) PROVE TypeOK'
  <2>1. (Children(n) \ Files(n)) \subseteq Entry /\ Files(n) \subseteq Entry
      BY DEF Children, Files
  <2>2. depth >= Depth \/ depth + 1 \in 0..Depth
      BY DiscoveryAssumption
  <2>3. n = Top \/ n \in Entry
      OBVIOUS
  <2>4. KindNow(n) = "repo" => n \in Entry
      BY <2>3 DEF KindNow
  <2>5. run'.queue \subseteq (Entry \cup {Top}) \X (0..Depth)
      BY <1>4, <2>1, <2>2 DEF List, RunState
  <2>6. run'.found \subseteq Entry
      BY <1>4, <2>1, <2>4 DEF List, RunState
  <2>7. run' = [run EXCEPT !.queue = run'.queue, !.found = run'.found]
      BY <1>4 DEF List, RunState
  <2>8. run' \in RunState
      BY <2>5, <2>6, <2>7 DEF RunState
  <2>. QED
      BY <1>4, <2>8 DEF List
<1>5. ASSUME NEW n \in Entry \cup {Top}, NEW depth \in 0..Depth, ListFails(n, depth) PROVE TypeOK'
  <2>1. run' \in RunState
      BY <1>5 DEF ListFails, RunState
  <2>. QED
      BY <1>5, <2>1 DEF ListFails
<1>6. ASSUME NEW b \in Base, Update(b) PROVE TypeOK'
  <2>1. [at |-> run.time, options |-> run.opts.leaves,
         known |-> [e \in Entry |-> Known(b, e)]] \in Record
      BY KnownType, DiscoveryAssumption DEF RunState, Record
  <2>2. cache' \in [Base -> Record]
      BY <1>6, <2>1 DEF Update
  <2>3. run' \in RunState
      BY <1>6 DEF Update, RunState
  <2>. QED
      BY <1>6, <2>2, <2>3 DEF Update
<1>7. ASSUME NEW e \in Entry, Evict(e) PROVE TypeOK'
  <2>1. run' \in RunState
      BY <1>7 DEF Evict, RunState
  <2>2. have' \in SUBSET Entry /\ untracked' \in BOOLEAN
      BY <1>7 DEF Evict
  <2>. QED
      BY <1>7, <2>1, <2>2 DEF Evict
<1>8. CASE BaseDone
  <2>1. 0 \in 0..Last
      BY DiscoveryAssumption
  <2>2. run' \in RunState
      BY <1>8, <2>1 DEF BaseDone, RunState
  <2>. QED
      BY <1>8, <2>2 DEF BaseDone
<1>9. CASE Save
  <2>1. run' \in RunState
      BY <1>9 DEF Save, RunState
  <2>2. run.time \in 0..MaxTime
      BY DEF RunState
  <2>3. seen' \in [Base -> [Entry -> {Never} \cup 0..MaxTime]]
    <3>1. CASE UNCHANGED seen
        BY <3>1
    <3>2. CASE seen' = [b \in Base |-> [e \in Entry |->
                           IF <<b, e>> \in run.sighted THEN run.time ELSE seen[b][e]]]
        BY <2>2, <3>2
    <3>. QED
        BY <1>9, <3>1, <3>2 DEF Save
  <2>4. saved' \in [Base -> Record] /\ cache' \in [Base -> Record] /\ untracked' \in BOOLEAN
      BY <1>9, NoRecordType DEF Save
  <2>. QED
      BY <1>9, <2>1, <2>3, <2>4 DEF Save
<1>10. ASSUME NEW e \in Entry, SyncTarget(e) \/ SyncFails(e) PROVE TypeOK'
  <2>1. run' = [run EXCEPT !.targets = @ \ {e}]
      BY <1>10 DEF SyncTarget, SyncFails
  <2>2. run' \in RunState
      BY <2>1 DEF RunState
  <2>3. have' \in SUBSET Entry
      BY <1>10 DEF SyncTarget, SyncFails
  <2>. QED
      BY <1>10, <2>2, <2>3 DEF SyncTarget, SyncFails
<1>11. CASE Done
    BY <1>11, IdleType DEF Done
<1>12. CASE Stop
    BY <1>12, IdleType, NoRecordType DEF Stop
<1>13. CASE Change
    BY <1>13, DiscoveryAssumption DEF Change, Gen
<1>14. CASE Tick
    BY <1>14, DiscoveryAssumption DEF Tick
<1>15. CASE UNCHANGED vars
    BY <1>15 DEF vars
<1>. QED
    BY <1>1, <1>2, <1>3, <1>4, <1>5, <1>6, <1>7, <1>8, <1>9, <1>10, <1>11, <1>12, <1>13,
       <1>14, <1>15 DEF Next, Discover, Sync

(* Type correctness (Discovery!TypeOK) for every value of the constants. *)
THEOREM DiscoveryTypeOK == Spec => []TypeOK
BY TypeOKInit, TypeOKStep, PTL DEF Spec
-----------------------------------------------------------------------------
(* Listings, and changes of upstream, leave alone what the invariant is about. *)
LEMMA FrameKeeps ==
    ASSUME TypeOK, Core,
           UNCHANGED <<now, saved, cache, have, seen, untracked>>,
           run'.pc = run.pc, run'.time = run.time, run'.opts = run.opts,
           run'.bases = run.bases, run'.base = run.base, run'.evict = run.evict,
           run'.targets = run.targets, run'.sighted = run.sighted,
           run.pc = "evict" => run'.found = run.found
    PROVE  Core'
<1>1. RunInv' /\ BasesInv'
    BY DEF Core, RunInv, BasesInv, Discovering, Coming
<1>2. SeenInv' /\ SightedInv'
    BY DEF Core, SeenInv, SightedInv, Attested, Discovering, Coming
<1>3. PendingInv' /\ TargetsInv' /\ TrackedUntilRemoved'
    BY DEF Core, PendingInv, TargetsInv, TrackedUntilRemoved, Discovering, Coming
<1>. QED
    BY <1>1, <1>2, <1>3 DEF Core

(* Once a run is over its memory does not matter. *)
LEMMA IdleKeeps ==
    ASSUME TypeOK, Core, run' = Idle,
           UNCHANGED <<now, have, seen>>,
           \/ UNCHANGED <<saved, untracked>>
           \/ saved' = [b \in Base |-> NoRecord] /\ untracked' = TRUE
    PROVE  Core'
<1>1. RunInv' /\ BasesInv'
    BY DEF RunInv, BasesInv, Discovering, Coming, Idle
<1>2. SeenInv' /\ SightedInv'
    BY DEF Core, SeenInv, SightedInv, Attested, Discovering, Idle, NoRecord
<1>3. PendingInv' /\ TargetsInv' /\ TrackedUntilRemoved'
    BY DEF Core, PendingInv, TargetsInv, TrackedUntilRemoved, Discovering, Idle
<1>. QED
    BY <1>1, <1>2, <1>3 DEF Core

LEMMA CoreInit == Init => Core
<1>. SUFFICES ASSUME Init PROVE Core
    OBVIOUS
<1>1. RunInv /\ BasesInv
    BY DEF Init, Idle, RunInv, BasesInv, Discovering, Coming
<1>2. SeenInv /\ SightedInv
    BY DEF Init, Idle, NoRecord, SeenInv, SightedInv, Attested, Discovering, Never
<1>3. PendingInv /\ TargetsInv /\ TrackedUntilRemoved
    BY DEF Init, Idle, PendingInv, TargetsInv, TrackedUntilRemoved, Discovering
<1>. QED
    BY <1>1, <1>2, <1>3 DEF Core

LEMMA BeginKeeps ==
    ASSUME TypeOK, Core, Begin
    PROVE  Core'
<1>1. PICK o \in Options :
         run' = [Idle EXCEPT !.pc = "bases", !.time = now, !.opts = o, !.bases = Urls]
    BY DEF Begin
<1>2. /\ run'.pc = "bases" /\ run'.time = now /\ run'.bases = Urls
      /\ run'.base = {} /\ run'.evict = {} /\ run'.targets = {} /\ run'.sighted = {}
    BY <1>1 DEF Idle
<1>3. cache' = saved /\ UNCHANGED <<now, saved, have, seen, untracked>>
    BY DEF Begin
<1>4. RunInv' /\ BasesInv'
    BY <1>2, <1>3, DiscoveryAssumption DEF RunInv, BasesInv, Discovering, Coming
<1>5. SeenInv' /\ SightedInv'
    BY <1>2, <1>3 DEF Core, SeenInv, SightedInv, Attested
<1>6. PendingInv' /\ TargetsInv' /\ TrackedUntilRemoved'
    BY <1>2, <1>3 DEF Core, PendingInv, TargetsInv, TrackedUntilRemoved
<1>. QED
    BY <1>4, <1>5, <1>6 DEF Core

(* Turning to the next base shortens the list of those to come. *)
LEMMA TurnFacts ==
    ASSUME TypeOK, Core, NEW b \in Base, Turn(b), run'.bases = Tail(run.bases)
    PROVE  /\ b \in Coming /\ Coming' \subseteq Coming /\ b \notin Coming'
           /\ \A i, j \in 1..Len(run'.bases) : run'.bases[i] = run'.bases[j] => i = j
<1>1. run.bases \in Seq(Base) /\ run.bases # <<>> /\ b = run.bases[1]
    BY TailOfBases DEF TypeOK, RunState, Turn
<1>2. /\ Len(run.bases) \in Nat \ {0} /\ Len(run'.bases) = Len(run.bases) - 1
      /\ \A i \in 1..Len(run'.bases) : run'.bases[i] = run.bases[i + 1]
    BY <1>1, TailOfBases
<1>3. \A i, j \in 1..Len(run.bases) : run.bases[i] = run.bases[j] => i = j
    BY DEF Core, BasesInv
<1>4. \A i \in 1..Len(run'.bases) : i + 1 \in 1..Len(run.bases) /\ i + 1 # 1
    BY <1>2
<1>5. 1 \in 1..Len(run.bases)
    BY <1>2
<1>6. b \in Coming
    BY <1>1, <1>5 DEF Coming
<1>7. Coming' \subseteq Coming
    BY <1>2, <1>4 DEF Coming
<1>8. b \notin Coming'
    BY <1>1, <1>2, <1>3, <1>4, <1>5 DEF Coming
<1>9. \A i, j \in 1..Len(run'.bases) : run'.bases[i] = run'.bases[j] => i = j
  <2>. TAKE i, j \in 1..Len(run'.bases)
  <2>. HAVE run'.bases[i] = run'.bases[j]
  <2>1. i + 1 = j + 1
      BY <1>2, <1>3, <1>4
  <2>. QED
      BY <2>1
<1>. QED
    BY <1>6, <1>7, <1>8, <1>9

LEMMA ReuseKeeps ==
    ASSUME TypeOK, Core, NEW b \in Base, Reuse(b)
    PROVE  Core'
<1>1. /\ run.pc = "bases" /\ run'.pc = "bases" /\ run'.time = run.time /\ run'.opts = run.opts
      /\ run'.bases = Tail(run.bases) /\ run'.base = run.base /\ run'.evict = run.evict
      /\ run'.targets = run.targets \cup Replay(b) /\ run'.sighted = run.sighted
    BY DEF Reuse, Turn, TypeOK, RunState
<1>2. UNCHANGED <<now, saved, cache, have, seen, untracked>>
    BY DEF Reuse
<1>3. /\ b \in Coming /\ Coming' \subseteq Coming /\ b \notin Coming'
      /\ \A i, j \in 1..Len(run'.bases) : run'.bases[i] = run'.bases[j] => i = j
    BY <1>1, TurnFacts DEF Reuse
<1>4. RunInv' /\ BasesInv'
    BY <1>1, <1>2, <1>3 DEF Core, RunInv, BasesInv, Discovering
<1>5. SeenInv' /\ SightedInv'
    BY <1>1, <1>2, <1>3 DEF Core, SeenInv, SightedInv, Attested, Discovering
<1>6. PendingInv' /\ TrackedUntilRemoved'
    BY <1>1, <1>2 DEF Core, PendingInv, TrackedUntilRemoved, Discovering
<1>7. TargetsInv'
  <2>1. run.base = {}
      BY <1>1 DEF Core, RunInv
  <2>2. \A e \in Replay(b) : cache[b].known[e] # Unknown
      BY DEF Replay, Unknown, Current
  <2>. QED
      BY <1>1, <1>2, <1>3, <2>1, <2>2 DEF Core, TargetsInv, Discovering
<1>. QED
    BY <1>4, <1>5, <1>6, <1>7 DEF Core

LEMMA ScanKeeps ==
    ASSUME TypeOK, Core, NEW b \in Base, Scan(b)
    PROVE  Core'
<1>1. /\ run.pc = "bases" /\ run'.pc = "scan" /\ run'.time = run.time /\ run'.opts = run.opts
      /\ run'.bases = Tail(run.bases) /\ run'.base = {b} /\ run'.evict = run.evict
      /\ run'.targets = run.targets /\ run'.sighted = run.sighted
    BY DEF Scan, Turn, TypeOK, RunState
<1>2. UNCHANGED <<now, saved, cache, have, seen, untracked>>
    BY DEF Scan
<1>3. /\ b \in Coming /\ Coming' \subseteq Coming /\ b \notin Coming'
      /\ \A i, j \in 1..Len(run'.bases) : run'.bases[i] = run'.bases[j] => i = j
    BY <1>1, TurnFacts DEF Scan
<1>4. RunInv' /\ BasesInv'
    BY <1>1, <1>2, <1>3 DEF Core, RunInv, BasesInv, Discovering
<1>5. SeenInv' /\ SightedInv'
    BY <1>1, <1>2, <1>3 DEF Core, SeenInv, SightedInv, Attested, Discovering
<1>6. PendingInv' /\ TrackedUntilRemoved'
    BY <1>1, <1>2 DEF Core, PendingInv, TrackedUntilRemoved, Discovering
<1>7. TargetsInv'
    BY <1>1, <1>2, <1>3 DEF Core, TargetsInv, Discovering
<1>. QED
    BY <1>4, <1>5, <1>6, <1>7 DEF Core

(* What is found becomes current; the rest keeps its mark, or is marked now, *)
(* or is forgotten and removed.                                              *)
LEMMA KnownFacts ==
    ASSUME TypeOK, NEW b \in Base, NEW e \in Entry
    PROVE  /\ e \in run.found => Known(b, e) = Current
           /\ Known(b, e) = Unknown => cache[b].known[e] = Unknown \/ Withdrawn(b, e)
           /\ e \notin run.found /\ Known(b, e) # Unknown =>
                 /\ cache[b].known[e] # Unknown
                 /\ Known(b, e) \in {cache[b].known[e], run.time}
           /\ e \notin run.found /\ Known(b, e) # cache[b].known[e] /\ Known(b, e) # Unknown
                 => cache[b].known[e] = Current
<1>1. run.time \in 0..MaxTime /\ cache[b].known[e] \in {Unknown, Current} \cup 0..MaxTime
    BY DEF TypeOK, RunState, Record
<1>. QED
    BY <1>1 DEF Known, GoneSince, Unknown, Current

LEMMA UpdateKeeps ==
    ASSUME TypeOK, Core, NEW b \in Base, Update(b)
    PROVE  Core'
<1>1. /\ run.pc = "scan" /\ run'.pc = "evict" /\ run'.time = run.time /\ run'.opts = run.opts
      /\ run'.bases = run.bases /\ run'.base = run.base
      /\ run'.evict = {e \in Entry : Withdrawn(b, e)}
      /\ run'.targets = run.targets /\ run'.found = run.found
      /\ run'.sighted = run.sighted \cup ({b} \X run.found)
    BY DEF Update, TypeOK, RunState
<1>2. UNCHANGED <<now, saved, have, seen, untracked>> /\ b \in run.base
    BY DEF Update
<1>3. \A e \in Entry : cache'[b].known[e] = Known(b, e)
    BY DEF Update, TypeOK
<1>4. \A c \in Base : c # b => cache'[c] = cache[c]
    BY DEF Update, TypeOK
<1>5. RunInv' /\ BasesInv'
    BY <1>1, <1>2 DEF Core, RunInv, BasesInv, Discovering, Coming
<1>6. \A c \in run.base : c = b
    BY <1>2 DEF Core, RunInv
<1>7. SightedInv'
  <2>. SUFFICES ASSUME NEW c \in Base, NEW e \in Entry, <<c, e>> \in run'.sighted
                PROVE  cache'[c].known[e] = Current /\ c \notin Coming'
      BY <1>1 DEF SightedInv
  <2>1. CASE <<c, e>> \in run.sighted
      BY <1>1, <1>2, <1>4, <2>1 DEF Core, SightedInv, Coming
  <2>2. CASE c = b /\ e \in run.found
      BY <1>1, <1>2, <1>3, <2>2, KnownFacts DEF Core, BasesInv, Coming
  <2>. QED
      BY <1>1, <2>1, <2>2
<1>8. SeenInv'
  <2>1. \A c \in Base, e \in Entry : seen'[c][e] <= now' /\ Attested(saved, c, e)'
      BY <1>2 DEF Core, SeenInv, Attested
  <2>. SUFFICES ASSUME NEW c \in Base, NEW e \in Entry, <<c, e>> \notin run'.sighted
                PROVE  Attested(cache, c, e)'
      BY <2>1 DEF SeenInv
  <2>2. Attested(cache, c, e)
      BY <1>1 DEF Core, SeenInv, Discovering
  <2>3. CASE c # b
      BY <1>2, <1>4, <2>2, <2>3 DEF Attested
  <2>4. CASE c = b
    <3>1. e \notin run.found
        BY <1>1, <2>4
    <3>2. run.time = now /\ seen[b][e] <= now
        BY <1>1 DEF Core, RunInv, SeenInv
    <3>. QED
        BY <1>2, <1>3, <2>2, <2>4, <3>1, <3>2, KnownFacts DEF Attested
  <2>. QED
      BY <2>3, <2>4
<1>9. PendingInv'
  <2>. SUFFICES ASSUME ~untracked, ~run.opts.dry, NEW e \in have
                PROVE  e \in run'.evict \/ \E c \in Base : cache'[c].known[e] # Unknown
      BY <1>1, <1>2 DEF PendingInv
  <2>1. e \in Entry
      BY DEF TypeOK
  <2>2. run.evict = {}
      BY <1>1 DEF Core, RunInv
  <2>3. PICK c \in Base : cache[c].known[e] # Unknown
      BY <1>1, <2>2 DEF Core, PendingInv, Discovering
  <2>4. CASE c # b
      BY <1>4, <2>3, <2>4
  <2>5. CASE c = b
      BY <1>1, <1>3, <2>1, <2>3, <2>5, KnownFacts
  <2>. QED
      BY <2>4, <2>5
<1>10. TargetsInv'
  <2>1. \A e \in run'.targets : \E c \in Base \ run'.base : c \notin Coming' /\ cache'[c].known[e] # Unknown
      BY <1>1, <1>2, <1>4 DEF Core, TargetsInv, Discovering, Coming
  <2>2. \A e \in run'.found, c \in run'.base : cache'[c].known[e] # Unknown
    <3>. TAKE e \in run'.found, c \in run'.base
    <3>1. e \in Entry /\ c = b
        BY <1>1, <1>6 DEF TypeOK, RunState
    <3>2. Known(b, e) = Current
        BY <1>1, <3>1, KnownFacts
    <3>. QED
        BY <1>3, <3>1, <3>2 DEF Current, Unknown
  <2>. QED
      BY <1>1, <2>1, <2>2 DEF TargetsInv
<1>11. TrackedUntilRemoved'
    BY <1>2 DEF Core, TrackedUntilRemoved
<1>. QED
    BY <1>5, <1>7, <1>8, <1>9, <1>10, <1>11 DEF Core

LEMMA EvictKeeps ==
    ASSUME TypeOK, Core, NEW e \in Entry, Evict(e)
    PROVE  Core'
<1>1. /\ run.pc = "evict" /\ run'.pc = "evict" /\ run'.time = run.time /\ run'.opts = run.opts
      /\ run'.bases = run.bases /\ run'.base = run.base /\ run'.evict = run.evict \ {e}
      /\ run'.targets = run.targets /\ run'.found = run.found /\ run'.sighted = run.sighted
    BY DEF Evict, TypeOK, RunState
<1>2. UNCHANGED <<now, saved, cache, seen>>
    BY DEF Evict
<1>3. \/ run.opts.dry /\ UNCHANGED <<have, untracked>>
      \/ have' \subseteq have \ {e} /\ untracked' = untracked
      \/ have' = have /\ untracked'
    BY DEF Evict
<1>4. RunInv' /\ BasesInv'
    BY <1>1, <1>2 DEF Core, RunInv, BasesInv, Discovering, Coming
<1>5. SeenInv' /\ SightedInv'
    BY <1>1, <1>2 DEF Core, SeenInv, SightedInv, Attested, Discovering, Coming
<1>6. PendingInv'
    BY <1>1, <1>2, <1>3 DEF Core, PendingInv, Discovering
<1>7. TargetsInv' /\ TrackedUntilRemoved'
    BY <1>1, <1>2, <1>3 DEF Core, TargetsInv, TrackedUntilRemoved, Discovering, Coming
<1>. QED
    BY <1>4, <1>5, <1>6, <1>7 DEF Core

LEMMA BaseDoneKeeps ==
    ASSUME TypeOK, Core, BaseDone
    PROVE  Core'
<1>1. /\ run.pc = "evict" /\ run'.pc = "bases" /\ run'.time = run.time /\ run'.opts = run.opts
      /\ run'.bases = run.bases /\ run'.base = {} /\ run.evict = {} /\ run'.evict = {}
      /\ run'.targets = run.targets \cup run.found /\ run'.sighted = run.sighted
    BY DEF BaseDone, TypeOK, RunState
<1>2. UNCHANGED <<now, saved, cache, have, seen, untracked>>
    BY DEF BaseDone
<1>3. RunInv' /\ BasesInv'
    BY <1>1, <1>2 DEF Core, RunInv, BasesInv, Discovering, Coming
<1>4. SeenInv' /\ SightedInv'
    BY <1>1, <1>2 DEF Core, SeenInv, SightedInv, Attested, Discovering, Coming
<1>5. PendingInv' /\ TrackedUntilRemoved'
    BY <1>1, <1>2 DEF Core, PendingInv, TrackedUntilRemoved, Discovering
<1>6. TargetsInv'
  <2>1. PICK b \in run.base : TRUE
      BY <1>1 DEF Core, RunInv
  <2>2. b \in Base /\ b \notin Coming
      BY DEF Core, BasesInv, TypeOK, RunState
  <2>3. \A e \in run.found : cache[b].known[e] # Unknown
      BY <1>1 DEF Core, TargetsInv
  <2>. QED
      BY <1>1, <1>2, <2>2, <2>3 DEF Core, TargetsInv, Discovering, Coming
<1>. QED
    BY <1>3, <1>4, <1>5, <1>6 DEF Core

LEMMA SaveKeeps ==
    ASSUME TypeOK, Core, Save
    PROVE  Core'
<1>1. /\ run.pc = "bases" /\ run'.pc = "sync" /\ run'.time = run.time /\ run'.opts = run.opts
      /\ run'.bases = run.bases /\ run'.base = run.base /\ run'.evict = run.evict
      /\ run'.targets = (IF run.opts.dry THEN {} ELSE run.targets) /\ run'.sighted = {}
    BY DEF Save, TypeOK, RunState
<1>2. UNCHANGED <<now, have>>
    BY DEF Save
<1>3. RunInv' /\ BasesInv' /\ SightedInv' /\ PendingInv'
    BY <1>1, <1>2 DEF Core, RunInv, BasesInv, SightedInv, PendingInv, Discovering, Coming
<1>4. CASE UNCHANGED <<saved, seen>> /\ (untracked' \/ (run.opts.dry /\ UNCHANGED untracked))
  <2>1. SeenInv'
      BY <1>1, <1>2, <1>4 DEF Core, SeenInv, Attested, Discovering
  <2>2. TargetsInv' /\ TrackedUntilRemoved'
      BY <1>1, <1>2, <1>4 DEF Core, TargetsInv, TrackedUntilRemoved, Discovering
  <2>. QED
      BY <1>3, <2>1, <2>2 DEF Core
<1>5. CASE /\ ~run.opts.dry /\ saved' = cache /\ untracked' = untracked
           /\ seen' = [b \in Base |-> [e \in Entry |->
                         IF <<b, e>> \in run.sighted THEN run.time ELSE seen[b][e]]]
  <2>1. run.time = now /\ run.time \in 0..MaxTime
      BY <1>1 DEF Core, RunInv, TypeOK, RunState
  <2>2. \A b \in Base, e \in Entry :
           seen'[b][e] = IF <<b, e>> \in run.sighted THEN run.time ELSE seen[b][e]
      BY <1>5
  <2>3. SeenInv'
    <3>. SUFFICES ASSUME NEW b \in Base, NEW e \in Entry
                  PROVE  seen'[b][e] <= now' /\ Attested(saved, b, e)'
        BY <1>1 DEF SeenInv, Discovering
    <3>1. CASE <<b, e>> \in run.sighted
      <4>1. cache[b].known[e] = Current
          BY <3>1 DEF Core, SightedInv
      <4>. QED
          BY <1>2, <1>5, <2>1, <2>2, <3>1, <4>1 DEF Attested, Never
    <3>2. CASE <<b, e>> \notin run.sighted
      <4>1. Attested(cache, b, e) /\ seen[b][e] <= now
          BY <1>1, <3>2 DEF Core, SeenInv, Discovering
      <4>. QED
          BY <1>2, <1>5, <2>2, <3>2, <4>1 DEF Attested
    <3>. QED
        BY <3>1, <3>2
  <2>4. TargetsInv'
      BY <1>1, <1>5 DEF Core, TargetsInv, Discovering
  <2>5. run.evict = {}
      BY <1>1 DEF Core, RunInv
  <2>6. TrackedUntilRemoved'
      BY <1>1, <1>2, <1>5, <2>5 DEF Core, PendingInv, TrackedUntilRemoved, Discovering
  <2>. QED
      BY <1>3, <2>3, <2>4, <2>6 DEF Core
<1>. QED
    BY <1>4, <1>5 DEF Save

LEMMA SyncKeeps ==
    ASSUME TypeOK, Core, NEW e \in Entry, SyncTarget(e) \/ SyncFails(e)
    PROVE  Core'
<1>1. run' = [run EXCEPT !.targets = @ \ {e}]
    BY DEF SyncTarget, SyncFails
<1>2. /\ run.pc = "sync" /\ run'.pc = "sync" /\ run'.time = run.time /\ run'.opts = run.opts
      /\ run'.bases = run.bases /\ run'.base = run.base /\ run'.evict = run.evict
      /\ e \in run.targets /\ run'.targets = run.targets \ {e} /\ run'.sighted = run.sighted
    BY <1>1 DEF SyncTarget, SyncFails, TypeOK, RunState
<1>3. UNCHANGED <<now, saved, cache, seen, untracked>> /\ have' \subseteq have \cup {e}
    BY DEF SyncTarget, SyncFails
<1>4. RunInv' /\ BasesInv'
    BY <1>2, <1>3 DEF Core, RunInv, BasesInv, Discovering, Coming
<1>5. SeenInv' /\ SightedInv'
    BY <1>2, <1>3 DEF Core, SeenInv, SightedInv, Attested, Discovering, Coming
<1>6. PendingInv' /\ TargetsInv'
    BY <1>2, <1>3 DEF Core, PendingInv, TargetsInv, Discovering
<1>7. TrackedUntilRemoved'
    BY <1>2, <1>3 DEF Core, TargetsInv, TrackedUntilRemoved
<1>. QED
    BY <1>4, <1>5, <1>6, <1>7 DEF Core

LEMMA TickKeeps ==
    ASSUME TypeOK, Core, Tick
    PROVE  Core'
<1>1. run.pc = "idle" /\ now' = now + 1 /\ UNCHANGED <<saved, cache, have, run, seen, untracked>>
    BY DEF Tick
<1>2. \A b \in Base, e \in Entry : seen[b][e] \in {Never} \cup 0..MaxTime /\ now \in 0..MaxTime
    BY DEF TypeOK
<1>3. RunInv' /\ BasesInv' /\ SightedInv' /\ PendingInv' /\ TargetsInv' /\ TrackedUntilRemoved'
    BY <1>1 DEF Core, RunInv, BasesInv, SightedInv, PendingInv, TargetsInv, TrackedUntilRemoved,
                Discovering, Coming
<1>4. SeenInv'
    BY <1>1, <1>2 DEF Core, SeenInv, Attested, Discovering, Never
<1>. QED
    BY <1>3, <1>4 DEF Core

LEMMA RecordInvStep == RecordInv /\ [Next]_vars => RecordInv'
<1>. SUFFICES ASSUME TypeOK, Core, [Next]_vars PROVE Core'
    BY TypeOKStep DEF RecordInv
<1>1. CASE Begin
    BY <1>1, BeginKeeps
<1>2. ASSUME NEW b \in Base, Reuse(b) \/ Scan(b) \/ Update(b) PROVE Core'
    BY <1>2, ReuseKeeps, ScanKeeps, UpdateKeeps
<1>3. ASSUME NEW n \in Entry \cup {Top}, NEW depth \in 0..Depth,
             List(n, depth) \/ ListFails(n, depth)
      PROVE  Core'
  <2>1. /\ run.pc = "scan" /\ run'.pc = run.pc /\ run'.time = run.time /\ run'.opts = run.opts
        /\ run'.bases = run.bases /\ run'.base = run.base /\ run'.evict = run.evict
        /\ run'.targets = run.targets /\ run'.sighted = run.sighted
    <3>1. CASE List(n, depth)
        BY <3>1 DEF List, TypeOK, RunState
    <3>2. CASE ListFails(n, depth)
        BY <3>2 DEF ListFails, TypeOK, RunState
    <3>. QED
        BY <1>3, <3>1, <3>2
  <2>2. UNCHANGED <<now, saved, cache, have, seen, untracked>>
      BY <1>3 DEF List, ListFails
  <2>. QED
      BY <2>1, <2>2, FrameKeeps
<1>4. ASSUME NEW e \in Entry, Evict(e) PROVE Core'
    BY <1>4, EvictKeeps
<1>5. CASE BaseDone
    BY <1>5, BaseDoneKeeps
<1>6. CASE Save
    BY <1>6, SaveKeeps
<1>7. ASSUME NEW e \in Entry, SyncTarget(e) \/ SyncFails(e) PROVE Core'
    BY <1>7, SyncKeeps
<1>8. CASE Done \/ Stop
    BY <1>8, IdleKeeps DEF Done, Stop
<1>9. CASE Change \/ UNCHANGED vars
    BY <1>9, FrameKeeps DEF Change, vars
<1>10. CASE Tick
    BY <1>10, TickKeeps
<1>. QED
    BY <1>1, <1>2, <1>3, <1>4, <1>5, <1>6, <1>7, <1>8, <1>9, <1>10 DEF Next, Discover, Sync

(* The record a run holds and the one on disk stay as RecordInv says          *)
(* (discover_cache.go loadDiscoverCache, update, save), for any upstream.     *)
THEOREM DiscoveryRecord == Spec => []RecordInv
<1>1. Init => RecordInv
    BY TypeOKInit, CoreInit DEF RecordInv
<1>. QED
    BY <1>1, RecordInvStep, PTL DEF Spec

(* A local copy stays on record until it is removed (Discovery!TrackedUntil- *)
(* Removed, discover_cache.go update).                                       *)
THEOREM DiscoveryTracked == Spec => []TrackedUntilRemoved
<1>1. RecordInv => TrackedUntilRemoved
    BY DEF RecordInv, Core
<1>. QED
    BY <1>1, DiscoveryRecord, PTL

(* Nothing is withdrawn but after a crawl without failures that did not find *)
(* it, a grace period after it was last seen (discover_cache.go update).     *)
THEOREM DiscoveryWithdrawal == Spec => WithdrawnAfterGrace
<1>1. RecordInv /\ [Next]_vars =>
        [\A b \in Base, e \in Entry :
            run.pc = "scan" /\ run'.pc = "evict" /\ b \in run.base /\ e \in run'.evict
              => /\ ~run.failed /\ e \notin run.found /\ run.opts.prune
                 /\ seen[b][e] # Never /\ run.time - seen[b][e] >= Grace]_vars
  <2>. SUFFICES ASSUME RecordInv, Next, NEW b \in Base, NEW e \in Entry,
                       run.pc = "scan", run'.pc = "evict", b \in run.base, e \in run'.evict
                PROVE  /\ ~run.failed /\ e \notin run.found /\ run.opts.prune
                       /\ seen[b][e] # Never /\ run.time - seen[b][e] >= Grace
      OBVIOUS
  <2>1. run \in RunState
      BY DEF RecordInv, TypeOK
  <2>2. PICK c \in Base : Update(c)
    <3>1. ~(\E n \in Entry \cup {Top}, depth \in 0..Depth : List(n, depth) \/ ListFails(n, depth))
        BY <2>1 DEF List, ListFails, RunState
    <3>2. ~(Done \/ Stop)
        BY DEF Done, Stop, Idle
    <3>. QED
        BY <3>1, <3>2 DEF Next, Discover, Sync, Begin, Reuse, Scan, Turn, Evict, BaseDone, Save,
                          SyncTarget, SyncFails, Change, Tick
  <2>3. c = b
      BY <2>2 DEF RecordInv, Core, RunInv, Update
  <2>4. Withdrawn(b, e)
      BY <2>1, <2>2, <2>3 DEF Update, RunState
  <2>5. Attested(cache, b, e) /\ seen[b][e] <= run.time
      BY DEF RecordInv, Core, SeenInv, SightedInv, RunInv, Discovering
  <2>6. /\ run.time \in 0..MaxTime /\ seen[b][e] \in {Never} \cup 0..MaxTime /\ Grace \in Nat
        /\ cache[b].known[e] \in {Unknown, Current} \cup 0..MaxTime
      BY DiscoveryAssumption DEF RecordInv, TypeOK, RunState, Record
  <2>. QED
      BY <2>4, <2>5, <2>6 DEF Withdrawn, GoneSince, Attested, Never, Current, Unknown
<1>. QED
    BY <1>1, DiscoveryRecord, PTL DEF Spec, WithdrawnAfterGrace
-----------------------------------------------------------------------------
(* Numbers, and the way up a tree *)
(* A set of natural numbers has a least one.  The library says so of finite  *)
(* sets under strict inclusion, here the intervals from 0.                   *)
LEMMA LeastNumber ==
    ASSUME NEW S \in SUBSET Nat, NEW k \in S
    PROVE  \E m \in S : \A n \in S : m <= n
<1>. DEFINE Up == {0..n : n \in {n \in S : n <= k}}
<1>1. IsWellFoundedOn(StrictSubsetOrdering(0..k), FiniteSubsetsOf(0..k))
    BY FS_Interval, FS_StrictSubsetOrderingWellFounded
<1>2. Up \subseteq FiniteSubsetsOf(0..k)
  <2>1. ASSUME NEW n \in S, n <= k PROVE 0..n \subseteq 0..k /\ IsFiniteSet(0..n)
      BY <2>1, FS_Interval
  <2>. QED
      BY <2>1 DEF FiniteSubsetsOf
<1>3. 0..k \in Up
    OBVIOUS
<1>4. PICK I \in Up : \A J \in Up : <<J, I>> \notin StrictSubsetOrdering(0..k)
  <2>. HIDE DEF Up
  <2>. QED
      BY <1>1, <1>2, <1>3, WFMin
<1>5. PICK m \in S : I = 0..m /\ m <= k
    OBVIOUS
<1>6. ASSUME NEW n \in S, n < m PROVE FALSE
  <2>1. 0..n \in Up
      BY <1>5, <1>6
  <2>2. 0..n \subseteq 0..m /\ m \in 0..m /\ m \notin 0..n /\ 0..m \subseteq 0..k
      BY <1>5, <1>6
  <2>3. <<0..n, 0..m>> \in StrictSubsetOrdering(0..k)
      BY <2>2 DEF StrictSubsetOrdering
  <2>. QED
      BY <1>4, <1>5, <2>1, <2>3
<1>. QED
    BY <1>5, <1>6

(* Above is the function its definition describes: otherwise there would be  *)
(* a least level up to which no function does as it says.                    *)
LEMMA AboveUnfolds ==
    /\ \A e \in Entry : Above[0][e] = e
    /\ \A k \in 0..Depth, e \in Entry :
          /\ Above[k][e] \in Entry \cup {Top}
          /\ Above[k + 1][e] = (IF Above[k][e] = Top THEN Top ELSE Parent[Above[k][e]])
<1>. DEFINE N == Depth + 1
            Levels == [0..N -> [Entry -> Entry \cup {Top}]]
            Row(f, k) == IF k = 0 THEN [e \in Entry |-> e]
                         ELSE [e \in Entry |-> LET d == f[k - 1][e] IN IF d = Top THEN Top ELSE Parent[d]]
            UpTo(f, n) == \A k \in 0..n : f[k] = Row(f, k)
<1>1. N \in Nat /\ Depth \in Nat /\ Parent \in [Entry -> Entry \cup {Top}]
    BY DiscoveryAssumption
<1>2. ASSUME NEW f \in Levels, NEW k \in 0..N PROVE Row(f, k) \in [Entry -> Entry \cup {Top}]
    BY <1>1, <1>2
<1>. HIDE DEF N, Row
<1>3. \E f \in Levels : UpTo(f, N)
  <2>. DEFINE S == {n \in 0..N : ~\E f \in Levels : UpTo(f, n)}
  <2>. SUFFICES ASSUME N \in S PROVE FALSE
      BY <1>1
  <2>1. PICK m \in S : \A n \in S : m <= n
    <3>. HIDE DEF S
    <3>1. S \subseteq Nat
        BY DEF S
    <3>. QED
        BY <3>1, LeastNumber
  <2>2. m # 0
    <3>. DEFINE g == [k \in 0..N |-> [e \in Entry |-> e]]
    <3>1. g \in Levels /\ g[0] = Row(g, 0)
        BY <1>1 DEF Row
    <3>. HIDE DEF g
    <3>2. m = 0 => UpTo(g, m)
        BY <3>1
    <3>. QED
        BY <3>1, <3>2
  <2>3. m - 1 \in 0..N /\ m - 1 \notin S /\ m \in 1..N
    <3>1. m \in 0..N
        BY <2>1
    <3>2. m - 1 \in 0..N /\ m \in 1..N /\ ~(m <= m - 1)
        BY <1>1, <2>2, <3>1
    <3>. HIDE DEF S
    <3>. QED
        BY <2>1, <3>2
  <2>4. PICK f \in Levels : UpTo(f, m - 1)
      BY <2>3
  <2>. DEFINE g == [f EXCEPT ![m] = Row(f, m)]
  <2>5. g \in Levels /\ g[m] = Row(f, m) /\ \A k \in 0..N : k # m => g[k] = f[k]
      BY <1>2, <2>3
  <2>. HIDE DEF g
  <2>6. ASSUME NEW k \in 0..m PROVE g[k] = Row(g, k)
    <3>1. Row(g, k) = Row(f, k)
        BY <1>1, <2>3, <2>5 DEF Row
    <3>2. CASE k = m
        BY <2>5, <3>1, <3>2
    <3>3. CASE k # m
        BY <1>1, <2>3, <2>4, <2>5, <3>1, <3>3
    <3>. QED
        BY <3>2, <3>3
  <2>. QED
      BY <2>1, <2>5, <2>6
<1>4. \E f : f = [k \in 0..N |-> Row(f, k)]
  <2>1. PICK f \in Levels : UpTo(f, N)
      BY <1>3
  <2>2. f = [k \in 0..N |-> Row(f, k)]
      BY <2>1
  <2>. QED
      BY <2>2
<1>5. Above = [k \in 0..N |-> Row(Above, k)]
  <2>1. \E f : f = [k \in 0..Depth + 1 |->
                     IF k = 0 THEN [e \in Entry |-> e]
                     ELSE [e \in Entry |-> LET d == f[k - 1][e] IN IF d = Top THEN Top ELSE Parent[d]]]
      BY <1>4, Zenon DEF N, Row
  <2>2. Above = [k \in 0..Depth + 1 |->
                    IF k = 0 THEN [e \in Entry |-> e]
                    ELSE [e \in Entry |-> LET d == Above[k - 1][e] IN IF d = Top THEN Top ELSE Parent[d]]]
      BY <2>1, Zenon DEF Above
  <2>. QED
      BY <2>2, Zenon DEF N, Row
<1>6. ASSUME NEW k \in 0..N PROVE Above[k] = Row(Above, k)
  <2>. DEFINE F == [j \in 0..N |-> Row(Above, j)]
  <2>1. F[k] = Row(Above, k)
      OBVIOUS
  <2>2. Above = F
      BY <1>5
  <2>. HIDE DEF F
  <2>. QED
      BY <2>1, <2>2
<1>7. \A e \in Entry : Above[0][e] = e
  <2>1. Above[0] = Row(Above, 0)
      BY <1>1, <1>6 DEF N
  <2>2. Row(Above, 0) = [e \in Entry |-> e]
      BY DEF Row
  <2>. QED
      BY <2>1, <2>2
<1>8. ASSUME NEW k \in 0..Depth, NEW e \in Entry
      PROVE  Above[k + 1][e] = (IF Above[k][e] = Top THEN Top ELSE Parent[Above[k][e]])
  <2>1. k + 1 \in 0..N /\ k + 1 # 0 /\ (k + 1) - 1 = k
      BY <1>1 DEF N
  <2>2. Above[k + 1] = Row(Above, k + 1)
      BY <1>6, <2>1
  <2>3. Row(Above, k + 1)[e] = (IF Above[k][e] = Top THEN Top ELSE Parent[Above[k][e]])
      BY <2>1 DEF Row
  <2>. QED
      BY <2>2, <2>3
<1>9. \A k \in 0..Depth, e \in Entry : Above[k][e] \in Entry \cup {Top}
  <2>. DEFINE S == {k \in 0..Depth : ~\A e \in Entry : Above[k][e] \in Entry \cup {Top}}
  <2>. SUFFICES ASSUME NEW k \in S PROVE FALSE
      OBVIOUS
  <2>1. PICK m \in S : \A n \in S : m <= n
    <3>. HIDE DEF S
    <3>1. S \subseteq Nat
        BY DEF S
    <3>. QED
        BY <3>1, LeastNumber
  <2>2. m # 0 /\ m - 1 \in 0..Depth /\ m - 1 \notin S
    <3>1. m \in 0..Depth /\ m # 0
        BY <1>7, <2>1
    <3>2. m - 1 \in 0..Depth /\ ~(m <= m - 1)
        BY <1>1, <3>1
    <3>. HIDE DEF S
    <3>. QED
        BY <2>1, <3>1, <3>2
  <2>3. \A e \in Entry : Above[m - 1][e] \in Entry \cup {Top}
      BY <2>2
  <2>4. \A e \in Entry : Above[m][e] = (IF Above[m - 1][e] = Top THEN Top ELSE Parent[Above[m - 1][e]])
    <3>1. m = (m - 1) + 1
        BY <2>2
    <3>. QED
        BY <1>8, <2>2, <3>1
  <2>. QED
      BY <1>1, <2>1, <2>3, <2>4
<1>. QED
    BY <1>7, <1>8, <1>9

(* The way up from an entry goes by way of its directory. *)
LEMMA AboveShifts ==
    ASSUME NEW e \in Entry, Parent[e] \in Entry
    PROVE  \A k \in 0..Depth : Above[k + 1][e] = Above[k][Parent[e]]
<1>. DEFINE S == {k \in 0..Depth : Above[k + 1][e] # Above[k][Parent[e]]}
<1>. SUFFICES ASSUME NEW k \in S PROVE FALSE
    OBVIOUS
<1>1. Depth \in Nat /\ e # Top
    BY DiscoveryAssumption
<1>2. PICK m \in S : \A n \in S : m <= n
  <2>. HIDE DEF S
  <2>1. S \subseteq Nat
      BY DEF S
  <2>. QED
      BY <2>1, LeastNumber
<1>3. m # 0
  <2>1. Above[0 + 1][e] = Parent[e] /\ Above[0][Parent[e]] = Parent[e]
      BY <1>1, AboveUnfolds
  <2>. QED
      BY <2>1
<1>4. m - 1 \in 0..Depth /\ m \in 0..Depth /\ m = (m - 1) + 1
    BY <1>1, <1>3
<1>5. Above[m][e] = Above[m - 1][Parent[e]]
    BY <1>2, <1>4
<1>6. Above[m + 1][e] = (IF Above[m][e] = Top THEN Top ELSE Parent[Above[m][e]])
    BY <1>4, AboveUnfolds
<1>7. Above[m][Parent[e]] = (IF Above[m - 1][Parent[e]] = Top THEN Top ELSE Parent[Above[m - 1][Parent[e]]])
    BY <1>4, AboveUnfolds
<1>. QED
    BY <1>5, <1>6, <1>7

-----------------------------------------------------------------------------
(* A crawl finds what there is *)
\* The way from e up to b, k levels above it, that a crawl of b can come down.
Path(b, e, k) ==
    /\ Above[k][e] = b
    /\ \A j \in 0..k : j < k => Above[j][e] # Top /\ Above[j][e] \notin run.opts.leaves
    /\ \A j \in 1..k : KindNow(Above[j][e]) = "dir"

\* A crawl is to take e where it comes to it on level k.
Target(e, k) == (KindNow(e) = "repo" /\ k <= Depth) \/ (KindNow(e) = "file" /\ k > 0)

Reached(b, n, depth) == IF n = Top THEN b = Top /\ depth = 0 ELSE Path(b, n, depth)

\* e itself, if it is a repository, or a directory on the way to it is still to
\* be listed.
OnTheWay(e, k) ==
    \E j \in 0..k : <<Above[j][e], k - j>> \in run.queue /\ (j = 0 => KindNow(e) = "repo")

\* The crawl at work, as long as upstream stays and no listing fails: what is
\* queued can be reached, what was found was to be, and what was not found yet
\* is on its way.
ScanInv ==
    run.pc = "scan" =>
        /\ run.since <= up
        /\ ~run.failed /\ run.since = up => \A b \in run.base :
              /\ \A n \in Entry \cup {Top}, depth \in 0..Depth :
                    <<n, depth>> \in run.queue => Reached(b, n, depth)
              /\ \A e \in run.found : ToBeFound(b, e)
              /\ \A e \in Entry, k \in 0..Depth + 1 :
                    Path(b, e, k) /\ Target(e, k) => e \in run.found \/ OnTheWay(e, k)

LEMMA ToBeFoundByPath ==
    ASSUME NEW b, NEW e
    PROVE  ToBeFound(b, e) <=> \E k \in 0..Depth + 1 : Path(b, e, k) /\ Target(e, k)
BY DEF ToBeFound, Path, Target

(* While upstream and the options stay, so does what a crawl is to find. *)
LEMMA ScanFrame ==
    ASSUME up' = up, run'.opts = run.opts, NEW b
    PROVE  /\ \A e, k : (Path(b, e, k)' <=> Path(b, e, k)) /\ (Target(e, k)' <=> Target(e, k))
           /\ \A e : ToBeFound(b, e)' <=> ToBeFound(b, e)
           /\ \A n, depth : Reached(b, n, depth)' <=> Reached(b, n, depth)
<1>1. \A n : KindNow(n)' = KindNow(n)
    BY DEF KindNow
<1>2. \A e, k : Path(b, e, k)' <=> Path(b, e, k)
    BY <1>1 DEF Path
<1>3. \A e, k : Target(e, k)' <=> Target(e, k)
    BY <1>1 DEF Target
<1>4. \A e : ToBeFound(b, e)' <=> ToBeFound(b, e)
    BY <1>1 DEF ToBeFound
<1>. QED
    BY <1>2, <1>3, <1>4 DEF Reached

(* From a directory that is reached the crawl comes to its entries. *)
LEMMA ChildReached ==
    ASSUME NEW b, NEW n \in Entry \cup {Top}, NEW depth \in 0..Depth, Reached(b, n, depth),
           KindNow(n) = "dir", NEW c \in Children(n)
    PROVE  Path(b, c, depth + 1)
<1>1. c \in Entry /\ Parent[c] = n /\ c # Top /\ c \notin run.opts.leaves /\ Depth \in Nat
    BY DiscoveryAssumption DEF Children
<1>2. Above[0][c] = c /\ Above[1][c] = n
  <2>1. Above[0 + 1][c] = Parent[c] /\ Above[0][c] = c
      BY <1>1, AboveUnfolds
  <2>. QED
      BY <1>1, <2>1
<1>3. CASE n = Top
  <2>1. b = Top /\ depth = 0 /\ depth + 1 = 1
      BY <1>3 DEF Reached
  <2>2. \A j \in 1..1 : j = 1
      OBVIOUS
  <2>3. \A j \in 0..1 : j < 1 => j = 0
      OBVIOUS
  <2>. QED
      BY <1>1, <1>2, <1>3, <2>1, <2>2, <2>3 DEF Path
<1>4. CASE n # Top
  <2>1. n \in Entry /\ Path(b, n, depth)
      BY <1>4 DEF Reached
  <2>2. \A j \in 0..Depth : Above[j + 1][c] = Above[j][n]
      BY <1>1, <2>1, AboveShifts
  <2>3. Above[depth + 1][c] = b
      BY <2>1, <2>2 DEF Path
  <2>4. ASSUME NEW j \in 0..depth + 1, j < depth + 1
        PROVE  Above[j][c] # Top /\ Above[j][c] \notin run.opts.leaves
    <3>1. CASE j = 0
        BY <1>1, <1>2, <3>1
    <3>2. CASE j # 0
      <4>1. j - 1 \in 0..depth /\ j - 1 < depth /\ j - 1 \in 0..Depth /\ (j - 1) + 1 = j
          BY <1>1, <2>4, <3>2
      <4>2. Above[j][c] = Above[j - 1][n]
          BY <2>2, <4>1
      <4>. QED
          BY <2>1, <4>1, <4>2 DEF Path
    <3>. QED
        BY <3>1, <3>2
  <2>5. ASSUME NEW j \in 1..depth + 1 PROVE KindNow(Above[j][c]) = "dir"
    <3>1. CASE j = 1
        BY <1>2, <3>1
    <3>2. CASE j # 1
      <4>1. j - 1 \in 1..depth /\ j - 1 \in 0..Depth /\ (j - 1) + 1 = j
          BY <1>1, <2>5, <3>2
      <4>2. Above[j][c] = Above[j - 1][n]
          BY <2>2, <4>1
      <4>. QED
          BY <2>1, <4>1, <4>2 DEF Path
    <3>. QED
        BY <3>1, <3>2
  <2>. QED
      BY <2>3, <2>4, <2>5 DEF Path
<1>. QED
    BY <1>3, <1>4

(* A crawl begins with the base queued, which everything is below. *)
LEMMA ScanStarts ==
    ASSUME TypeOK, NEW b \in Base, Scan(b)
    PROVE  ScanInv'
<1>1. /\ run'.queue = {<<b, 0>>} /\ run'.found = {} /\ run'.base = {b} /\ run'.since = up
      /\ up' = up /\ b \in Entry \cup {Top} /\ up \in Nat
    BY BaseInTree DEF Scan, TypeOK, RunState, Gen
<1>2. Reached(b, b, 0)'
  <2>1. CASE b = Top
      BY <2>1 DEF Reached
  <2>2. CASE b # Top
    <3>1. Above[0][b] = b /\ (\A j \in 0..0 : ~(j < 0)) /\ 1..0 = {}
        BY <1>1, <2>2, AboveUnfolds
    <3>. QED
        BY <2>2, <3>1 DEF Reached, Path
  <2>. QED
      BY <2>1, <2>2
<1>3. ASSUME NEW e \in Entry, NEW k \in 0..Depth + 1, Path(b, e, k)', Target(e, k)'
      PROVE  OnTheWay(e, k)'
  <2>1. Above[k][e] = b
      BY <1>3 DEF Path
  <2>2. k = 0 => KindNow(e)' = "repo"
      BY <1>3 DEF Target
  <2>3. k \in 0..k /\ k - k = 0 /\ <<Above[k][e], k - k>> \in run'.queue
      BY <1>1, <1>3, <2>1, DiscoveryAssumption
  <2>. QED
      BY <2>2, <2>3 DEF OnTheWay
<1>4. \A n \in Entry \cup {Top}, depth \in 0..Depth :
          <<n, depth>> \in run'.queue => Reached(b, n, depth)'
    BY <1>1, <1>2
<1>. QED
    BY <1>1, <1>3, <1>4 DEF ScanInv

LEMMA ListKeeps ==
    ASSUME TypeOK, ScanInv, NEW n \in Entry \cup {Top}, NEW depth \in 0..Depth, List(n, depth)
    PROVE  ScanInv'
<1>1. /\ run.pc = "scan" /\ <<n, depth>> \in run.queue /\ KindNow(n) \in {"dir", "repo"}
      /\ run'.queue = (run.queue \ {<<n, depth>>}) \cup
             (IF KindNow(n) = "repo" \/ depth >= Depth THEN {}
              ELSE (Children(n) \ Files(n)) \X {depth + 1})
      /\ run'.found = run.found \cup (IF KindNow(n) = "repo" THEN {n} ELSE Files(n))
      /\ run'.opts = run.opts /\ run'.since = run.since /\ run'.failed = run.failed
      /\ run'.base = run.base /\ up' = up
    BY DEF List, TypeOK, RunState
<1>2. Depth \in Nat /\ run.since <= up
    BY <1>1, DiscoveryAssumption DEF ScanInv
<1>. SUFFICES ASSUME ~run.failed, run.since = up, NEW b \in run.base
              PROVE  /\ \A m \in Entry \cup {Top}, d \in 0..Depth :
                           <<m, d>> \in run'.queue => Reached(b, m, d)
                     /\ \A e \in run'.found : ToBeFound(b, e)
                     /\ \A e \in Entry, k \in 0..Depth + 1 :
                           Path(b, e, k) /\ Target(e, k) => e \in run'.found \/ OnTheWay(e, k)'
  <2>1. \A b : /\ \A e, k : (Path(b, e, k)' <=> Path(b, e, k)) /\ (Target(e, k)' <=> Target(e, k))
               /\ \A e : ToBeFound(b, e)' <=> ToBeFound(b, e)
               /\ \A m, d : Reached(b, m, d)' <=> Reached(b, m, d)
      BY <1>1, ScanFrame
  <2>. QED
      BY <1>1, <1>2, <2>1 DEF ScanInv
<1>3. /\ \A m \in Entry \cup {Top}, d \in 0..Depth : <<m, d>> \in run.queue => Reached(b, m, d)
      /\ \A e \in run.found : ToBeFound(b, e)
      /\ \A e \in Entry, k \in 0..Depth + 1 :
            Path(b, e, k) /\ Target(e, k) => e \in run.found \/ OnTheWay(e, k)
    BY <1>1 DEF ScanInv
<1>4. Reached(b, n, depth)
    BY <1>1, <1>3
<1>5. KindNow(n) # "repo" => KindNow(n) = "dir" /\ \A c \in Children(n) : Path(b, c, depth + 1)
    BY <1>1, <1>4, ChildReached
<1>6. \A m \in Entry \cup {Top}, d \in 0..Depth : <<m, d>> \in run'.queue => Reached(b, m, d)
  <2>. SUFFICES ASSUME NEW m \in Entry \cup {Top}, NEW d \in 0..Depth, <<m, d>> \in run'.queue,
                       <<m, d>> \notin run.queue
                PROVE  Reached(b, m, d)
      BY <1>3
  <2>1. KindNow(n) # "repo" /\ m \in Children(n) /\ d = depth + 1
      BY <1>1
  <2>2. m # Top
      BY <2>1, DiscoveryAssumption DEF Children
  <2>. QED
      BY <1>5, <2>1, <2>2 DEF Reached
<1>7. \A e \in run'.found : ToBeFound(b, e)
  <2>. SUFFICES ASSUME NEW e \in run'.found, e \notin run.found PROVE ToBeFound(b, e)
      BY <1>3
  <2>1. CASE KindNow(n) = "repo"
    <3>1. e = n /\ n # Top
        BY <1>1, <2>1 DEF KindNow
    <3>2. Path(b, e, depth) /\ Target(e, depth) /\ depth \in 0..Depth + 1
        BY <1>2, <1>4, <2>1, <3>1 DEF Reached, Target
    <3>. QED
        BY <3>2, ToBeFoundByPath
  <2>2. CASE KindNow(n) # "repo"
    <3>1. e \in Children(n) /\ KindNow(e) = "file"
        BY <1>1, <2>2 DEF Files
    <3>2. Path(b, e, depth + 1) /\ Target(e, depth + 1) /\ depth + 1 \in 0..Depth + 1
        BY <1>2, <1>5, <2>2, <3>1 DEF Target
    <3>. QED
        BY <3>2, ToBeFoundByPath
  <2>. QED
      BY <2>1, <2>2
<1>8. ASSUME NEW e \in Entry, NEW k \in 0..Depth + 1, Path(b, e, k), Target(e, k), e \notin run'.found
      PROVE  OnTheWay(e, k)'
  <2>1. OnTheWay(e, k)
      BY <1>1, <1>3, <1>8
  <2>2. PICK j \in 0..k : <<Above[j][e], k - j>> \in run.queue /\ (j = 0 => KindNow(e) = "repo")
      BY <2>1 DEF OnTheWay
  <2>3. KindNow(e)' = KindNow(e)
      BY <1>1 DEF KindNow
  <2>4. CASE <<Above[j][e], k - j>> # <<n, depth>>
    <3>1. <<Above[j][e], k - j>> \in run'.queue
        BY <1>1, <2>2, <2>4
    <3>. QED
        BY <2>2, <2>3, <3>1 DEF OnTheWay
  <2>5. CASE <<Above[j][e], k - j>> = <<n, depth>>
    <3>1. Above[j][e] = n /\ k - j = depth /\ Above[0][e] = e
        BY <2>5, AboveUnfolds
    <3>2. j # 0
      <4>1. ASSUME j = 0 PROVE FALSE
        <5>1. n = e /\ KindNow(n) = "repo"
            BY <2>2, <3>1, <4>1
        <5>. QED
            BY <1>1, <1>8, <5>1
      <4>. QED
          BY <4>1
    <3>3. /\ j \in 1..k /\ j - 1 \in 0..Depth /\ j - 1 \in 0..k /\ j - 1 < k /\ (j - 1) + 1 = j
          /\ k - (j - 1) = depth + 1
        BY <1>2, <1>8, <3>1, <3>2
    <3>. DEFINE c == Above[j - 1][e]
    <3>4. KindNow(n) = "dir"
        BY <1>8, <3>1, <3>3 DEF Path
    <3>5. c # Top /\ c \notin run.opts.leaves /\ c \in Entry /\ Parent[c] = n
      <4>1. c # Top /\ c \notin run.opts.leaves
          BY <1>8, <3>3 DEF Path
      <4>2. c \in Entry \cup {Top} /\ Above[j][e] = (IF c = Top THEN Top ELSE Parent[c])
          BY <3>3, AboveUnfolds
      <4>. QED
          BY <3>1, <4>1, <4>2
    <3>6. IF j = 1 THEN c = e ELSE KindNow(c) = "dir"
      <4>1. j = 1 => c = e
          BY <3>1
      <4>2. j # 1 => j - 1 \in 1..k
          BY <1>8, <3>3
      <4>. QED
          BY <1>8, <4>1, <4>2 DEF Path
    <3>7. KindNow(c) \in {"dir", "repo", "file"} /\ (j # 1 => KindNow(c) = "dir")
        BY <1>8, <3>6 DEF Target
    <3>8. c \in Children(n)
        BY <3>5, <3>7 DEF Children
    <3>9. KindNow(c) # "file"
      <4>1. ASSUME KindNow(c) = "file" PROVE FALSE
        <5>1. c = e /\ c \in Files(n)
            BY <3>6, <3>7, <3>8, <4>1 DEF Files
        <5>. QED
            BY <1>1, <1>8, <3>4, <5>1
      <4>. QED
          BY <4>1
    <3>10. depth < Depth
      <4>1. CASE j = 1
        <5>1. KindNow(e) = "repo"
            BY <1>8, <3>6, <3>9, <4>1 DEF Target
        <5>2. k <= Depth
            BY <1>8, <5>1 DEF Target
        <5>. QED
            BY <1>2, <3>1, <4>1, <5>2
      <4>2. CASE j # 1
          BY <1>2, <1>8, <3>1, <3>3, <4>2
      <4>. QED
          BY <4>1, <4>2
    <3>11. <<c, depth + 1>> \in run'.queue
        BY <1>1, <1>2, <3>4, <3>8, <3>9, <3>10 DEF Files
    <3>12. j - 1 = 0 => KindNow(e)' = "repo"
        BY <1>8, <2>3, <3>6, <3>9 DEF Target
    <3>13. <<Above[j - 1][e], k - (j - 1)>> \in run'.queue
        BY <3>3, <3>11
    <3>. HIDE DEF c
    <3>. QED
        BY <3>3, <3>12, <3>13 DEF OnTheWay
  <2>. QED
      BY <2>4, <2>5
<1>. QED
    BY <1>6, <1>7, <1>8

LEMMA ScanInvStep == ASSUME TypeOK, ScanInv, [Next]_vars PROVE ScanInv'
<1>1. ASSUME run'.pc # "scan" PROVE ScanInv'
    BY <1>1 DEF ScanInv
<1>2. ASSUME run' = run, up' = up PROVE ScanInv'
  <2>1. \A b : /\ \A e, k : (Path(b, e, k)' <=> Path(b, e, k)) /\ (Target(e, k)' <=> Target(e, k))
               /\ \A e : ToBeFound(b, e)' <=> ToBeFound(b, e)
               /\ \A m, d : Reached(b, m, d)' <=> Reached(b, m, d)
      BY <1>2, ScanFrame
  <2>2. \A e, k : OnTheWay(e, k)' <=> OnTheWay(e, k)
      BY <1>2 DEF OnTheWay, KindNow
  <2>. QED
      BY <1>2, <2>1, <2>2 DEF ScanInv
<1>3. run \in RunState /\ up \in Nat /\ run.since \in Nat
    BY DiscoveryAssumption DEF TypeOK, RunState, Gen
<1>4. CASE Begin
  <2>1. run'.pc = "bases"
      BY <1>4, IdleType DEF Begin, RunState
  <2>. QED
      BY <1>1, <2>1
<1>5. ASSUME NEW b \in Base, Reuse(b) PROVE ScanInv'
    BY <1>1, <1>3, <1>5 DEF Reuse, Turn, RunState
<1>6. ASSUME NEW b \in Base, Scan(b) PROVE ScanInv'
    BY <1>6, ScanStarts
<1>7. ASSUME NEW b \in Base, Update(b) PROVE ScanInv'
    BY <1>1, <1>3, <1>7 DEF Update, RunState
<1>8. ASSUME NEW n \in Entry \cup {Top}, NEW depth \in 0..Depth, List(n, depth) PROVE ScanInv'
    BY <1>8, ListKeeps
<1>9. ASSUME NEW n \in Entry \cup {Top}, NEW depth \in 0..Depth, ListFails(n, depth) PROVE ScanInv'
  <2>1. run'.failed /\ run'.since = run.since /\ run.pc = "scan" /\ up' = up
      BY <1>3, <1>9 DEF ListFails, RunState
  <2>. QED
      BY <2>1 DEF ScanInv
<1>10. ASSUME NEW e \in Entry, Evict(e) PROVE ScanInv'
    BY <1>1, <1>3, <1>10 DEF Evict, RunState
<1>11. CASE BaseDone
    BY <1>1, <1>3, <1>11 DEF BaseDone, RunState
<1>12. CASE Save
    BY <1>1, <1>3, <1>12 DEF Save, RunState
<1>13. ASSUME NEW e \in Entry, SyncTarget(e) \/ SyncFails(e) PROVE ScanInv'
    BY <1>1, <1>3, <1>13 DEF SyncTarget, SyncFails, RunState
<1>14. CASE Done \/ Stop
    BY <1>1, <1>14 DEF Done, Stop, Idle
<1>15. CASE Change
  <2>1. run' = run /\ up' = up + 1
      BY <1>15 DEF Change
  <2>2. run.pc = "scan" => run'.since <= up' /\ run'.since # up'
      BY <1>3, <2>1 DEF ScanInv
  <2>. QED
      BY <2>1, <2>2 DEF ScanInv
<1>16. CASE Tick
    BY <1>2, <1>16 DEF Tick
<1>17. CASE UNCHANGED vars
    BY <1>2, <1>17 DEF vars
<1>. QED
    BY <1>4, <1>5, <1>6, <1>7, <1>8, <1>9, <1>10, <1>11, <1>12, <1>13, <1>14, <1>15, <1>16, <1>17
    DEF Next, Discover, Sync

(* A crawl during which upstream did not change and no listing failed found  *)
(* exactly what is within its depth and not left out (discover.go            *)
(* discoverRepos), for every tree.                                           *)
THEOREM DiscoveryFindsAll == Spec => []CleanScanExact
<1>1. Init => TypeOK /\ ScanInv
    BY TypeOKInit DEF Init, Idle, ScanInv
<1>2. TypeOK /\ ScanInv /\ [Next]_vars => (TypeOK /\ ScanInv)'
    BY TypeOKStep, ScanInvStep
<1>3. ASSUME TypeOK, ScanInv PROVE CleanScanExact
  <2>. SUFFICES ASSUME NEW b \in run.base, run.pc = "scan", run.queue = {}, ~run.failed, run.since = up
                PROVE  run.found = {e \in Entry : ToBeFound(b, e)}
      BY DEF CleanScanExact
  <2>1. run.found \subseteq Entry
      BY <1>3 DEF TypeOK, RunState
  <2>2. \A e \in run.found : ToBeFound(b, e)
      BY <1>3 DEF ScanInv
  <2>3. ASSUME NEW e \in Entry, ToBeFound(b, e) PROVE e \in run.found
    <3>1. PICK k \in 0..Depth + 1 : Path(b, e, k) /\ Target(e, k)
        BY <2>3, ToBeFoundByPath
    <3>2. e \in run.found \/ OnTheWay(e, k)
        BY <1>3, <3>1 DEF ScanInv
    <3>. QED
        BY <3>2 DEF OnTheWay
  <2>. QED
      BY <2>1, <2>2, <2>3
<1>. QED
    BY <1>1, <1>2, <1>3, PTL DEF Spec
=============================================================================
