------------------------------ MODULE FileFetch ------------------------------
(***************************************************************************)
(* Downloading one file (fetch/fetch.go file and download, fetch/source.go *)
(* Source.Get): callers in different goroutines, serialized by destination,*)
(* each of which looks at what is there, resumes a partial download or     *)
(* starts over, fails over between mirrors that may differ, verifies and   *)
(* renames.  A call can fail, be canceled or die with the process anywhere.*)
(*                                                                         *)
(* Content is a sequence of blocks, <<>> where there is no file (the code  *)
(* takes an empty partial for none).  A checksum is equality of content.   *)
(* A mirror's Last-Modified is the generation in which the content first   *)
(* appeared, so an installed file's modification time follows from its     *)
(* content.  A body that ends early is an error, as HTTP framing has it.   *)
(***************************************************************************)
EXTENDS Integers, Sequences, FiniteSetsExt

CONSTANTS
    Caller,        \* goroutines calling File or FileFresh
    Path,          \* destinations, each of one request path
    Stripe,        \* Stripe[p]: the mutex of fileLocks p hashes to
    Mirror,        \* upstream mirrors
    Moving,        \* those that come by new generations; the others lag behind
    Last,          \* upstream published the generations 1..Last
    Body,          \* Body[g][p]: content of p in generation g, or Nothing
    Source,        \* Source objects, one for each caller or shared
    SourceOf,      \* SourceOf[c]: the source c fetches from
    Bases,         \* Bases[s]: its mirrors, in order
    Nobody         \* not a caller

Gen == 1..Last
Nothing == <<>>
Stripes == {Stripe[p] : p \in Path}
Bodies(p) == {Body[g][p] : g \in Gen} \ {Nothing}
Block == UNION {{Body[g][p][i] : i \in DOMAIN Body[g][p]} : g \in Gen, p \in Path}

ASSUME FileFetchAssumption ==
    /\ Last \in Nat \ {0} /\ Moving \subseteq Mirror
    /\ Body \in [Gen -> [Path -> Seq(Block)]]
    /\ SourceOf \in [Caller -> Source]
    /\ Bases \in [Source -> Seq(Mirror) \ {<<>>}]
    /\ Nobody \notin Caller

VARIABLES
    serves,        \* serves[m]: the generation mirror m has
    final, staged, partial,    \* the files dst, dst.staged, dst.partial
    owner,         \* owner[x]: who holds stripe x
    active,        \* active[s]: Source.active
    canceled,      \* sources whose caller's context is canceled
    call           \* call[c]: c's call of File

files == <<final, staged, partial>>
fetchVars == <<serves, files, owner, active, canceled, call>>

\* What a call is asked for: want is the content the metadata lists, Nothing
\* when there is no Expect, summed whether it has a checksum and not just a
\* size, deep is verifyExisting.
NoJob == [path |-> Nobody, want |-> Nothing, summed |-> FALSE, deep |-> FALSE,
          stage |-> FALSE, fresh |-> FALSE, optional |-> FALSE]

\* Metadata lists what upstream published in some generation.
FileJob ==
    {j \in [path : Path, want : Seq(Block), summed : BOOLEAN, deep : BOOLEAN,
            stage : BOOLEAN, fresh : BOOLEAN, optional : BOOLEAN] :
        j.want \in Bodies(j.path) \cup {Nothing}}

\* start and tried walk over the mirrors, resume is resumeFrom, body what the
\* response has still to bring, seen what the hash was fed.
NoCall == [pc |-> "idle", job |-> NoJob, resume |-> 0, start |-> 0, tried |-> 0,
           body |-> Nothing, seen |-> Nothing, result |-> "none"]

FetchInit ==
    /\ serves = [m \in Mirror |-> 1]
    /\ final = [p \in Path |-> Nothing]
    /\ staged = [p \in Path |-> Nothing]
    /\ partial = [p \in Path |-> Nothing]
    /\ owner = [x \in Stripes |-> Nobody]
    /\ active = [s \in Source |-> 0]
    /\ canceled = {}
    /\ call = [c \in Caller |-> NoCall]

-----------------------------------------------------------------------------
At(c, pc) == call[c].pc = pc
Job(c) == call[c].job
Dst(c) == call[c].job.path
Canceled(c) == SourceOf[c] \in canceled

KeepsPartial(j) == j.want # Nothing /\ j.summed

\* Mutant: a partial of the full size is resumed, too.
ResumeFromEnd(j) ==
    IF KeepsPartial(j) /\ Len(partial[j.path]) <= Len(j.want) THEN Len(partial[j.path]) ELSE 0

ResumeFrom(j) ==
    IF KeepsPartial(j) /\ Len(partial[j.path]) < Len(j.want) THEN Len(partial[j.path]) ELSE 0

\* verifyLocal
Matches(j) ==
    /\ j.want # Nothing
    /\ Len(final[j.path]) = Len(j.want)
    /\ j.deep /\ j.summed => final[j.path] = j.want

\* The mirror asked next, and what it has of the file.
Start(c) == IF call[c].tried = 0 THEN active[SourceOf[c]] ELSE call[c].start
Index(c) == (Start(c) + call[c].tried) % Len(Bases[SourceOf[c]])
Asked(c) == Bases[SourceOf[c]][Index(c) + 1]
Offered(c) == Body[serves[Asked(c)]][Dst(c)]

\* The generation that brought this content.
Appeared(p, content) == Min({g \in Gen : Body[g][p] = content})

Return(c, result) ==
    call' = [call EXCEPT ![c] = [NoCall EXCEPT !.pc = "unlock", !.job = Job(c), !.result = result]]

\* What the attempt resumed and wrote still matters.
Fail(c, why) ==
    call' = [call EXCEPT ![c].pc = "failed", ![c].result = why,
                         ![c].start = 0, ![c].tried = 0, ![c].body = Nothing]

-----------------------------------------------------------------------------
Invoke(c, j) == call' = [call EXCEPT ![c] = [NoCall EXCEPT !.pc = "lock", !.job = j]]

\* Mutant: writers to one destination are not serialized.
LockUnguarded(c) ==
    /\ At(c, "lock")
    /\ owner' = [owner EXCEPT ![Stripe[Dst(c)]] = c]
    /\ call' = [call EXCEPT ![c].pc = "check"]
    /\ UNCHANGED <<serves, files, active, canceled>>

Lock(c) ==
    /\ At(c, "lock")
    /\ owner[Stripe[Dst(c)]] = Nobody
    /\ owner' = [owner EXCEPT ![Stripe[Dst(c)]] = c]
    /\ call' = [call EXCEPT ![c].pc = "check"]
    /\ UNCHANGED <<serves, files, active, canceled>>

\* Mutant: a staged leftover stays.
CheckKeepsLeftover(c) ==
    /\ At(c, "check")
    /\ IF Matches(Job(c)) THEN Return(c, "unchanged")
       ELSE call' = [call EXCEPT ![c].pc = "get", ![c].resume = ResumeFrom(Job(c))]
    /\ UNCHANGED <<serves, files, owner, active, canceled>>

\* A staged leftover goes first, a file that matches is left alone, also by
\* FileFresh, and a partial of a file with a checksum is resumed.
Check(c) ==
    /\ At(c, "check")
    /\ staged' = IF Job(c).stage THEN [staged EXCEPT ![Dst(c)] = Nothing] ELSE staged
    /\ IF Matches(Job(c)) THEN Return(c, "unchanged")
       ELSE call' = [call EXCEPT ![c].pc = "get", ![c].resume = ResumeFrom(Job(c))]
    /\ UNCHANGED <<serves, final, partial, owner, active, canceled>>

-----------------------------------------------------------------------------
(* Source.Get, one mirror at a time. *)
\* No answer, a server error, a range that cannot be satisfied: the next one.
MirrorFails(c) ==
    /\ At(c, "get")
    /\ IF call[c].tried + 1 < Len(Bases[SourceOf[c]])
         THEN call' = [call EXCEPT ![c].start = Start(c), ![c].tried = @ + 1]
         ELSE Fail(c, "error")
    /\ UNCHANGED <<serves, files, owner, active, canceled>>

\* 403 ends the attempt.
Forbidden(c) ==
    /\ At(c, "get") /\ ~Canceled(c)
    /\ Fail(c, "error")
    /\ UNCHANGED <<serves, files, owner, active, canceled>>

\* 404 is authoritative.
NotFound(c) ==
    /\ At(c, "get") /\ ~Canceled(c)
    /\ Offered(c) = Nothing
    /\ Fail(c, "notfound")
    /\ UNCHANGED <<serves, files, owner, active, canceled>>

\* A file nothing is known of is asked for conditionally.
NotModified(c) ==
    /\ At(c, "get") /\ ~Canceled(c)
    /\ Job(c).want = Nothing /\ ~Job(c).fresh
    /\ final[Dst(c)] # Nothing /\ Offered(c) # Nothing
    /\ Appeared(Dst(c), Offered(c)) <= Appeared(Dst(c), final[Dst(c)])
    /\ Return(c, "unchanged")
    /\ UNCHANGED <<serves, files, owner, active, canceled>>

\* The mirror that answered is asked first from now on.
Answered(c) ==
    /\ At(c, "get") /\ ~Canceled(c)
    /\ Offered(c) # Nothing
    /\ active' = [active EXCEPT ![SourceOf[c]] = IF call[c].tried > 0 THEN Index(c) ELSE @]
    /\ UNCHANGED <<serves, final, staged, owner, canceled>>

\* 200: the partial file starts over.
Whole(c) ==
    /\ Answered(c)
    /\ partial' = [partial EXCEPT ![Dst(c)] = Nothing]
    /\ call' = [call EXCEPT ![c].pc = "copy", ![c].start = 0, ![c].tried = 0,
                            ![c].body = Offered(c), ![c].seen = Nothing]

\* 206: it is continued, and what it has feeds the hash.
Rest(c) ==
    /\ Answered(c)
    /\ call[c].resume \in 1..(Len(Offered(c)) - 1)
    /\ call' = [call EXCEPT ![c].pc = "copy", ![c].start = 0, ![c].tried = 0,
                            ![c].seen = partial[Dst(c)],
                            ![c].body = SubSeq(Offered(c), call[c].resume + 1, Len(Offered(c)))]
    /\ UNCHANGED partial

-----------------------------------------------------------------------------
(* io.Copy into the partial file, verification, rename. *)
Copy(c) ==
    /\ At(c, "copy") /\ call[c].body # Nothing
    /\ partial' = [partial EXCEPT ![Dst(c)] = Append(@, Head(call[c].body))]
    /\ call' = [call EXCEPT ![c].body = Tail(@), ![c].seen = Append(@, Head(call[c].body))]
    /\ UNCHANGED <<serves, final, staged, owner, active, canceled>>

\* The transfer breaks off; only what can be verified later is kept.
BreakOff(c) ==
    /\ At(c, "copy") /\ call[c].body # Nothing
    /\ partial' = IF KeepsPartial(Job(c)) THEN partial ELSE [partial EXCEPT ![Dst(c)] = Nothing]
    /\ Fail(c, "error")
    /\ UNCHANGED <<serves, final, staged, owner, active, canceled>>

\* Mutant: only the size is compared.
VerifiedBySize(c) == Job(c).want # Nothing => Len(call[c].seen) = Len(Job(c).want)

\* The size, when it is known, and the checksum of what was written.
Verified(c) ==
    /\ Job(c).want # Nothing => Len(call[c].seen) = Len(Job(c).want)
    /\ KeepsPartial(Job(c)) => call[c].seen = Job(c).want

Received(c) == At(c, "copy") /\ call[c].body = Nothing

Install(c) ==
    /\ Received(c) /\ Verified(c)
    /\ IF Job(c).stage
         THEN staged' = [staged EXCEPT ![Dst(c)] = partial[Dst(c)]] /\ UNCHANGED final
         ELSE final' = [final EXCEPT ![Dst(c)] = partial[Dst(c)]] /\ UNCHANGED staged
    /\ partial' = [partial EXCEPT ![Dst(c)] = Nothing]
    /\ Return(c, IF Job(c).stage THEN "staged" ELSE "fetched")
    /\ UNCHANGED <<serves, owner, active, canceled>>

\* A mismatch invalidates the partial file, and a rename may fail.
Reject(c) ==
    /\ Received(c)
    /\ partial' = [partial EXCEPT ![Dst(c)] = Nothing]
    /\ Fail(c, IF Verified(c) THEN "error" ELSE "mismatch")
    /\ UNCHANGED <<serves, final, staged, owner, active, canceled>>

-----------------------------------------------------------------------------
Retries(c) == call[c].resume > 0 /\ call[c].result # "notfound" /\ ~Canceled(c)

\* A resumed download that fails is repeated once, from scratch.
TryAgain(c) ==
    /\ At(c, "failed") /\ Retries(c)
    /\ partial' = [partial EXCEPT ![Dst(c)] = Nothing]
    /\ call' = [call EXCEPT ![c] = [NoCall EXCEPT !.pc = "get", !.job = Job(c)]]
    /\ UNCHANGED <<serves, final, staged, owner, active, canceled>>

\* Mutant: the first failure is the last.
GiveUpAtOnce(c) ==
    /\ At(c, "failed")
    /\ Return(c, call[c].result)
    /\ UNCHANGED <<serves, files, owner, active, canceled>>

GiveUp(c) ==
    /\ At(c, "failed") /\ ~Retries(c)
    /\ Return(c, call[c].result)
    /\ UNCHANGED <<serves, files, owner, active, canceled>>

Unlock(c) ==
    /\ At(c, "unlock")
    /\ owner' = [owner EXCEPT ![Stripe[Dst(c)]] = Nobody]
    /\ call' = [call EXCEPT ![c].pc = "done"]
    /\ UNCHANGED <<serves, files, active, canceled>>

CallStep(c) ==
    \/ Lock(c) \/ Check(c)
    \/ MirrorFails(c) \/ Forbidden(c) \/ NotFound(c) \/ NotModified(c) \/ Whole(c) \/ Rest(c)
    \/ Copy(c) \/ BreakOff(c) \/ Install(c) \/ Reject(c)
    \/ TryAgain(c) \/ GiveUp(c) \/ Unlock(c)

\* A mirror catches up with upstream.
Advance(m) ==
    /\ m \in Moving /\ serves[m] < Last
    /\ serves' = [serves EXCEPT ![m] = @ + 1]
    /\ UNCHANGED <<files, owner, active, canceled, call>>

-----------------------------------------------------------------------------
(* Properties. *)
FetchTypeOK ==
    /\ serves \in [Mirror -> Gen]
    /\ owner \in [Stripes -> Caller \cup {Nobody}]
    /\ \A s \in Source : active[s] \in 0..(Len(Bases[s]) - 1)
    /\ canceled \in SUBSET Source
    /\ \A c \in Caller :
          /\ call[c].pc \in {"idle", "lock", "check", "get", "copy", "failed", "unlock", "done"}
          /\ call[c].result \in {"none", "unchanged", "fetched", "staged", "error", "mismatch", "notfound"}
          /\ call[c].resume > 0 => call[c].resume < Len(Job(c).want)

\* Whatever overlaps, breaks off, is resumed against another mirror or dies, a
\* published file and a staged one are complete copies of one generation's
\* (fetch.go "a crash never leaves an incomplete file at the final location",
\* "their partial downloads must not interleave").
WholeFiles ==
    \A p \in Path : {final[p], staged[p]} \subseteq Bodies(p) \cup {Nothing}

\* What a call reports about a file with a published checksum is true of the
\* file where the call leaves it: downloaded under that checksum or, when the
\* caller has existing files hashed, found with it.
ReportedAsListed ==
    \A c \in Caller : At(c, "unlock") /\ Job(c).want # Nothing /\ Job(c).summed =>
        /\ call[c].result = "fetched" => final[Dst(c)] = Job(c).want
        /\ call[c].result = "staged" => staged[Dst(c)] = Job(c).want
        /\ call[c].result = "unchanged" =>
              IF Job(c).deep THEN final[Dst(c)] = Job(c).want
              ELSE Len(final[Dst(c)]) = Len(Job(c).want)

\* A call that was not canceled blames a wrong checksum only on content that
\* a mirror served as a whole, never on what an earlier attempt had left behind
\* (fetch.go "The partial may not be a prefix of the current upstream file").
MismatchIsUpstreams ==
    [][\A c \in Caller :
          At(c, "failed") /\ At(c, "unlock")' /\ ~Canceled(c) /\ call[c].result = "mismatch"
              => call[c].seen \in Bodies(Dst(c))]_fetchVars
=============================================================================
