--------------------------- MODULE FetchPoolProofs ---------------------------
(***************************************************************************)
(* Proofs about FileFetch and FetchPool for every upstream, every set of   *)
(* mirrors, callers and destinations and every list of jobs: files appear  *)
(* whole, what a call reports is true, and what Many reports is, too, and  *)
(* a run promotes what it has staged itself.                               *)
(***************************************************************************)
EXTENDS FetchPool, SequenceTheorems, TLAPS

CallPlace == {"idle", "lock", "check", "get", "copy", "failed", "unlock", "done"}
CallResult == {"none", "unchanged", "fetched", "staged", "error", "mismatch", "notfound"}
CallRecord == [pc : CallPlace, job : FileJob \cup {NoJob}, resume : Nat, start : Nat, tried : Nat,
               body : Seq(Block), seen : Seq(Block), result : CallResult]

FetchTypes ==
    /\ serves \in [Mirror -> Gen]
    /\ final \in [Path -> Seq(Block)]
    /\ staged \in [Path -> Seq(Block)]
    /\ partial \in [Path -> Seq(Block)]
    /\ owner \in [Stripes -> Caller \cup {Nobody}]
    /\ active \in [Source -> Nat]
    /\ \A s \in Source : active[s] < Len(Bases[s])
    /\ canceled \in SUBSET Source
    /\ call \in [Caller -> CallRecord]
    /\ \A c \in Caller : At(c, "idle") \/ Job(c) \in FileJob

Findings == UNION {[1..n -> {"missing", "unchanged", "fetched", "staged"}] : n \in Nat}
PoolRecord ==
    [pc : {"idle", "dispatch", "wait", "returned", "promote"}, jobs : Seq(FileJob), next : Nat \ {0},
     err : {"none", "error"}, verdict : {"none", "ok", "error", "canceled"}, tolerant : BOOLEAN,
     found : Findings, missed : SUBSET Nat, keep : SUBSET Path,
     ours : SUBSET Path]

PoolTypes ==
    /\ pool \in PoolRecord
    /\ pool.next <= Len(pool.jobs) + 1
    /\ pool.missed \subseteq DOMAIN pool.jobs
    /\ pool.found \in [DOMAIN pool.jobs -> {"missing", "unchanged", "fetched", "staged"}]
    /\ at \in [Worker -> {Gone, Ready} \cup DOMAIN pool.jobs]

\* Between taking its stripe and giving it back.
Inside(c) == call[c].pc \in {"check", "get", "copy", "failed", "unlock"}

\* A call, the stripe it holds and the partial file it writes: what the hash is
\* fed is what the file has, and without a resumption, all of it from one body.
CallOK(c) ==
    /\ Inside(c) => owner[Stripe[Dst(c)]] = c
    /\ call[c].resume > 0 => KeepsPartial(Job(c)) /\ call[c].resume < Len(Job(c).want)
    /\ At(c, "copy") =>
          /\ call[c].seen = partial[Dst(c)]
          /\ call[c].resume = 0 => call[c].seen \o call[c].body \in Bodies(Dst(c))
    /\ At(c, "failed") =>
          /\ call[c].result \in {"error", "mismatch", "notfound"}
          /\ call[c].result = "mismatch" /\ call[c].resume = 0 => call[c].seen \in Bodies(Dst(c))

\* What a call is about to report.
ReportOK(c) ==
    At(c, "unlock") /\ Job(c).want # Nothing /\ Job(c).summed =>
        /\ call[c].result = "fetched" => final[Dst(c)] = Job(c).want
        /\ call[c].result = "staged" => staged[Dst(c)] = Job(c).want
        /\ call[c].result = "unchanged" =>
              IF Job(c).deep THEN final[Dst(c)] = Job(c).want
              ELSE Len(final[Dst(c)]) = Len(Job(c).want)

CallsInv == \A c \in Caller : CallOK(c) /\ ReportOK(c)

\* A worker works on the job it was sent, main on none before Many has succeeded,
\* and requests expect nothing.
WorkersInv ==
    \A w \in Worker :
        /\ at[w] \in {Gone, Ready} <=> At(w, "idle")
        /\ at[w] \notin {Gone, Ready} => Job(w) = Todo(at[w])

BystandersInv ==
    /\ At(Main, "idle") \/ (pool.pc = "returned" /\ pool.verdict = "ok")
    /\ \A h \in Request : Job(h).want = Nothing

\* Nothing is left to be said of job i.
Accounted(i) == pool.found[i] = "missing" => Todo(i).optional \/ i \in pool.missed

\* What is delivered is spared by pruning.
Kept == \A i \in DOMAIN pool.jobs : pool.found[i] # "missing" => Todo(i).path \in pool.keep

Verdicts ==
    /\ pool.pc = "dispatch" => pool.verdict = "none"
    /\ pool.pc = "wait" => pool.verdict # "ok" /\ (pool.verdict = "none" => Sent)

\* Until an error is seen, every job that was sent is with a worker or accounted
\* for, and an error that was raised stays in its channel until it is seen.
Pending ==
    pool.pc \in {"dispatch", "wait"} /\ pool.verdict = "none" /\ pool.err = "none" =>
        \A i \in 1..(pool.next - 1) : Accounted(i) \/ \E w \in Worker : at[w] = i

Concluded == pool.pc = "returned" /\ pool.verdict = "ok" => \A i \in DOMAIN pool.jobs : Accounted(i)

DoneInv == Kept /\ Verdicts /\ Pending /\ Concluded

Vacated == pool.pc \in {"idle", "returned", "promote"} => \A w \in Worker : at[w] = Gone

PoolIndInv ==
    /\ FetchTypes /\ PoolTypes /\ WholeFiles /\ CallsInv
    /\ WorkersInv /\ BystandersInv /\ DoneInv /\ Vacated
-----------------------------------------------------------------------------
(* Workers, requests and main are the callers, and distinct. *)
LEMMA CallersOf ==
    /\ Worker \subseteq Caller /\ Request \subseteq Caller /\ Main \in Caller
    /\ \A c \in Caller : c \in Worker \/ c \in Request \/ c = Main
    /\ Main \notin Worker /\ Main \notin Request /\ Worker \cap Request = {}
BY FetchPoolAssumption

(* What a job says, also the one of an idle call. *)
LEMMA JobFields ==
    /\ \A j \in FileJob \cup {NoJob} :
          /\ j.want \in Seq(Block) /\ j.summed \in BOOLEAN /\ j.deep \in BOOLEAN
          /\ j.stage \in BOOLEAN /\ j.fresh \in BOOLEAN /\ j.optional \in BOOLEAN
    /\ Nothing \in Seq(Block)
    /\ \A j \in FileJob : j.path \in Path /\ j.want \in Bodies(j.path) \cup {Nothing}
<1>1. ASSUME NEW j \in FileJob
      PROVE  /\ j.want \in Seq(Block) /\ j.summed \in BOOLEAN /\ j.deep \in BOOLEAN
             /\ j.stage \in BOOLEAN /\ j.fresh \in BOOLEAN /\ j.optional \in BOOLEAN
             /\ j.path \in Path /\ j.want \in Bodies(j.path) \cup {Nothing}
    BY DEF FileJob
<1>2. Nothing \in Seq(Block)
    BY EmptySeq DEF Nothing
<1>3. /\ NoJob.want \in Seq(Block) /\ NoJob.summed \in BOOLEAN /\ NoJob.deep \in BOOLEAN
      /\ NoJob.stage \in BOOLEAN /\ NoJob.fresh \in BOOLEAN /\ NoJob.optional \in BOOLEAN
    BY <1>2 DEF NoJob
<1>. QED
    BY <1>1, <1>2, <1>3, Zenon

(* What upstream publishes is made of blocks. *)
LEMMA BodyType ==
    ASSUME NEW g \in Gen, NEW p \in Path
    PROVE  Body[g][p] \in Seq(Block)
BY FileFetchAssumption

(* One block at a time, the rest of a body ends up after what it followed. *)
LEMMA MoveHead ==
    ASSUME NEW s \in Seq(Block), NEW b \in Seq(Block), b # <<>>
    PROVE  /\ Head(b) \in Block /\ Tail(b) \in Seq(Block)
           /\ Append(s, Head(b)) \in Seq(Block)
           /\ Append(s, Head(b)) \o Tail(b) = s \o b
<1>1. Head(b) \in Block /\ Tail(b) \in Seq(Block) /\ <<Head(b)>> \o Tail(b) = b
    BY HeadTailProperties, HeadTailAppend, AppendIsConcat, ConcatProperties
<1>2. Append(s, Head(b)) = s \o <<Head(b)>>
    BY <1>1, AppendIsConcat
<1>3. (s \o <<Head(b)>>) \o Tail(b) = s \o (<<Head(b)>> \o Tail(b))
    BY <1>1, ConcatAssociative
<1>. QED
    BY <1>1, <1>2, <1>3

(* The mirror that is asked, and what it has. *)
LEMMA AskedMirror ==
    ASSUME FetchTypes, NEW c \in Caller, ~At(c, "idle")
    PROVE  /\ SourceOf[c] \in Source /\ Start(c) \in Nat
           /\ Index(c) \in Nat /\ Index(c) < Len(Bases[SourceOf[c]])
           /\ Dst(c) \in Path /\ Offered(c) \in Seq(Block)
           /\ Offered(c) # Nothing => Offered(c) \in Bodies(Dst(c))
<1>1. /\ SourceOf[c] \in Source /\ Bases[SourceOf[c]] \in Seq(Mirror)
      /\ Len(Bases[SourceOf[c]]) \in Nat \ {0}
    BY FileFetchAssumption
<1>2. Start(c) \in Nat /\ call[c].tried \in Nat
    BY <1>1 DEF FetchTypes, CallRecord, Start
<1>3. \A n \in Nat, m \in Nat \ {0} : n % m \in Nat /\ n % m < m
    OBVIOUS
<1>4. Index(c) \in Nat /\ Index(c) < Len(Bases[SourceOf[c]])
  <2>. DEFINE n == Start(c) + call[c].tried
              m == Len(Bases[SourceOf[c]])
  <2>1. n \in Nat /\ m \in Nat \ {0}
    BY <1>1, <1>2
  <2>2. Index(c) = n % m
    BY DEF Index
  <2>. HIDE DEF n, m
  <2>3. n % m \in Nat /\ n % m < m
    BY <1>3, <2>1
  <2>. QED
    BY <2>2, <2>3 DEF m
<1>5. Asked(c) \in Mirror
    BY <1>1, <1>4 DEF Asked
<1>6. Dst(c) \in Path
    BY JobFields DEF FetchTypes, CallRecord, Job, Dst
<1>. QED
    BY <1>1, <1>2, <1>4, <1>5, <1>6, BodyType DEF FetchTypes, Offered, Bodies

(* A call in progress keeps its job, and steps change no other call. *)
LEMMA CallStepJob ==
    ASSUME FetchTypes, NEW c \in Caller, CallStep(c)
    PROVE  /\ ~At(c, "idle")
           /\ ~At(c, "idle")'
           /\ Job(c)' = Job(c)
           /\ call' = [call EXCEPT ![c] = call'[c]]
<1>. USE DEF FetchTypes, At, Job
<1>1. CASE Lock(c)
  <2>1. ~At(c, "idle")
    BY <1>1 DEF Lock
  <2>2. call' = [call EXCEPT ![c] = call'[c]]
    BY <1>1 DEF Lock
  <2>3. call'[c].pc # "idle" /\ call'[c].job = call[c].job
    BY <1>1 DEF Lock, CallRecord, NoCall
  <2>. QED
    BY <2>1, <2>2, <2>3
<1>2. CASE Check(c)
  <2>1. ~At(c, "idle") /\ c \in DOMAIN call
    BY <1>2 DEF Check
  <2>2. CASE Matches(Job(c))
    BY <1>2, <2>1, <2>2 DEF Check, Return, NoCall
  <2>3. CASE ~Matches(Job(c))
    <3>1. call' = [call EXCEPT ![c] = [call[c] EXCEPT !.pc = "get", !.resume = ResumeFrom(Job(c))]]
      BY <1>2, <2>3 DEF Check
    <3>2. call'[c].pc = "get" /\ call'[c].job = call[c].job
      BY <2>1, <3>1 DEF CallRecord
    <3>. QED
      BY <2>1, <3>1, <3>2
  <2>. QED
    BY <2>2, <2>3
<1>3. CASE MirrorFails(c)
  <2>1. At(c, "get")
    BY <1>3 DEF MirrorFails
  <2>2. CASE Fail(c, "error")
    <3>1. call' = [call EXCEPT ![c] = [call[c] EXCEPT !.pc = "failed", !.result = "error",
                                                      !.start = 0, !.tried = 0, !.body = Nothing]]
      BY <2>2 DEF Fail
    <3>2. call'[c].pc = "failed" /\ call'[c].job = call[c].job
      BY <3>1 DEF CallRecord
    <3>. QED
      BY <2>1, <3>1, <3>2
  <2>3. CASE ~Fail(c, "error")
    <3>1. call' = [call EXCEPT ![c] = [call[c] EXCEPT !.start = Start(c), !.tried = call[c].tried + 1]]
      BY <1>3, <2>3 DEF MirrorFails
    <3>2. call'[c].pc = call[c].pc /\ call'[c].job = call[c].job
      BY <3>1 DEF CallRecord
    <3>. QED
      BY <2>1, <3>1, <3>2
  <2>. QED
    BY <2>2, <2>3
<1>4. CASE Forbidden(c)
  <2>1. ~At(c, "idle")
    BY <1>4 DEF Forbidden
  <2>2. call' = [call EXCEPT ![c] = call'[c]]
    BY <1>4 DEF Forbidden, Fail
  <2>3. call'[c].pc # "idle" /\ call'[c].job = call[c].job
    BY <1>4 DEF Forbidden, Fail, CallRecord, NoCall
  <2>. QED
    BY <2>1, <2>2, <2>3
<1>5. CASE NotFound(c)
  <2>1. ~At(c, "idle")
    BY <1>5 DEF NotFound
  <2>2. call' = [call EXCEPT ![c] = call'[c]]
    BY <1>5 DEF NotFound, Fail
  <2>3. call'[c].pc # "idle" /\ call'[c].job = call[c].job
    BY <1>5 DEF NotFound, Fail, CallRecord, NoCall
  <2>. QED
    BY <2>1, <2>2, <2>3
<1>6. CASE NotModified(c)
  <2>1. ~At(c, "idle")
    BY <1>6 DEF NotModified
  <2>2. call' = [call EXCEPT ![c] = call'[c]]
    BY <1>6 DEF NotModified, Return
  <2>3. call'[c].pc # "idle" /\ call'[c].job = call[c].job
    BY <1>6 DEF NotModified, Return, CallRecord, NoCall
  <2>. QED
    BY <2>1, <2>2, <2>3
<1>7. CASE Whole(c)
  <2>1. ~At(c, "idle")
    BY <1>7 DEF Whole, Answered
  <2>2. call' = [call EXCEPT ![c] = call'[c]]
    BY <1>7 DEF Whole, Answered
  <2>3. call'[c].pc # "idle" /\ call'[c].job = call[c].job
    BY <1>7 DEF Whole, Answered, CallRecord, NoCall
  <2>. QED
    BY <2>1, <2>2, <2>3
<1>8. CASE Rest(c)
  <2>1. ~At(c, "idle")
    BY <1>8 DEF Rest, Answered
  <2>2. call' = [call EXCEPT ![c] = call'[c]]
    BY <1>8 DEF Rest, Answered
  <2>3. call'[c].pc # "idle" /\ call'[c].job = call[c].job
    BY <1>8 DEF Rest, Answered, CallRecord, NoCall
  <2>. QED
    BY <2>1, <2>2, <2>3
<1>9. CASE Copy(c)
  <2>1. ~At(c, "idle")
    BY <1>9 DEF Copy
  <2>2. call' = [call EXCEPT ![c] = call'[c]]
    BY <1>9 DEF Copy
  <2>3. call'[c].pc # "idle" /\ call'[c].job = call[c].job
    BY <1>9 DEF Copy, CallRecord, NoCall
  <2>. QED
    BY <2>1, <2>2, <2>3
<1>10. CASE BreakOff(c)
  <2>1. ~At(c, "idle")
    BY <1>10 DEF BreakOff
  <2>2. call' = [call EXCEPT ![c] = call'[c]]
    BY <1>10 DEF BreakOff, Fail
  <2>3. call'[c].pc # "idle" /\ call'[c].job = call[c].job
    BY <1>10 DEF BreakOff, Fail, CallRecord, NoCall
  <2>. QED
    BY <2>1, <2>2, <2>3
<1>11. CASE Install(c)
  <2>1. ~At(c, "idle")
    BY <1>11 DEF Install, Received
  <2>2. call' = [call EXCEPT ![c] = call'[c]]
    BY <1>11 DEF Install, Received, Return
  <2>3. call'[c].pc # "idle" /\ call'[c].job = call[c].job
    BY <1>11 DEF Install, Received, Return, CallRecord, NoCall
  <2>. QED
    BY <2>1, <2>2, <2>3
<1>12. CASE Reject(c)
  <2>1. ~At(c, "idle")
    BY <1>12 DEF Reject, Received
  <2>2. call' = [call EXCEPT ![c] = call'[c]]
    BY <1>12 DEF Reject, Received, Fail
  <2>3. call'[c].pc # "idle" /\ call'[c].job = call[c].job
    BY <1>12 DEF Reject, Received, Fail, CallRecord, NoCall
  <2>. QED
    BY <2>1, <2>2, <2>3
<1>13. CASE TryAgain(c)
  <2>1. ~At(c, "idle")
    BY <1>13 DEF TryAgain
  <2>2. call' = [call EXCEPT ![c] = call'[c]]
    BY <1>13 DEF TryAgain
  <2>3. call'[c].pc # "idle" /\ call'[c].job = call[c].job
    BY <1>13 DEF TryAgain, CallRecord, NoCall
  <2>. QED
    BY <2>1, <2>2, <2>3
<1>14. CASE GiveUp(c)
  <2>1. ~At(c, "idle")
    BY <1>14 DEF GiveUp
  <2>2. call' = [call EXCEPT ![c] = call'[c]]
    BY <1>14 DEF GiveUp, Return
  <2>3. call'[c].pc # "idle" /\ call'[c].job = call[c].job
    BY <1>14 DEF GiveUp, Return, CallRecord, NoCall
  <2>. QED
    BY <2>1, <2>2, <2>3
<1>15. CASE Unlock(c)
  <2>1. ~At(c, "idle")
    BY <1>15 DEF Unlock
  <2>2. call' = [call EXCEPT ![c] = call'[c]]
    BY <1>15 DEF Unlock
  <2>3. call'[c].pc # "idle" /\ call'[c].job = call[c].job
    BY <1>15 DEF Unlock, CallRecord, NoCall
  <2>. QED
    BY <2>1, <2>2, <2>3
<1>. QED
    BY <1>1, <1>2, <1>3, <1>4, <1>5, <1>6, <1>7, <1>8, <1>9, <1>10, <1>11, <1>12, <1>13, <1>14,
       <1>15 DEF CallStep

(* Only part of a file with a checksum is resumed. *)
LEMMA ResumeType ==
    ASSUME FetchTypes, NEW j \in FileJob
    PROVE  /\ ResumeFrom(j) \in Nat
           /\ ResumeFrom(j) > 0 => KeepsPartial(j) /\ ResumeFrom(j) < Len(j.want)
BY JobFields DEF FetchTypes, ResumeFrom

(* A failure leaves a call of its type. *)
LEMMA FailRecord ==
    ASSUME FetchTypes, NEW c \in Caller, NEW why \in CallResult, Fail(c, why)
    PROVE  call'[c] \in CallRecord
<1>1. \A r \in CallRecord :
         [r EXCEPT !.pc = "failed", !.result = why, !.start = 0, !.tried = 0, !.body = Nothing]
            \in CallRecord
    BY JobFields DEF CallRecord, CallPlace
<1>. QED
    BY <1>1 DEF FetchTypes, Fail

(* So does a return. *)
LEMMA ReturnRecord ==
    ASSUME FetchTypes, NEW c \in Caller, NEW why \in CallResult, Return(c, why), ~At(c, "idle")
    PROVE  call'[c] \in CallRecord
<1>1. \A j \in FileJob : [NoCall EXCEPT !.pc = "unlock", !.job = j, !.result = why] \in CallRecord
    BY JobFields DEF CallRecord, CallPlace, NoCall
<1>. QED
    BY <1>1 DEF FetchTypes, Return

(* A call's record keeps its type. *)
LEMMA CallStepRecord ==
    ASSUME FetchTypes, NEW c \in Caller, CallStep(c)
    PROVE  call'[c] \in CallRecord
<1>. USE DEF FetchTypes, At, Job, Dst
<1>1. CASE Lock(c)
  <2>1. \A r \in CallRecord : [r EXCEPT !.pc = "check"] \in CallRecord
    BY DEF CallRecord, CallPlace
  <2>. QED
    BY <1>1, <2>1 DEF Lock
<1>2. CASE Check(c)
  <2>1. CASE Matches(Job(c))
    BY <1>2, <2>1, ReturnRecord DEF Check, CallResult
  <2>2. CASE ~Matches(Job(c))
    <3>1. \A r \in CallRecord, n \in Nat : [r EXCEPT !.pc = "get", !.resume = n] \in CallRecord
      BY DEF CallRecord, CallPlace
    <3>2. ResumeFrom(Job(c)) \in Nat
      BY <1>2, ResumeType DEF Check
    <3>3. call' = [call EXCEPT ![c] = [call[c] EXCEPT !.pc = "get", !.resume = ResumeFrom(Job(c))]]
      BY <1>2, <2>2 DEF Check
    <3>. QED
      BY <3>1, <3>2, <3>3
  <2>. QED
    BY <2>1, <2>2
<1>3. CASE MirrorFails(c)
  <2>1. CASE Fail(c, "error")
    BY <1>3, <2>1, FailRecord DEF MirrorFails, CallResult
  <2>2. CASE ~Fail(c, "error")
    <3>1. \A r \in CallRecord, n \in Nat, m \in Nat : [r EXCEPT !.start = n, !.tried = m] \in CallRecord
      BY DEF CallRecord
    <3>2. Start(c) \in Nat /\ call[c].tried + 1 \in Nat
      BY <1>3, AskedMirror DEF MirrorFails, CallRecord
    <3>3. call' = [call EXCEPT ![c] = [call[c] EXCEPT !.start = Start(c), !.tried = call[c].tried + 1]]
      BY <1>3, <2>2 DEF MirrorFails
    <3>. QED
      BY <3>1, <3>2, <3>3
  <2>. QED
    BY <2>1, <2>2
<1>4. CASE Forbidden(c)
  <2>1. "error" \in CallResult
    BY DEF CallResult
  <2>. QED
    BY <1>4, <2>1, FailRecord DEF Forbidden
<1>5. CASE NotFound(c)
  <2>1. "notfound" \in CallResult
    BY DEF CallResult
  <2>. QED
    BY <1>5, <2>1, FailRecord DEF NotFound
<1>6. CASE NotModified(c)
  <2>1. "unchanged" \in CallResult
    BY DEF CallResult
  <2>. QED
    BY <1>6, <2>1, ReturnRecord DEF NotModified
<1>7. CASE Whole(c)
  <2>1. \A r \in CallRecord, b \in Seq(Block) :
           [r EXCEPT !.pc = "copy", !.start = 0, !.tried = 0, !.body = b, !.seen = Nothing] \in CallRecord
    BY JobFields DEF CallRecord, CallPlace
  <2>2. Offered(c) \in Seq(Block)
    BY <1>7, AskedMirror DEF Whole, Answered
  <2>. QED
    BY <1>7, <2>1, <2>2 DEF Whole
<1>8. CASE Rest(c)
  <2>1. \A r \in CallRecord, s \in Seq(Block), b \in Seq(Block) :
           [r EXCEPT !.pc = "copy", !.start = 0, !.tried = 0, !.seen = s, !.body = b] \in CallRecord
    BY JobFields DEF CallRecord, CallPlace
  <2>2. Offered(c) \in Seq(Block) /\ partial[Dst(c)] \in Seq(Block)
    BY <1>8, AskedMirror DEF Rest, Answered
  <2>3. SubSeq(Offered(c), call[c].resume + 1, Len(Offered(c))) \in Seq(Block)
    <3>1. call[c].resume + 1 \in 1..Len(Offered(c)) /\ Len(Offered(c)) \in 1..Len(Offered(c))
      BY <1>8, <2>2 DEF Rest
    <3>. QED
      BY <2>2, <3>1, SubSeqProperties
  <2>. QED
    BY <1>8, <2>1, <2>2, <2>3 DEF Rest
<1>9. CASE Copy(c)
  <2>1. \A r \in CallRecord, b \in Seq(Block), s \in Seq(Block) :
           [r EXCEPT !.body = b, !.seen = s] \in CallRecord
    BY DEF CallRecord
  <2>2. call[c].body \in Seq(Block) /\ call[c].seen \in Seq(Block)
    BY DEF CallRecord
  <2>3. Tail(call[c].body) \in Seq(Block) /\ Append(call[c].seen, Head(call[c].body)) \in Seq(Block)
    BY <1>9, <2>2, MoveHead DEF Copy, Nothing
  <2>4. call' = [call EXCEPT ![c].body = Tail(call[c].body),
                             ![c].seen = Append(call[c].seen, Head(call[c].body))]
    BY <1>9 DEF Copy
  <2>. QED
    BY <2>1, <2>3, <2>4
<1>10. CASE BreakOff(c)
  <2>1. "error" \in CallResult
    BY DEF CallResult
  <2>. QED
    BY <1>10, <2>1, FailRecord DEF BreakOff
<1>11. CASE Install(c)
  <2>1. {"staged", "fetched"} \subseteq CallResult
    BY DEF CallResult
  <2>. QED
    BY <1>11, <2>1, ReturnRecord DEF Install, Received
<1>12. CASE Reject(c)
  <2>1. {"error", "mismatch"} \subseteq CallResult
    BY DEF CallResult
  <2>. QED
    BY <1>12, <2>1, FailRecord DEF Reject, Received
<1>13. CASE TryAgain(c)
  <2>1. \A j \in FileJob : [NoCall EXCEPT !.pc = "get", !.job = j] \in CallRecord
    BY JobFields DEF CallRecord, CallPlace, CallResult, NoCall
  <2>. QED
    BY <1>13, <2>1 DEF TryAgain
<1>14. CASE GiveUp(c)
  <2>1. call[c].result \in CallResult
    BY DEF CallRecord
  <2>. QED
    BY <1>14, <2>1, ReturnRecord DEF GiveUp
<1>15. CASE Unlock(c)
  <2>1. \A r \in CallRecord : [r EXCEPT !.pc = "done"] \in CallRecord
    BY DEF CallRecord, CallPlace
  <2>. QED
    BY <1>15, <2>1 DEF Unlock
<1>. QED
    BY <1>1, <1>2, <1>3, <1>4, <1>5, <1>6, <1>7, <1>8, <1>9, <1>10, <1>11, <1>12, <1>13, <1>14,
       <1>15 DEF CallStep

(* So do the files, the sources and the stripes. *)
LEMMA CallStepFiles ==
    ASSUME FetchTypes, NEW c \in Caller, CallStep(c)
    PROVE  /\ \A f \in {final', staged', partial'} : f \in [Path -> Seq(Block)]
           /\ active' \in [Source -> Nat] /\ \A s \in Source : active'[s] < Len(Bases[s])
           /\ owner' \in [Stripes -> Caller \cup {Nobody}] /\ UNCHANGED <<serves, canceled>>
<1>. USE JobFields DEF FetchTypes, At, Job, Dst, files, Stripes
<1>1. CASE Lock(c)
    BY <1>1 DEF Lock
<1>2. CASE Check(c)
    BY <1>2 DEF Check
<1>3. CASE MirrorFails(c)
    BY <1>3 DEF MirrorFails
<1>4. CASE Forbidden(c)
    BY <1>4 DEF Forbidden
<1>5. CASE NotFound(c)
    BY <1>5 DEF NotFound
<1>6. CASE NotModified(c)
    BY <1>6 DEF NotModified
<1>7. CASE Whole(c)
  <2>1. /\ SourceOf[c] \in Source /\ Dst(c) \in Path
        /\ Index(c) \in Nat /\ Index(c) < Len(Bases[SourceOf[c]])
    BY <1>7, AskedMirror DEF Whole, Answered
  <2>. QED
    BY <1>7, <2>1 DEF Whole, Answered
<1>8. CASE Rest(c)
  <2>1. SourceOf[c] \in Source /\ Index(c) \in Nat /\ Index(c) < Len(Bases[SourceOf[c]])
    BY <1>8, AskedMirror DEF Rest, Answered
  <2>. QED
    BY <1>8, <2>1 DEF Rest, Answered
<1>9. CASE Copy(c)
  <2>1. Dst(c) \in Path /\ partial[Dst(c)] \in Seq(Block) /\ call[c].body \in Seq(Block)
    BY <1>9, AskedMirror DEF Copy, CallRecord
  <2>2. Append(partial[Dst(c)], Head(call[c].body)) \in Seq(Block)
    BY <1>9, <2>1, MoveHead DEF Copy, Nothing
  <2>. QED
    BY <1>9, <2>1, <2>2 DEF Copy
<1>10. CASE BreakOff(c)
    BY <1>10 DEF BreakOff
<1>11. CASE Install(c)
  <2>1. Dst(c) \in Path /\ partial[Dst(c)] \in Seq(Block)
    BY <1>11 DEF Install, Received
  <2>2. partial' = [partial EXCEPT ![Dst(c)] = Nothing]
    BY <1>11 DEF Install
  <2>3. final' \in {final, [final EXCEPT ![Dst(c)] = partial[Dst(c)]]}
    BY <1>11 DEF Install
  <2>4. staged' \in {staged, [staged EXCEPT ![Dst(c)] = partial[Dst(c)]]}
    BY <1>11 DEF Install
  <2>5. UNCHANGED <<active, owner, serves, canceled>>
    BY <1>11 DEF Install
  <2>6. partial' \in [Path -> Seq(Block)]
    BY <2>1, <2>2
  <2>7. final' \in [Path -> Seq(Block)]
    BY <2>1, <2>3
  <2>8. staged' \in [Path -> Seq(Block)]
    BY <2>1, <2>4
  <2>. QED
    BY <2>5, <2>6, <2>7, <2>8
<1>12. CASE Reject(c)
    BY <1>12 DEF Reject
<1>13. CASE TryAgain(c)
    BY <1>13 DEF TryAgain
<1>14. CASE GiveUp(c)
    BY <1>14 DEF GiveUp
<1>15. CASE Unlock(c)
    BY <1>15 DEF Unlock
<1>. QED
    BY <1>1, <1>2, <1>3, <1>4, <1>5, <1>6, <1>7, <1>8, <1>9, <1>10, <1>11, <1>12, <1>13, <1>14,
       <1>15 DEF CallStep

(* Calls keep to their types. *)
LEMMA CallStepTypes ==
    ASSUME FetchTypes, NEW c \in Caller, CallStep(c)
    PROVE  FetchTypes'
<1>1. call' \in [Caller -> CallRecord]
    BY CallStepJob, CallStepRecord DEF FetchTypes
<1>2. \A d \in Caller : (At(d, "idle") \/ Job(d) \in FileJob)'
    BY CallStepJob DEF FetchTypes, At, Job
<1>. QED
    BY <1>1, <1>2, CallStepFiles DEF FetchTypes

(* A call touches nothing but its own file and stripe. *)
LEMMA CallStepLocal ==
    ASSUME FetchTypes, NEW c \in Caller, CallStep(c)
    PROVE  /\ \A p \in Path \ {Dst(c)} : final'[p] = final[p] /\ staged'[p] = staged[p] /\ partial'[p] = partial[p]
           /\ \A x \in Stripes \ {Stripe[Dst(c)]} : owner'[x] = owner[x]
           /\ Inside(c) \/ (At(c, "lock") /\ owner[Stripe[Dst(c)]] = Nobody)
<1>. USE DEF FetchTypes, At, Job, Dst, files, Inside
<1>1. CASE Lock(c)
    BY <1>1 DEF Lock
<1>2. CASE Check(c)
    BY <1>2 DEF Check
<1>3. CASE MirrorFails(c)
    BY <1>3 DEF MirrorFails
<1>4. CASE Forbidden(c)
    BY <1>4 DEF Forbidden
<1>5. CASE NotFound(c)
    BY <1>5 DEF NotFound
<1>6. CASE NotModified(c)
    BY <1>6 DEF NotModified
<1>7. CASE Whole(c)
    BY <1>7 DEF Whole, Answered
<1>8. CASE Rest(c)
    BY <1>8 DEF Rest, Answered
<1>9. CASE Copy(c)
    BY <1>9 DEF Copy
<1>10. CASE BreakOff(c)
    BY <1>10 DEF BreakOff
<1>11. CASE Install(c)
    BY <1>11 DEF Install, Received
<1>12. CASE Reject(c)
    BY <1>12 DEF Reject, Received
<1>13. CASE TryAgain(c)
    BY <1>13 DEF TryAgain
<1>14. CASE GiveUp(c)
    BY <1>14 DEF GiveUp
<1>15. CASE Unlock(c)
    BY <1>15 DEF Unlock
<1>. QED
    BY <1>1, <1>2, <1>3, <1>4, <1>5, <1>6, <1>7, <1>8, <1>9, <1>10, <1>11, <1>12, <1>13, <1>14,
       <1>15 DEF CallStep

(* So it leaves the calls of others alone, which hold other stripes. *)
LEMMA CallStepOthers ==
    ASSUME FetchTypes, CallsInv, NEW c \in Caller, CallStep(c), NEW d \in Caller \ {c}
    PROVE  CallOK(d)' /\ ReportOK(d)'
<1>1. call'[d] = call[d]
    BY CallStepJob DEF FetchTypes
<1>2. CASE Inside(d)
  <2>1. owner[Stripe[Dst(d)]] = d /\ Dst(d) \in Path /\ Stripe[Dst(d)] \in Stripes
    BY <1>2, JobFields DEF CallsInv, CallOK, FetchTypes, Inside, At, Job, Dst, Stripes
  <2>2. owner[Stripe[Dst(c)]] # d
    BY CallStepLocal, FileFetchAssumption DEF CallsInv, CallOK
  <2>3. /\ owner'[Stripe[Dst(d)]] = d
        /\ final'[Dst(d)] = final[Dst(d)] /\ staged'[Dst(d)] = staged[Dst(d)]
        /\ partial'[Dst(d)] = partial[Dst(d)]
    BY <2>1, <2>2, CallStepLocal
  <2>. QED
    BY <1>1, <2>3 DEF CallsInv, CallOK, ReportOK, At, Job, Dst, Inside
<1>3. CASE ~Inside(d)
    BY <1>1, <1>3 DEF CallsInv, CallOK, ReportOK, At, Job, Dst, Inside
<1>. QED
    BY <1>2, <1>3

(* A call under its stripe knows what the partial file holds. *)
LEMMA CallStepOwn ==
    ASSUME FetchTypes, NEW c \in Caller, CallOK(c), CallStep(c)
    PROVE  CallOK(c)'
<1>. USE JobFields DEF FetchTypes, At, Job, Dst, Inside, CallOK, NoCall
<1>1. CASE Lock(c)
    BY <1>1 DEF Lock, Stripes
<1>2. CASE Check(c)
  <2>1. /\ Job(c) \in FileJob /\ At(c, "check") /\ owner' = owner /\ final' = final
        /\ call'[c].job = Job(c) /\ owner[Stripe[Dst(c)]] = c
    BY <1>2 DEF Check, Return, CallRecord
  <2>2. CASE Matches(Job(c))
    <3>1. call'[c].pc = "unlock" /\ call'[c].resume = 0
      BY <1>2, <2>2 DEF Check, Return
    <3>. QED
      BY <2>1, <3>1
  <2>3. CASE ~Matches(Job(c))
    <3>1. call'[c].pc = "get" /\ call'[c].resume = ResumeFrom(Job(c))
      BY <1>2, <2>3 DEF Check, CallRecord
    <3>. QED
      BY <2>1, <3>1, ResumeType
  <2>. QED
    BY <2>2, <2>3
<1>3. CASE MirrorFails(c)
  <2>1. CASE Fail(c, "error")
    BY <1>3, <2>1 DEF MirrorFails, Fail
  <2>2. CASE ~Fail(c, "error")
    <3>1. /\ call'[c].pc = "get" /\ call'[c].job = call[c].job /\ call'[c].resume = call[c].resume
          /\ At(c, "get") /\ owner' = owner
      BY <1>3, <2>2 DEF MirrorFails, CallRecord
    <3>. QED
      BY <3>1
  <2>. QED
    BY <2>1, <2>2
<1>4. CASE Forbidden(c)
    BY <1>4 DEF Forbidden, Fail
<1>5. CASE NotFound(c)
    BY <1>5 DEF NotFound, Fail
<1>6. CASE NotModified(c)
    BY <1>6 DEF NotModified, Return
<1>7. CASE Whole(c)
  <2>1. /\ Dst(c) \in Path /\ Offered(c) \in Seq(Block)
        /\ Offered(c) # Nothing => Offered(c) \in Bodies(Dst(c))
    BY <1>7, AskedMirror DEF Whole, Answered
  <2>2. Nothing \o Offered(c) = Offered(c)
    BY <2>1, ConcatEmptySeq DEF Nothing
  <2>3. /\ call'[c].pc = "copy" /\ call'[c].seen = Nothing /\ call'[c].body = Offered(c)
        /\ call'[c].job = Job(c) /\ call'[c].resume = call[c].resume /\ partial'[Dst(c)] = Nothing
        /\ At(c, "get") /\ Offered(c) # Nothing /\ owner' = owner
    BY <1>7, <2>1 DEF Whole, Answered, CallRecord
  <2>. QED
    BY <2>1, <2>2, <2>3
<1>8. CASE Rest(c)
    BY <1>8 DEF Rest, Answered
<1>9. CASE Copy(c)
  <2>1. call[c].body \in Seq(Block) /\ call[c].seen \in Seq(Block)
    BY DEF CallRecord
  <2>2. Append(call[c].seen, Head(call[c].body)) \o Tail(call[c].body) = call[c].seen \o call[c].body
    BY <1>9, <2>1, MoveHead DEF Copy, Nothing
  <2>3. /\ call'[c].pc = "copy" /\ call'[c].seen = Append(call[c].seen, Head(call[c].body))
        /\ call'[c].body = Tail(call[c].body) /\ call'[c].job = Job(c)
        /\ call'[c].resume = call[c].resume /\ At(c, "copy") /\ owner' = owner
    BY <1>9 DEF Copy, CallRecord
  <2>4. partial'[Dst(c)] = Append(partial[Dst(c)], Head(call[c].body))
    BY <1>9 DEF Copy
  <2>. QED
    BY <2>2, <2>3, <2>4
<1>10. CASE BreakOff(c)
    BY <1>10 DEF BreakOff, Fail
<1>11. CASE Install(c)
    BY <1>11 DEF Install, Received, Return
<1>12. CASE Reject(c)
  <2>1. call[c].seen \in Seq(Block) /\ call[c].body = <<>>
    BY <1>12 DEF CallRecord, Reject, Received, Nothing
  <2>2. call[c].seen \o call[c].body = call[c].seen
    BY <2>1, ConcatEmptySeq
  <2>. QED
    BY <1>12, <2>2 DEF Reject, Received, Fail
<1>13. CASE TryAgain(c)
    BY <1>13 DEF TryAgain
<1>14. CASE GiveUp(c)
    BY <1>14 DEF GiveUp, Return
<1>15. CASE Unlock(c)
    BY <1>15 DEF Unlock
<1>. QED
    BY <1>1, <1>2, <1>3, <1>4, <1>5, <1>6, <1>7, <1>8, <1>9, <1>10, <1>11, <1>12, <1>13, <1>14,
       <1>15 DEF CallStep

(* What it reports it has checked. *)
LEMMA CallStepReport ==
    ASSUME FetchTypes, NEW c \in Caller, CallOK(c), ReportOK(c), CallStep(c)
    PROVE  ReportOK(c)'
<1>. USE JobFields DEF FetchTypes, At, Job, Dst, ReportOK, NoCall
<1>1. CASE Lock(c)
    BY <1>1 DEF Lock
<1>2. CASE Check(c)
  <2>1. Job(c) \in FileJob /\ final' = final
    BY <1>2 DEF Check
  <2>4. call'[c].job = Job(c)
    BY <1>2, CallStepJob DEF CallStep
  <2>2. CASE Matches(Job(c))
    <3>1. call'[c].pc = "unlock" /\ call'[c].result = "unchanged"
      BY <1>2, <2>2 DEF Check, Return
    <3>. QED
      BY <2>1, <2>2, <2>4, <3>1 DEF Matches
  <2>3. CASE ~Matches(Job(c))
    <3>1. call'[c].pc = "get" /\ call'[c].resume = ResumeFrom(Job(c))
      BY <1>2, <2>3 DEF Check, CallRecord
    <3>. QED
      BY <3>1
  <2>. QED
    BY <2>2, <2>3
<1>3. CASE MirrorFails(c)
  <2>1. CASE Fail(c, "error")
    BY <1>3, <2>1 DEF MirrorFails, Fail
  <2>2. CASE ~Fail(c, "error")
    <3>1. /\ call'[c].pc = "get" /\ call'[c].job = call[c].job /\ call'[c].resume = call[c].resume
          /\ At(c, "get") /\ owner' = owner
      BY <1>3, <2>2 DEF MirrorFails, CallRecord
    <3>. QED
      BY <3>1
  <2>. QED
    BY <2>1, <2>2
<1>4. CASE Forbidden(c)
    BY <1>4 DEF Forbidden, Fail
<1>5. CASE NotFound(c)
    BY <1>5 DEF NotFound, Fail
<1>6. CASE NotModified(c)
    BY <1>6 DEF NotModified, Return
<1>7. CASE Whole(c)
    BY <1>7 DEF Whole, Answered
<1>8. CASE Rest(c)
    BY <1>8 DEF Rest, Answered
<1>9. CASE Copy(c)
    BY <1>9 DEF Copy
<1>10. CASE BreakOff(c)
    BY <1>10 DEF BreakOff, Fail
<1>11. CASE Install(c)
  <2>1. /\ Job(c) \in FileJob /\ Dst(c) \in Path /\ call'[c].job = Job(c)
        /\ call'[c].result = IF Job(c).stage THEN "staged" ELSE "fetched"
    BY <1>11 DEF Install, Received, Return
  <2>2. Job(c).want # Nothing /\ Job(c).summed => partial[Dst(c)] = Job(c).want
    BY <1>11 DEF Install, Received, Verified, KeepsPartial, CallOK
  <2>3. /\ Job(c).stage => staged'[Dst(c)] = partial[Dst(c)]
        /\ ~Job(c).stage => final'[Dst(c)] = partial[Dst(c)]
    BY <1>11, <2>1 DEF Install
  <2>. QED
    BY <2>1, <2>2, <2>3
<1>12. CASE Reject(c)
    BY <1>12 DEF Reject, Received, Fail
<1>13. CASE TryAgain(c)
    BY <1>13 DEF TryAgain
<1>14. CASE GiveUp(c)
  <2>1. call'[c].result = call[c].result /\ call[c].result \in {"error", "mismatch", "notfound"}
    BY <1>14 DEF GiveUp, Return, CallOK
  <2>. QED
    BY <2>1
<1>15. CASE Unlock(c)
    BY <1>15 DEF Unlock
<1>. QED
    BY <1>1, <1>2, <1>3, <1>4, <1>5, <1>6, <1>7, <1>8, <1>9, <1>10, <1>11, <1>12, <1>13, <1>14,
       <1>15 DEF CallStep

(* What is renamed into place has been verified, or came whole from one mirror. *)
LEMMA CallStepWhole ==
    ASSUME FetchTypes, WholeFiles, NEW c \in Caller, CallOK(c), CallStep(c)
    PROVE  WholeFiles'
<1>. USE DEF FetchTypes, WholeFiles, files
<1>1. CASE Lock(c)
    BY <1>1 DEF Lock
<1>2. CASE Check(c)
    BY <1>2 DEF Check
<1>3. CASE MirrorFails(c)
    BY <1>3 DEF MirrorFails
<1>4. CASE Forbidden(c)
    BY <1>4 DEF Forbidden
<1>5. CASE NotFound(c)
    BY <1>5 DEF NotFound
<1>6. CASE NotModified(c)
    BY <1>6 DEF NotModified
<1>7. CASE Whole(c)
    BY <1>7 DEF Whole, Answered
<1>8. CASE Rest(c)
    BY <1>8 DEF Rest, Answered
<1>9. CASE Copy(c)
    BY <1>9 DEF Copy
<1>10. CASE BreakOff(c)
    BY <1>10 DEF BreakOff
<1>11. CASE Install(c)
  <2>1. Job(c) \in FileJob /\ call[c].seen \in Seq(Block) /\ call[c].body = <<>>
    BY <1>11 DEF Install, Received, At, CallRecord, Nothing
  <2>2. Dst(c) \in Path /\ Job(c).want \in Bodies(Dst(c)) \cup {Nothing}
    BY <2>1, JobFields DEF Job, Dst
  <2>3. call[c].seen \o call[c].body = call[c].seen
    BY <2>1, ConcatEmptySeq
  <2>4. call[c].seen \in Bodies(Dst(c))
    <3>1. CASE KeepsPartial(Job(c))
      BY <1>11, <2>2, <3>1 DEF Install, Verified, KeepsPartial
    <3>2. CASE ~KeepsPartial(Job(c))
      <4>1. call[c].resume = 0
        BY <2>1, <3>2 DEF CallOK, CallRecord
      <4>. QED
        BY <1>11, <2>3, <4>1 DEF Install, Received, CallOK
    <3>. QED
      BY <3>1, <3>2
  <2>5. partial[Dst(c)] \in Bodies(Dst(c))
    BY <1>11, <2>4 DEF Install, Received, CallOK
  <2>6. /\ final' \in {final, [final EXCEPT ![Dst(c)] = partial[Dst(c)]]}
        /\ staged' \in {staged, [staged EXCEPT ![Dst(c)] = partial[Dst(c)]]}
    BY <1>11 DEF Install
  <2>7. \A p \in Path : {final'[p], staged'[p]} \subseteq {final[p], staged[p], partial[Dst(c)]}
                       /\ (p # Dst(c) => final'[p] = final[p] /\ staged'[p] = staged[p])
    BY <2>2, <2>6
  <2>. QED
    BY <2>5, <2>7
<1>12. CASE Reject(c)
    BY <1>12 DEF Reject
<1>13. CASE TryAgain(c)
    BY <1>13 DEF TryAgain
<1>14. CASE GiveUp(c)
    BY <1>14 DEF GiveUp
<1>15. CASE Unlock(c)
    BY <1>15 DEF Unlock
<1>. QED
    BY <1>1, <1>2, <1>3, <1>4, <1>5, <1>6, <1>7, <1>8, <1>9, <1>10, <1>11, <1>12, <1>13, <1>14,
       <1>15 DEF CallStep

\* The steps of Many, of its caller and of requests between their calls of File.
PoolStep ==
    \/ \E w \in Worker : Dispatch(w) \/ Deliver(w) \/ Skip(w) \/ Raise(w) \/ Quit(w)
    \/ \E list \in JobLists : Begin(list)
    \/ TakeError \/ SeeCanceled \/ CloseIndexes \/ ReturnMany
    \/ Abandon \/ Refetched \/ StartPromoting \/ Promote \/ Finish
    \/ \E i \in DOMAIN pool.jobs : Refetch(i)
    \/ \E h \in Request, j \in OnDemand : Ask(h, j)
    \/ \E h \in Request : Answer(h)
    \/ Cancel \/ Crash

(* A step is a call's, the pool's, a mirror's, or none. *)
LEMMA NextKinds ==
    ASSUME [Next]_vars
    PROVE  \/ (\E c \in Caller : CallStep(c)) /\ UNCHANGED <<pool, at>>
           \/ PoolStep
           \/ (\E m \in Mirror : Advance(m)) /\ UNCHANGED <<pool, at>>
           \/ UNCHANGED vars
<1>1. CASE \E w \in Worker : WorkerStep(w)
    BY <1>1, CallersOf DEF WorkerStep, PoolStep
<1>2. CASE \E h \in Request : RequestStep(h)
    BY <1>2, CallersOf DEF RequestStep, PoolStep
<1>3. CASE MainStep
    BY <1>3, CallersOf DEF MainStep, PoolStep
<1>. QED
    BY <1>1, <1>2, <1>3 DEF Next, PoolStep

\* A call that has not begun, or has been told its job.
FreshCall == {NoCall} \cup {[NoCall EXCEPT !.pc = "lock", !.job = j] : j \in FileJob}

(* A file that is asked for again is a job, too. *)
LEMMA FreshJob ==
    ASSUME NEW j \in FileJob
    PROVE  [j EXCEPT !.deep = FALSE, !.fresh = TRUE] \in FileJob
<1>1. [j EXCEPT !.deep = FALSE, !.fresh = TRUE] \in
         [path : Path, want : Seq(Block), summed : BOOLEAN, deep : BOOLEAN,
          stage : BOOLEAN, fresh : BOOLEAN, optional : BOOLEAN]
    BY DEF FileJob
<1>2. /\ [j EXCEPT !.deep = FALSE, !.fresh = TRUE].want = j.want
      /\ [j EXCEPT !.deep = FALSE, !.fresh = TRUE].path = j.path
    BY DEF FileJob
<1>. QED
    BY <1>1, <1>2, JobFields DEF FileJob

(* A call that has not begun resumes nothing. *)
LEMMA FreshOK ==
    ASSUME NEW r \in FreshCall
    PROVE  /\ r \in CallRecord /\ r.pc \in {"idle", "lock"} /\ r.resume = 0
           /\ r.pc = "idle" \/ r.job \in FileJob
<1>1. CASE r = NoCall
  <2>1. NoCall \in CallRecord
    BY JobFields DEF CallRecord, CallPlace, CallResult, NoCall
  <2>. QED
    BY <1>1, <2>1 DEF NoCall
<1>2. CASE \E j \in FileJob : r = [NoCall EXCEPT !.pc = "lock", !.job = j]
  <2>1. PICK j \in FileJob : r = [NoCall EXCEPT !.pc = "lock", !.job = j]
    BY <1>2
  <2>2. r.pc = "lock" /\ r.resume = 0 /\ r.job = j
    BY <2>1 DEF NoCall
  <2>3. r \in CallRecord
    BY <2>1, JobFields DEF CallRecord, CallPlace, CallResult, NoCall
  <2>. QED
    BY <2>2, <2>3
<1>. QED
    BY <1>1, <1>2 DEF FreshCall

\* What such a step does to calls, stripes and partial files; the crash alone
\* takes stripes away, and ends every call.
Handover ==
    /\ call' = [c \in Caller |-> call'[c]] /\ partial' = partial /\ serves' = serves
    /\ \A c \in Caller : call'[c] \in {call[c]} \cup FreshCall
    /\ \/ owner' = owner
       \/ owner' \in [Stripes -> {Nobody}] /\ \A c \in Caller : call'[c] = NoCall

(* Many and its callers only start calls and take their results. *)
LEMMA PoolStepCalls ==
    ASSUME FetchTypes, PoolTypes, PoolStep
    PROVE  Handover
<1>. USE CallersOf, JobFields DEF FetchTypes, PoolTypes, PoolRecord, fetchVars, files,
        FreshCall, Invoke, Hang, End, Handover
<1>1. ASSUME NEW list \in JobLists, Begin(list) PROVE Handover
    BY <1>1 DEF Begin
<1>2. ASSUME NEW w \in Worker, Dispatch(w) PROVE Handover
  <2>1. Todo(pool.next) \in FileJob
    BY <1>2 DEF Dispatch, Sent, Todo
  <2>. QED
    BY <1>2, <2>1 DEF Dispatch
<1>3. CASE TakeError
    BY <1>3 DEF TakeError
<1>4. CASE SeeCanceled
    BY <1>4 DEF SeeCanceled
<1>5. CASE CloseIndexes
    BY <1>5 DEF CloseIndexes
<1>6. ASSUME NEW w \in Worker, Deliver(w) PROVE Handover
    BY <1>6 DEF Deliver
<1>7. ASSUME NEW w \in Worker, Skip(w) PROVE Handover
    BY <1>7 DEF Skip
<1>8. ASSUME NEW w \in Worker, Raise(w) PROVE Handover
    BY <1>8 DEF Raise
<1>9. ASSUME NEW w \in Worker, Quit(w) PROVE Handover
    BY <1>9 DEF Quit
<1>10. CASE ReturnMany
    BY <1>10 DEF ReturnMany
<1>11. CASE Abandon
    BY <1>11 DEF Abandon
<1>12. ASSUME NEW i \in DOMAIN pool.jobs, Refetch(i) PROVE Handover
  <2>1. Todo(i) \in FileJob
    BY <1>12 DEF Refetch, Todo
  <2>2. [Todo(i) EXCEPT !.deep = FALSE, !.fresh = TRUE] \in FileJob
    BY <2>1, FreshJob
  <2>. QED
    BY <1>12, <2>2 DEF Refetch
<1>13. CASE Refetched
    BY <1>13 DEF Refetched
<1>14. CASE StartPromoting
    BY <1>14 DEF StartPromoting
<1>15. CASE Promote
    BY <1>15 DEF Promote
<1>16. CASE Finish
    BY <1>16 DEF Finish
<1>17. ASSUME NEW h \in Request, NEW j \in OnDemand, Ask(h, j) PROVE Handover
    BY <1>17, FetchPoolAssumption DEF Ask
<1>18. ASSUME NEW h \in Request, Answer(h) PROVE Handover
    BY <1>18 DEF Answer
<1>19. CASE Cancel
    BY <1>19 DEF Cancel
<1>20. CASE Crash
    BY <1>20 DEF Crash
<1>. QED
    BY <1>1, <1>2, <1>3, <1>4, <1>5, <1>6, <1>7, <1>8, <1>9, <1>10, <1>11, <1>12, <1>13, <1>14,
       <1>15, <1>16, <1>17, <1>18, <1>19, <1>20 DEF PoolStep

(* Sources and contexts stay in their ranges. *)
LEMMA PoolStepSources ==
    ASSUME FetchTypes, PoolStep
    PROVE  /\ active' \in [Source -> Nat]
           /\ (\A s \in Source : active'[s] < Len(Bases[s]))
           /\ canceled' \in SUBSET Source
<1>. USE CallersOf, FileFetchAssumption DEF FetchTypes, fetchVars, files, End, Context
<1>. DEFINE Goal ==
           /\ active' \in [Source -> Nat]
           /\ (\A s \in Source : active'[s] < Len(Bases[s]))
           /\ canceled' \in SUBSET Source
<1>1. ASSUME NEW list \in JobLists, Begin(list) PROVE Goal
    BY <1>1 DEF Begin
<1>2. ASSUME NEW w \in Worker, Dispatch(w) PROVE Goal
    BY <1>2 DEF Dispatch
<1>3. CASE TakeError
    BY <1>3 DEF TakeError
<1>4. CASE SeeCanceled
    BY <1>4 DEF SeeCanceled
<1>5. CASE CloseIndexes
    BY <1>5 DEF CloseIndexes
<1>6. ASSUME NEW w \in Worker, Deliver(w) PROVE Goal
    BY <1>6 DEF Deliver
<1>7. ASSUME NEW w \in Worker, Skip(w) PROVE Goal
    BY <1>7 DEF Skip
<1>8. ASSUME NEW w \in Worker, Raise(w) PROVE Goal
    BY <1>8 DEF Raise
<1>9. ASSUME NEW w \in Worker, Quit(w) PROVE Goal
    BY <1>9 DEF Quit
<1>10. CASE ReturnMany
    BY <1>10 DEF ReturnMany
<1>11. CASE Abandon
    BY <1>11 DEF Abandon
<1>12. ASSUME NEW i \in DOMAIN pool.jobs, Refetch(i) PROVE Goal
    BY <1>12 DEF Refetch
<1>13. CASE Refetched
  <2>1. SourceOf[Main] \in Source /\ \A s \in Source : 0 < Len(Bases[s])
    OBVIOUS
  <2>2. active' \in {active, [active EXCEPT ![SourceOf[Main]] = 0]}
    BY <1>13 DEF Refetched
  <2>3. canceled' \in {canceled, canceled \ {SourceOf[Main]}}
    BY <1>13 DEF Refetched
  <2>4. active' \in [Source -> Nat] /\ \A s \in Source : active'[s] < Len(Bases[s])
    <3>1. CASE active' = active
      BY <3>1
    <3>2. CASE active' = [active EXCEPT ![SourceOf[Main]] = 0]
      <4>1. active' \in [Source -> Nat]
        BY <2>1, <3>2
      <4>2. \A s \in Source : active'[s] = IF s = SourceOf[Main] THEN 0 ELSE active[s]
        BY <3>2
      <4>. QED
        BY <2>1, <4>1, <4>2
    <3>. QED
      BY <2>2, <3>1, <3>2
  <2>5. canceled' \in SUBSET Source
    BY <2>3
  <2>. QED
    BY <2>4, <2>5
<1>14. CASE StartPromoting
    BY <1>14 DEF StartPromoting
<1>15. CASE Promote
    BY <1>15 DEF Promote
<1>16. CASE Finish
    BY <1>16 DEF Finish
<1>17. ASSUME NEW h \in Request, NEW j \in OnDemand, Ask(h, j) PROVE Goal
    BY <1>17 DEF Ask
<1>18. ASSUME NEW h \in Request, Answer(h) PROVE Goal
    BY <1>18 DEF Answer
<1>19. CASE Cancel
    BY <1>19 DEF Cancel
<1>20. CASE Crash
    BY <1>20 DEF Crash
<1>. QED
    BY <1>1, <1>2, <1>3, <1>4, <1>5, <1>6, <1>7, <1>8, <1>9, <1>10, <1>11, <1>12, <1>13, <1>14,
       <1>15, <1>16, <1>17, <1>18, <1>19, <1>20 DEF PoolStep

(* Of the files only Promote changes any, and each to what is whole. *)
LEMMA PoolStepPromotes ==
    ASSUME FetchTypes, PoolTypes, WholeFiles, PoolStep
    PROVE  /\ WholeFiles'
           /\ final' \in [Path -> Seq(Block)]
           /\ staged' \in [Path -> Seq(Block)]
           /\ (UNCHANGED <<final, staged>> \/ pool.pc = "promote")
<1>. USE DEF FetchTypes, fetchVars, files, End, WholeFiles
<1>. DEFINE Goal ==
           /\ WholeFiles'
           /\ final' \in [Path -> Seq(Block)]
           /\ staged' \in [Path -> Seq(Block)]
           /\ (UNCHANGED <<final, staged>> \/ pool.pc = "promote")
<1>1. ASSUME NEW list \in JobLists, Begin(list) PROVE Goal
    BY <1>1 DEF Begin
<1>2. ASSUME NEW w \in Worker, Dispatch(w) PROVE Goal
    BY <1>2 DEF Dispatch
<1>3. CASE TakeError
    BY <1>3 DEF TakeError
<1>4. CASE SeeCanceled
    BY <1>4 DEF SeeCanceled
<1>5. CASE CloseIndexes
    BY <1>5 DEF CloseIndexes
<1>6. ASSUME NEW w \in Worker, Deliver(w) PROVE Goal
    BY <1>6 DEF Deliver
<1>7. ASSUME NEW w \in Worker, Skip(w) PROVE Goal
    BY <1>7 DEF Skip
<1>8. ASSUME NEW w \in Worker, Raise(w) PROVE Goal
    BY <1>8 DEF Raise
<1>9. ASSUME NEW w \in Worker, Quit(w) PROVE Goal
    BY <1>9 DEF Quit
<1>10. CASE ReturnMany
    BY <1>10 DEF ReturnMany
<1>11. CASE Abandon
    BY <1>11 DEF Abandon
<1>12. ASSUME NEW i \in DOMAIN pool.jobs, Refetch(i) PROVE Goal
    BY <1>12 DEF Refetch
<1>13. CASE Refetched
    BY <1>13 DEF Refetched
<1>14. CASE StartPromoting
    BY <1>14 DEF StartPromoting
<1>15. CASE Promote
  <2>1. Todo(pool.next) \in FileJob
    BY <1>15 DEF Promote, Sent, Todo, PoolTypes, PoolRecord
  <2>2. Todo(pool.next).path \in Path
    BY <2>1, JobFields
  <2>. DEFINE p == Todo(pool.next).path
  <2>3. /\ final' \in {final, [final EXCEPT ![p] = staged[p]]}
        /\ staged' \in {staged, [staged EXCEPT ![p] = Nothing]}
        /\ pool.pc = "promote"
    BY <1>15 DEF Promote
  <2>. HIDE DEF p
  <2>4. final' \in [Path -> Seq(Block)] /\ staged' \in [Path -> Seq(Block)]
    <3>1. p \in Path /\ Nothing \in Seq(Block) /\ staged[p] \in Seq(Block)
      BY <2>2, JobFields DEF p
    <3>2. final' \in [Path -> Seq(Block)]
      BY <2>3, <3>1
    <3>3. staged' \in [Path -> Seq(Block)]
      BY <2>3, <3>1
    <3>. QED
      BY <3>2, <3>3
  <2>5. \A q \in Path : final'[q] \in {final[q], staged[q]} /\ staged'[q] \in {staged[q], Nothing}
    BY <2>2, <2>3 DEF p
  <2>. QED
    BY <2>3, <2>4, <2>5
<1>16. CASE Finish
    BY <1>16 DEF Finish
<1>17. ASSUME NEW h \in Request, NEW j \in OnDemand, Ask(h, j) PROVE Goal
    BY <1>17 DEF Ask
<1>18. ASSUME NEW h \in Request, Answer(h) PROVE Goal
    BY <1>18 DEF Answer
<1>19. CASE Cancel
    BY <1>19 DEF Cancel
<1>20. CASE Crash
    BY <1>20 DEF Crash
<1>. QED
    BY <1>1, <1>2, <1>3, <1>4, <1>5, <1>6, <1>7, <1>8, <1>9, <1>10, <1>11, <1>12, <1>13, <1>14,
       <1>15, <1>16, <1>17, <1>18, <1>19, <1>20 DEF PoolStep

(* So calls in progress are not disturbed by the pool, nor by a promotion, during which
   no worker runs. *)
LEMMA PoolStepFetch ==
    ASSUME FetchTypes, PoolTypes, WholeFiles, CallsInv, WorkersInv, BystandersInv, Vacated, PoolStep
    PROVE  FetchTypes' /\ WholeFiles' /\ CallsInv'
<1>1. Handover
    BY PoolStepCalls
<1>2. /\ final' \in [Path -> Seq(Block)] /\ staged' \in [Path -> Seq(Block)] /\ WholeFiles'
      /\ UNCHANGED <<final, staged>> \/ pool.pc = "promote"
    BY PoolStepPromotes
<1>3. owner' \in [Stripes -> Caller \cup {Nobody}]
    BY <1>1 DEF Handover, FetchTypes
<1>4. call' \in [Caller -> CallRecord] /\ \A c \in Caller : (At(c, "idle") \/ Job(c) \in FileJob)'
    BY <1>1, FreshOK DEF Handover, FetchTypes, At, Job
<1>5. ASSUME NEW c \in Caller
      PROVE  CallOK(c)' /\ ReportOK(c)'
  <2>1. CASE call'[c] \in FreshCall
    BY <2>1, FreshOK DEF CallOK, ReportOK, Inside, At
  <2>2. CASE call'[c] = call[c] /\ call[c] \notin FreshCall
    <3>1. owner' = owner /\ partial' = partial
      BY <1>1, <2>2 DEF Handover, FreshCall
    <3>2. CallOK(c)'
      BY <2>2, <3>1 DEF CallsInv, CallOK, Inside, At, Job, Dst
    <3>3. CASE UNCHANGED <<final, staged>>
      BY <2>2, <3>2, <3>3 DEF CallsInv, ReportOK, At, Job, Dst
    <3>4. CASE pool.pc = "promote"
      <4>1. At(c, "idle") \/ Job(c).want = Nothing
        BY <3>4, CallersOf DEF WorkersInv, BystandersInv, Vacated
      <4>. QED
        BY <2>2, <3>2, <4>1 DEF ReportOK, At, Job
    <3>. QED
      BY <1>2, <3>3, <3>4
  <2>. QED
    BY <1>1, <2>1, <2>2 DEF Handover
<1>. QED
    BY <1>1, <1>2, <1>3, <1>4, <1>5, PoolStepSources DEF FetchTypes, CallsInv, Handover

(* An idle pool is of its type. *)
LEMMA NoPoolTyped ==
    NoPool \in PoolRecord
<1>1. NoPool.jobs \in Seq(FileJob) /\ NoPool.found \in [1..0 -> {"missing", "unchanged", "fetched", "staged"}]
    BY EmptySeq DEF NoPool
<1>2. NoPool.found \in Findings
    BY <1>1 DEF Findings
<1>. QED
    BY <1>1, <1>2 DEF NoPool, PoolRecord

(* A worker that works has a job, and Many waits for it. *)
LEMMA BusyWorker ==
    ASSUME PoolTypes, WorkersInv, Vacated, NEW w \in Worker, ~At(w, "idle")
    PROVE  /\ at[w] \in DOMAIN pool.jobs /\ at[w] \in 1..Len(pool.jobs) /\ at[w] \notin {Gone, Ready}
           /\ pool.pc \in {"dispatch", "wait"}
           /\ Job(w) = Todo(at[w]) /\ Todo(at[w]) \in FileJob
BY DEF PoolTypes, PoolRecord, WorkersInv, Vacated, Todo, Gone, Ready

(* The synchronization ends with all its workers gone and main at rest. *)
LEMMA AtTheEnd ==
    ASSUME FetchTypes, PoolTypes, WorkersInv, BystandersInv, Vacated,
           Abandon \/ (Refetched /\ End) \/ Finish
    PROVE  /\ pool' = NoPool /\ at' = at
           /\ \A w \in Worker : at[w] = Gone /\ call'[w] = call[w] /\ At(w, "idle")
           /\ At(Main, "idle")' /\ \A h \in Request : call'[h] = call[h]
<1>1. pool' = NoPool /\ at' = at
    BY DEF Abandon, Refetched, Finish, End
<1>2. pool.pc \in {"returned", "promote"}
    BY DEF Abandon, Refetched, Finish, At, BystandersInv
<1>3. \A w \in Worker : at[w] = Gone /\ At(w, "idle")
    BY <1>2 DEF Vacated, WorkersInv
<1>4. CASE Abandon \/ Finish
    BY <1>1, <1>3, <1>4 DEF Abandon, Finish, BystandersInv, At
<1>5. CASE Refetched
  <2>1. call' = [call EXCEPT ![Main] = NoCall]
    BY <1>5 DEF Refetched, Hang
  <2>2. call'[Main].pc = "idle" /\ \A c \in Caller \ {Main} : call'[c] = call[c]
    BY <2>1, CallersOf DEF FetchTypes, NoCall
  <2>. QED
    BY <1>1, <1>3, <2>2, CallersOf DEF At
<1>. QED
    BY <1>4, <1>5

\* Nothing of the pool changes but what is known to be this run's.
RecordsOurs ==
    /\ pool' \in PoolRecord /\ at' = at
    /\ pool'.pc = pool.pc /\ pool'.jobs = pool.jobs /\ pool'.next = pool.next /\ pool'.err = pool.err
    /\ pool'.verdict = pool.verdict /\ pool'.tolerant = pool.tolerant /\ pool'.found = pool.found
    /\ pool'.missed = pool.missed /\ pool'.keep = pool.keep /\ pool'.ours = Ours(Main)

(* A refetch only adds to that, or it failed and all ends.                   *)
LEMMA AfterRefetch ==
    ASSUME FetchTypes, PoolTypes, Refetched
    PROVE  RecordsOurs \/ End
<1>. SUFFICES ASSUME ~End PROVE RecordsOurs
    OBVIOUS
<1>1. pool' = [pool EXCEPT !.ours = Ours(Main)] /\ at' = at
    BY DEF Refetched
<1>2. Dst(Main) \in Path
    BY CallersOf, JobFields DEF Refetched, FetchTypes, At, Job, Dst
<1>3. pool \in PoolRecord /\ pool.ours \in SUBSET Path
    BY DEF PoolTypes, PoolRecord
<1>4. Ours(Main) \in SUBSET Path
    BY <1>2, <1>3 DEF Ours
<1>. HIDE DEF Ours
<1>5. \A r \in PoolRecord, o \in SUBSET Path : [r EXCEPT !.ours = o] \in PoolRecord
    BY DEF PoolRecord
<1>. QED
    BY <1>1, <1>3, <1>4, <1>5 DEF RecordsOurs, PoolRecord

(* What Many holds keeps to its types. *)
LEMMA PoolStepTypes ==
    ASSUME FetchTypes, PoolTypes, WorkersInv, BystandersInv, Vacated, PoolStep
    PROVE  PoolTypes'
<1>. USE CallersOf DEF PoolTypes
<1>1. ASSUME NEW list \in JobLists, Begin(list) PROVE PoolTypes'
  <2>1. list.jobs \in Seq(FileJob) /\ list.tolerant \in BOOLEAN
    BY FetchPoolAssumption
  <2>. DEFINE found0 == [i \in DOMAIN list.jobs |-> "missing"]
  <2>2. /\ found0 \in [1..Len(list.jobs) -> {"missing", "unchanged", "fetched", "staged"}]
        /\ DOMAIN list.jobs = 1..Len(list.jobs) /\ Len(list.jobs) \in Nat
    BY <2>1
  <2>. HIDE DEF found0
  <2>3. \A jobs \in Seq(FileJob), b \in BOOLEAN, f \in Findings :
           [NoPool EXCEPT !.pc = "dispatch", !.jobs = jobs, !.tolerant = b, !.found = f] \in PoolRecord
    BY NoPoolTyped DEF PoolRecord
  <2>4. pool' = [NoPool EXCEPT !.pc = "dispatch", !.jobs = list.jobs, !.tolerant = list.tolerant,
                               !.found = found0]
    BY <1>1 DEF Begin, found0
  <2>5. pool' \in PoolRecord
    <3>1. found0 \in Findings
      BY <2>2 DEF Findings
    <3>. QED
      BY <2>1, <2>3, <2>4, <3>1
  <2>6. pool'.jobs = list.jobs /\ pool'.next = 1 /\ pool'.missed = {} /\ pool'.found = found0
    BY <2>4 DEF NoPool
  <2>7. at' \in [Worker -> {Gone, Ready} \cup DOMAIN pool'.jobs]
    BY <1>1 DEF Begin
  <2>. QED
    BY <2>2, <2>5, <2>6, <2>7
<1>2. ASSUME NEW w \in Worker, Dispatch(w) PROVE PoolTypes'
  <2>1. \A r \in PoolRecord, n \in Nat \ {0} : [r EXCEPT !.next = n] \in PoolRecord
    BY DEF PoolRecord
  <2>2. /\ pool.next \in Nat \ {0} /\ pool.next \in DOMAIN pool.jobs
        /\ pool.next + 1 <= Len(pool.jobs) + 1 /\ pool.next + 1 \in Nat \ {0}
    BY <1>2 DEF Dispatch, Sent, PoolRecord
  <2>3. pool' = [pool EXCEPT !.next = pool.next + 1] /\ at' = [at EXCEPT ![w] = pool.next]
    BY <1>2 DEF Dispatch
  <2>4. pool' \in PoolRecord
    BY <2>1, <2>2, <2>3
  <2>5. /\ pool'.next = pool.next + 1 /\ pool'.jobs = pool.jobs /\ pool'.found = pool.found
        /\ pool'.missed = pool.missed
    BY <2>3 DEF PoolRecord
  <2>. QED
    BY <2>2, <2>3, <2>4, <2>5
<1>3. CASE TakeError
    BY <1>3 DEF PoolRecord, fetchVars, TakeError
<1>4. CASE SeeCanceled
    BY <1>4 DEF PoolRecord, fetchVars, SeeCanceled
<1>5. CASE CloseIndexes
    BY <1>5 DEF PoolRecord, fetchVars, CloseIndexes
<1>6. ASSUME NEW w \in Worker, Deliver(w) PROVE PoolTypes'
  <2>1. /\ at[w] \in 1..Len(pool.jobs) /\ at[w] \in DOMAIN pool.jobs /\ DOMAIN pool.jobs = 1..Len(pool.jobs)
        /\ Dst(w) \in Path /\ Len(pool.jobs) \in Nat
    BY <1>6, BusyWorker, JobFields DEF Deliver, At, Dst, Job, PoolRecord
  <2>. DEFINE f == [pool.found EXCEPT ![at[w]] = Outcome(w)]
              k == pool.keep \cup {Dst(w)}
              o == Ours(w)
  <2>2. /\ f \in [1..Len(pool.jobs) -> {"missing", "unchanged", "fetched", "staged"}]
        /\ k \in SUBSET Path
        /\ o \in SUBSET Path
    BY <1>6, <2>1 DEF Deliver, PoolRecord, Ours
  <2>3. pool' = [pool EXCEPT !.found = f, !.keep = k, !.ours = o] /\ at' = [at EXCEPT ![w] = Ready]
    BY <1>6 DEF Deliver
  <2>. HIDE DEF f, k, o
  <2>4. \A r \in PoolRecord, l, n \in SUBSET Path, g \in Findings :
           [r EXCEPT !.found = g, !.keep = l, !.ours = n] \in PoolRecord
    BY DEF PoolRecord
  <2>5. pool' \in PoolRecord
    <3>1. f \in Findings
      BY <2>1, <2>2 DEF Findings
    <3>. QED
      BY <2>2, <2>3, <2>4, <3>1
  <2>6. /\ pool'.next = pool.next /\ pool'.jobs = pool.jobs /\ pool'.found = f
        /\ pool'.missed = pool.missed
    BY <2>3 DEF PoolRecord
  <2>. QED
    BY <2>1, <2>2, <2>3, <2>5, <2>6
<1>7. ASSUME NEW w \in Worker, Skip(w) PROVE PoolTypes'
  <2>1. at[w] \in DOMAIN pool.jobs /\ at[w] \in Nat
    BY <1>7, BusyWorker DEF Skip, At
  <2>2. pool' \in {pool, [pool EXCEPT !.missed = pool.missed \cup {at[w]}]} /\ at' = [at EXCEPT ![w] = Ready]
    BY <1>7 DEF Skip
  <2>3. \A r \in PoolRecord, s \in SUBSET Nat : [r EXCEPT !.missed = s] \in PoolRecord
    BY DEF PoolRecord
  <2>4. pool.missed \cup {at[w]} \in SUBSET Nat
    BY <2>1 DEF PoolRecord
  <2>5. pool' \in PoolRecord
    <3>1. CASE pool' = pool
      BY <3>1
    <3>2. CASE pool' = [pool EXCEPT !.missed = pool.missed \cup {at[w]}]
      BY <2>3, <2>4, <3>2
    <3>. QED
      BY <2>2, <3>1, <3>2
  <2>6. /\ pool'.next = pool.next /\ pool'.jobs = pool.jobs /\ pool'.found = pool.found
        /\ pool'.missed \in {pool.missed, pool.missed \cup {at[w]}}
    BY <2>2 DEF PoolRecord
  <2>. QED
    BY <2>1, <2>2, <2>5, <2>6
<1>8. ASSUME NEW w \in Worker, Raise(w) PROVE PoolTypes'
    BY <1>8 DEF PoolRecord, fetchVars, Raise
<1>9. ASSUME NEW w \in Worker, Quit(w) PROVE PoolTypes'
    BY <1>9 DEF PoolRecord, fetchVars, Quit
<1>10. CASE ReturnMany
    BY <1>10 DEF PoolRecord, fetchVars, ReturnMany
<1>11. CASE Abandon
  <2>1. pool' = NoPool /\ at' = at /\ \A w \in Worker : at[w] = Gone
    BY <1>11, AtTheEnd
  <2>2. Len(NoPool.jobs) = 0 /\ DOMAIN NoPool.jobs = {} /\ DOMAIN NoPool.found = {}
    BY DEF NoPool
  <2>. QED
    BY <2>1, <2>2, NoPoolTyped DEF NoPool
<1>12. ASSUME NEW i \in DOMAIN pool.jobs, Refetch(i) PROVE PoolTypes'
    BY <1>12 DEF PoolRecord, fetchVars, Refetch
<1>13. CASE Refetched
  <2>1. CASE RecordsOurs
    BY <2>1 DEF RecordsOurs
  <2>2. CASE End
    <3>1. pool' = NoPool /\ at' = at /\ \A w \in Worker : at[w] = Gone
      BY <1>13, <2>2, AtTheEnd
    <3>2. Len(NoPool.jobs) = 0 /\ DOMAIN NoPool.jobs = {} /\ DOMAIN NoPool.found = {}
      BY DEF NoPool
    <3>. QED
      BY <3>1, <3>2, NoPoolTyped DEF NoPool
  <2>. QED
    BY <1>13, <2>1, <2>2, AfterRefetch
<1>14. CASE StartPromoting
  <2>1. pool' \in PoolRecord /\ at' = at
    <3>1. \A r \in PoolRecord, n \in Nat \ {0} : [r EXCEPT !.pc = "promote", !.next = n] \in PoolRecord
      BY DEF PoolRecord
    <3>2. 1 \in Nat \ {0}
      OBVIOUS
    <3>. QED
      BY <1>14, <3>1, <3>2 DEF StartPromoting, fetchVars
  <2>2. pool'.next = 1 /\ pool'.jobs = pool.jobs /\ pool'.found = pool.found /\ pool'.missed = pool.missed
    BY <1>14 DEF StartPromoting, PoolRecord
  <2>3. Len(pool.jobs) \in Nat
    BY DEF PoolRecord
  <2>. QED
    BY <2>1, <2>2, <2>3
<1>15. CASE Promote
  <2>1. \A r \in PoolRecord, n \in Nat \ {0} : [r EXCEPT !.next = n] \in PoolRecord
    BY DEF PoolRecord
  <2>2. /\ pool.next \in Nat \ {0} /\ pool.next + 1 \in Nat \ {0}
        /\ Len(pool.jobs) \in Nat /\ pool.next <= Len(pool.jobs)
    BY <1>15 DEF Promote, Sent, PoolRecord
  <2>3. pool' = [pool EXCEPT !.next = pool.next + 1] /\ at' = at
    BY <1>15 DEF Promote
  <2>4. pool' \in PoolRecord
    BY <2>1, <2>2, <2>3
  <2>5. /\ pool'.next = pool.next + 1 /\ pool'.jobs = pool.jobs /\ pool'.found = pool.found
        /\ pool'.missed = pool.missed
    BY <2>3 DEF PoolRecord
  <2>. QED
    BY <2>2, <2>3, <2>4, <2>5
<1>16. CASE Finish
  <2>1. pool' = NoPool /\ at' = at /\ \A w \in Worker : at[w] = Gone
    BY <1>16, AtTheEnd
  <2>2. Len(NoPool.jobs) = 0 /\ DOMAIN NoPool.jobs = {} /\ DOMAIN NoPool.found = {}
    BY DEF NoPool
  <2>. QED
    BY <2>1, <2>2, NoPoolTyped DEF NoPool
<1>17. ASSUME NEW h \in Request, NEW j \in OnDemand, Ask(h, j) PROVE PoolTypes'
    BY <1>17 DEF PoolRecord, fetchVars, Ask
<1>18. ASSUME NEW h \in Request, Answer(h) PROVE PoolTypes'
    BY <1>18 DEF PoolRecord, fetchVars, Answer
<1>19. CASE Cancel
    BY <1>19 DEF PoolRecord, fetchVars, Cancel
<1>20. CASE Crash
  <2>1. pool' = NoPool /\ at' = [w \in Worker |-> Gone]
    BY <1>20 DEF Crash
  <2>2. Len(NoPool.jobs) = 0 /\ DOMAIN NoPool.jobs = {} /\ DOMAIN NoPool.found = {}
    BY DEF NoPool
  <2>. QED
    BY <2>1, <2>2, NoPoolTyped DEF NoPool
<1>. QED
    BY <1>1, <1>2, <1>3, <1>4, <1>5, <1>6, <1>7, <1>8, <1>9, <1>10, <1>11, <1>12, <1>13, <1>14,
       <1>15, <1>16, <1>17, <1>18, <1>19, <1>20 DEF PoolStep

(* A worker and its call agree on the job. *)
LEMMA PoolStepWorkers ==
    ASSUME FetchTypes, PoolTypes, WorkersInv, BystandersInv, Vacated, PoolStep
    PROVE  WorkersInv'
<1>. USE CallersOf DEF WorkersInv
<1>1. ASSUME NEW list \in JobLists, Begin(list) PROVE WorkersInv'
  <2>1. \A w \in Worker : at[w] = Gone /\ At(w, "idle") /\ at'[w] = Ready /\ call'[w] = call[w]
    BY <1>1 DEF Begin, Vacated, fetchVars
  <2>. QED
    BY <2>1 DEF At
<1>2. ASSUME NEW w \in Worker, Dispatch(w) PROVE WorkersInv'
  <2>1. /\ call' = [call EXCEPT ![w] = [NoCall EXCEPT !.pc = "lock", !.job = Todo(pool.next)]]
        /\ at' = [at EXCEPT ![w] = pool.next] /\ pool'.jobs = pool.jobs
    BY <1>2 DEF Dispatch, Invoke, PoolTypes, PoolRecord
  <2>2. pool.next \notin {Gone, Ready}
    BY DEF PoolTypes, PoolRecord, Gone, Ready
  <2>3. call'[w].pc = "lock" /\ call'[w].job = Todo(pool.next) /\ at'[w] = pool.next
    BY <2>1 DEF FetchTypes, PoolTypes, NoCall
  <2>4. \A v \in Worker \ {w} : call'[v] = call[v] /\ at'[v] = at[v]
    BY <2>1 DEF FetchTypes, PoolTypes
  <2>. QED
    BY <2>1, <2>2, <2>3, <2>4 DEF At, Job, Todo
<1>3. CASE TakeError
    BY <1>3 DEF PoolTypes, PoolRecord, FetchTypes, At, Job, Todo, Invoke, Hang, NoCall,
       fetchVars, files, NoPool, TakeError
<1>4. CASE SeeCanceled
    BY <1>4 DEF PoolTypes, PoolRecord, FetchTypes, At, Job, Todo, Invoke, Hang, NoCall,
       fetchVars, files, NoPool, SeeCanceled
<1>5. CASE CloseIndexes
    BY <1>5 DEF PoolTypes, PoolRecord, FetchTypes, At, Job, Todo, Invoke, Hang, NoCall,
       fetchVars, files, NoPool, CloseIndexes
<1>6. ASSUME NEW w \in Worker, Deliver(w) PROVE WorkersInv'
    BY <1>6 DEF PoolTypes, PoolRecord, FetchTypes, At, Job, Todo, Invoke, Hang, NoCall,
       fetchVars, files, NoPool, Deliver
<1>7. ASSUME NEW w \in Worker, Skip(w) PROVE WorkersInv'
    BY <1>7 DEF PoolTypes, PoolRecord, FetchTypes, At, Job, Todo, Invoke, Hang, NoCall,
       fetchVars, files, NoPool, Skip
<1>8. ASSUME NEW w \in Worker, Raise(w) PROVE WorkersInv'
    BY <1>8 DEF PoolTypes, PoolRecord, FetchTypes, At, Job, Todo, Invoke, Hang, NoCall,
       fetchVars, files, NoPool, Raise
<1>9. ASSUME NEW w \in Worker, Quit(w) PROVE WorkersInv'
    BY <1>9 DEF PoolTypes, PoolRecord, FetchTypes, At, Job, Todo, Invoke, Hang, NoCall,
       fetchVars, files, NoPool, Quit
<1>10. CASE ReturnMany
    BY <1>10 DEF PoolTypes, PoolRecord, FetchTypes, At, Job, Todo, Invoke, Hang, NoCall,
       fetchVars, files, NoPool, ReturnMany
<1>11. CASE Abandon
  <2>1. /\ pool' = NoPool /\ at' = at
        /\ \A w \in Worker : at[w] = Gone /\ call'[w] = call[w] /\ At(w, "idle")
    BY <1>11, AtTheEnd
  <2>. QED
    BY <2>1 DEF At
<1>12. ASSUME NEW i \in DOMAIN pool.jobs, Refetch(i) PROVE WorkersInv'
    BY <1>12 DEF PoolTypes, PoolRecord, FetchTypes, At, Job, Todo, Invoke, Hang, NoCall,
       fetchVars, files, NoPool, Refetch
<1>13. CASE Refetched
  <2>1. CASE RecordsOurs
    <3>1. \A w \in Worker : call'[w] = call[w]
      BY <1>13 DEF FetchTypes, Refetched, Hang
    <3>. QED
      BY <2>1, <3>1 DEF At, Job, Todo, RecordsOurs
  <2>2. CASE End
    <3>1. /\ pool' = NoPool /\ at' = at
          /\ \A w \in Worker : at[w] = Gone /\ call'[w] = call[w] /\ At(w, "idle")
      BY <1>13, <2>2, AtTheEnd
    <3>. QED
      BY <3>1 DEF At
  <2>. QED
    BY <1>13, <2>1, <2>2, AfterRefetch
<1>14. CASE StartPromoting
    BY <1>14 DEF PoolTypes, PoolRecord, FetchTypes, At, Job, Todo, Invoke, Hang, NoCall,
       fetchVars, files, NoPool, StartPromoting
<1>15. CASE Promote
    BY <1>15 DEF PoolTypes, PoolRecord, FetchTypes, At, Job, Todo, Invoke, Hang, NoCall,
       fetchVars, files, NoPool, Promote
<1>16. CASE Finish
  <2>1. /\ pool' = NoPool /\ at' = at
        /\ \A w \in Worker : at[w] = Gone /\ call'[w] = call[w] /\ At(w, "idle")
    BY <1>16, AtTheEnd
  <2>. QED
    BY <2>1 DEF At
<1>17. ASSUME NEW h \in Request, NEW j \in OnDemand, Ask(h, j) PROVE WorkersInv'
    BY <1>17 DEF PoolTypes, PoolRecord, FetchTypes, At, Job, Todo, Invoke, Hang, NoCall,
       fetchVars, files, NoPool, Ask
<1>18. ASSUME NEW h \in Request, Answer(h) PROVE WorkersInv'
    BY <1>18 DEF PoolTypes, PoolRecord, FetchTypes, At, Job, Todo, Invoke, Hang, NoCall,
       fetchVars, files, NoPool, Answer
<1>19. CASE Cancel
    BY <1>19 DEF PoolTypes, PoolRecord, FetchTypes, At, Job, Todo, Invoke, Hang, NoCall,
       fetchVars, files, NoPool, Cancel
<1>20. CASE Crash
    BY <1>20 DEF PoolTypes, PoolRecord, FetchTypes, At, Job, Todo, Invoke, Hang, NoCall,
       fetchVars, files, NoPool, Crash
<1>. QED
    BY <1>1, <1>2, <1>3, <1>4, <1>5, <1>6, <1>7, <1>8, <1>9, <1>10, <1>11, <1>12, <1>13, <1>14,
       <1>15, <1>16, <1>17, <1>18, <1>19, <1>20 DEF PoolStep

(* Main fetches for itself only after a success, and requests expect nothing. *)
LEMMA PoolStepBystanders ==
    ASSUME FetchTypes, PoolTypes, WorkersInv, BystandersInv, Vacated, PoolStep
    PROVE  BystandersInv'
<1>. USE CallersOf DEF BystandersInv
<1>1. ASSUME NEW list \in JobLists, Begin(list) PROVE BystandersInv'
    BY <1>1 DEF PoolTypes, PoolRecord, FetchTypes, At, Job, Todo, Invoke, Hang, NoCall,
       fetchVars, files, NoPool, NoJob, Begin
<1>2. ASSUME NEW w \in Worker, Dispatch(w) PROVE BystandersInv'
    BY <1>2 DEF PoolTypes, PoolRecord, FetchTypes, At, Job, Todo, Invoke, Hang, NoCall,
       fetchVars, files, NoPool, NoJob, Dispatch
<1>3. CASE TakeError
    BY <1>3 DEF PoolTypes, PoolRecord, FetchTypes, At, Job, Todo, Invoke, Hang, NoCall,
       fetchVars, files, NoPool, NoJob, TakeError
<1>4. CASE SeeCanceled
    BY <1>4 DEF PoolTypes, PoolRecord, FetchTypes, At, Job, Todo, Invoke, Hang, NoCall,
       fetchVars, files, NoPool, NoJob, SeeCanceled
<1>5. CASE CloseIndexes
    BY <1>5 DEF PoolTypes, PoolRecord, FetchTypes, At, Job, Todo, Invoke, Hang, NoCall,
       fetchVars, files, NoPool, NoJob, CloseIndexes
<1>6. ASSUME NEW w \in Worker, Deliver(w) PROVE BystandersInv'
    BY <1>6 DEF PoolTypes, PoolRecord, FetchTypes, At, Job, Todo, Invoke, Hang, NoCall,
       fetchVars, files, NoPool, NoJob, Deliver
<1>7. ASSUME NEW w \in Worker, Skip(w) PROVE BystandersInv'
    BY <1>7 DEF PoolTypes, PoolRecord, FetchTypes, At, Job, Todo, Invoke, Hang, NoCall,
       fetchVars, files, NoPool, NoJob, Skip
<1>8. ASSUME NEW w \in Worker, Raise(w) PROVE BystandersInv'
    BY <1>8 DEF PoolTypes, PoolRecord, FetchTypes, At, Job, Todo, Invoke, Hang, NoCall,
       fetchVars, files, NoPool, NoJob, Raise
<1>9. ASSUME NEW w \in Worker, Quit(w) PROVE BystandersInv'
    BY <1>9 DEF PoolTypes, PoolRecord, FetchTypes, At, Job, Todo, Invoke, Hang, NoCall,
       fetchVars, files, NoPool, NoJob, Quit
<1>10. CASE ReturnMany
    BY <1>10 DEF PoolTypes, PoolRecord, FetchTypes, At, Job, Todo, Invoke, Hang, NoCall,
       fetchVars, files, NoPool, NoJob, ReturnMany
<1>11. CASE Abandon
  <2>1. At(Main, "idle")' /\ \A h \in Request : call'[h] = call[h]
    BY <1>11, AtTheEnd
  <2>. QED
    BY <2>1 DEF Job
<1>12. ASSUME NEW i \in DOMAIN pool.jobs, Refetch(i) PROVE BystandersInv'
    BY <1>12 DEF PoolTypes, PoolRecord, FetchTypes, At, Job, Todo, Invoke, Hang, NoCall,
       fetchVars, files, NoPool, NoJob, Refetch
<1>13. CASE Refetched
  <2>1. call' = [call EXCEPT ![Main] = NoCall]
    BY <1>13 DEF Refetched, Hang
  <2>2. call'[Main].pc = "idle" /\ \A h \in Request : call'[h] = call[h]
    BY <2>1 DEF FetchTypes, NoCall
  <2>. QED
    BY <2>2 DEF At, Job
<1>14. CASE StartPromoting
    BY <1>14 DEF PoolTypes, PoolRecord, FetchTypes, At, Job, Todo, Invoke, Hang, NoCall,
       fetchVars, files, NoPool, NoJob, StartPromoting
<1>15. CASE Promote
    BY <1>15 DEF PoolTypes, PoolRecord, FetchTypes, At, Job, Todo, Invoke, Hang, NoCall,
       fetchVars, files, NoPool, NoJob, Promote
<1>16. CASE Finish
  <2>1. At(Main, "idle")' /\ \A h \in Request : call'[h] = call[h]
    BY <1>16, AtTheEnd
  <2>. QED
    BY <2>1 DEF Job
<1>17. ASSUME NEW h \in Request, NEW j \in OnDemand, Ask(h, j) PROVE BystandersInv'
  <2>1. j.want = Nothing
    BY FetchPoolAssumption
  <2>2. call' = [call EXCEPT ![h] = [NoCall EXCEPT !.pc = "lock", !.job = j]] /\ pool' = pool
    BY <1>17 DEF Ask, Invoke
  <2>3. call'[h].job.want = Nothing /\ \A c \in Caller \ {h} : call'[c] = call[c]
    BY <2>1, <2>2 DEF FetchTypes, NoCall
  <2>. QED
    BY <2>2, <2>3 DEF At, Job
<1>18. ASSUME NEW h \in Request, Answer(h) PROVE BystandersInv'
  <2>1. call' = [call EXCEPT ![h] = NoCall] /\ pool' = pool
    BY <1>18 DEF Answer, Hang
  <2>2. call'[h].job.want = Nothing /\ \A c \in Caller \ {h} : call'[c] = call[c]
    BY <2>1 DEF FetchTypes, NoCall, NoJob
  <2>. QED
    BY <2>1, <2>2 DEF At, Job
<1>19. CASE Cancel
    BY <1>19 DEF PoolTypes, PoolRecord, FetchTypes, At, Job, Todo, Invoke, Hang, NoCall,
       fetchVars, files, NoPool, NoJob, Cancel
<1>20. CASE Crash
  <2>1. \A c \in Caller : call'[c] = NoCall
    BY <1>20 DEF Crash
  <2>. QED
    BY <2>1 DEF At, Job, NoCall, NoJob
<1>. QED
    BY <1>1, <1>2, <1>3, <1>4, <1>5, <1>6, <1>7, <1>8, <1>9, <1>10, <1>11, <1>12, <1>13, <1>14,
       <1>15, <1>16, <1>17, <1>18, <1>19, <1>20 DEF PoolStep

(* No worker is left once Many has returned. *)
LEMMA PoolStepVacated ==
    ASSUME FetchTypes, PoolTypes, WorkersInv, BystandersInv, Vacated, PoolStep
    PROVE  Vacated'
<1>. USE CallersOf DEF Vacated
<1>1. ASSUME NEW list \in JobLists, Begin(list) PROVE Vacated'
    BY <1>1 DEF PoolTypes, PoolRecord, FetchTypes, At, Job, Todo, Invoke, Hang, NoCall,
       fetchVars, files, NoPool, Begin
<1>2. ASSUME NEW w \in Worker, Dispatch(w) PROVE Vacated'
    BY <1>2 DEF PoolTypes, PoolRecord, FetchTypes, At, Job, Todo, Invoke, Hang, NoCall,
       fetchVars, files, NoPool, Dispatch
<1>3. CASE TakeError
    BY <1>3 DEF PoolTypes, PoolRecord, FetchTypes, At, Job, Todo, Invoke, Hang, NoCall,
       fetchVars, files, NoPool, TakeError
<1>4. CASE SeeCanceled
    BY <1>4 DEF PoolTypes, PoolRecord, FetchTypes, At, Job, Todo, Invoke, Hang, NoCall,
       fetchVars, files, NoPool, SeeCanceled
<1>5. CASE CloseIndexes
    BY <1>5 DEF PoolTypes, PoolRecord, FetchTypes, At, Job, Todo, Invoke, Hang, NoCall,
       fetchVars, files, NoPool, CloseIndexes
<1>6. ASSUME NEW w \in Worker, Deliver(w) PROVE Vacated'
  <2>1. pool.pc \in {"dispatch", "wait"} /\ pool'.pc = pool.pc
    BY <1>6, BusyWorker DEF Deliver, At, PoolTypes, PoolRecord
  <2>. QED
    BY <2>1
<1>7. ASSUME NEW w \in Worker, Skip(w) PROVE Vacated'
  <2>1. pool.pc \in {"dispatch", "wait"} /\ pool'.pc = pool.pc
    BY <1>7, BusyWorker DEF Skip, At, PoolTypes, PoolRecord
  <2>. QED
    BY <2>1
<1>8. ASSUME NEW w \in Worker, Raise(w) PROVE Vacated'
    BY <1>8 DEF PoolTypes, PoolRecord, FetchTypes, At, Job, Todo, Invoke, Hang, NoCall,
       fetchVars, files, NoPool, Raise
<1>9. ASSUME NEW w \in Worker, Quit(w) PROVE Vacated'
    BY <1>9 DEF PoolTypes, PoolRecord, FetchTypes, At, Job, Todo, Invoke, Hang, NoCall,
       fetchVars, files, NoPool, Quit
<1>10. CASE ReturnMany
    BY <1>10 DEF PoolTypes, PoolRecord, FetchTypes, At, Job, Todo, Invoke, Hang, NoCall,
       fetchVars, files, NoPool, ReturnMany
<1>11. CASE Abandon
  <2>1. at' = at /\ \A w \in Worker : at[w] = Gone
    BY <1>11, AtTheEnd
  <2>. QED
    BY <2>1
<1>12. ASSUME NEW i \in DOMAIN pool.jobs, Refetch(i) PROVE Vacated'
    BY <1>12 DEF PoolTypes, PoolRecord, FetchTypes, At, Job, Todo, Invoke, Hang, NoCall,
       fetchVars, files, NoPool, Refetch
<1>13. CASE Refetched
  <2>1. CASE RecordsOurs
    BY <2>1 DEF RecordsOurs
  <2>2. CASE End
    BY <1>13, <2>2, AtTheEnd
  <2>. QED
    BY <1>13, <2>1, <2>2, AfterRefetch
<1>14. CASE StartPromoting
    BY <1>14 DEF PoolTypes, PoolRecord, FetchTypes, At, Job, Todo, Invoke, Hang, NoCall,
       fetchVars, files, NoPool, StartPromoting
<1>15. CASE Promote
    BY <1>15 DEF PoolTypes, PoolRecord, FetchTypes, At, Job, Todo, Invoke, Hang, NoCall,
       fetchVars, files, NoPool, Promote
<1>16. CASE Finish
  <2>1. at' = at /\ \A w \in Worker : at[w] = Gone
    BY <1>16, AtTheEnd
  <2>. QED
    BY <2>1
<1>17. ASSUME NEW h \in Request, NEW j \in OnDemand, Ask(h, j) PROVE Vacated'
    BY <1>17 DEF PoolTypes, PoolRecord, FetchTypes, At, Job, Todo, Invoke, Hang, NoCall,
       fetchVars, files, NoPool, Ask
<1>18. ASSUME NEW h \in Request, Answer(h) PROVE Vacated'
    BY <1>18 DEF PoolTypes, PoolRecord, FetchTypes, At, Job, Todo, Invoke, Hang, NoCall,
       fetchVars, files, NoPool, Answer
<1>19. CASE Cancel
    BY <1>19 DEF PoolTypes, PoolRecord, FetchTypes, At, Job, Todo, Invoke, Hang, NoCall,
       fetchVars, files, NoPool, Cancel
<1>20. CASE Crash
    BY <1>20 DEF PoolTypes, PoolRecord, FetchTypes, At, Job, Todo, Invoke, Hang, NoCall,
       fetchVars, files, NoPool, Crash
<1>. QED
    BY <1>1, <1>2, <1>3, <1>4, <1>5, <1>6, <1>7, <1>8, <1>9, <1>10, <1>11, <1>12, <1>13, <1>14,
       <1>15, <1>16, <1>17, <1>18, <1>19, <1>20 DEF PoolStep

(* What is delivered is spared by pruning, and stays so. *)
LEMMA PoolStepKept ==
    ASSUME FetchTypes, PoolTypes, WorkersInv, BystandersInv, Vacated, DoneInv, PoolStep
    PROVE  Kept'
<1>. USE DEF DoneInv, Kept
<1>1. ASSUME NEW list \in JobLists, Begin(list) PROVE Kept'
    BY <1>1 DEF PoolTypes, PoolRecord, Todo, Sent, fetchVars, files, NoPool, Begin
<1>2. ASSUME NEW w \in Worker, Dispatch(w) PROVE Kept'
    BY <1>2 DEF PoolTypes, PoolRecord, Todo, Sent, fetchVars, files, NoPool, Dispatch
<1>3. CASE TakeError
    BY <1>3 DEF PoolTypes, PoolRecord, Todo, Sent, fetchVars, files, NoPool, TakeError
<1>4. CASE SeeCanceled
    BY <1>4 DEF PoolTypes, PoolRecord, Todo, Sent, fetchVars, files, NoPool, SeeCanceled
<1>5. CASE CloseIndexes
    BY <1>5 DEF PoolTypes, PoolRecord, Todo, Sent, fetchVars, files, NoPool, CloseIndexes
<1>6. ASSUME NEW w \in Worker, Deliver(w) PROVE Kept'
  <2>1. at[w] \in DOMAIN pool.jobs /\ Job(w) = Todo(at[w])
    BY <1>6, BusyWorker DEF Deliver, At
  <2>2. /\ pool'.jobs = pool.jobs /\ pool'.keep = pool.keep \cup {Todo(at[w]).path}
        /\ \A i \in DOMAIN pool.jobs \ {at[w]} : pool'.found[i] = pool.found[i]
    BY <1>6, <2>1 DEF Deliver, PoolTypes, PoolRecord, Dst, Job
  <2>. QED
    BY <2>1, <2>2 DEF Todo
<1>7. ASSUME NEW w \in Worker, Skip(w) PROVE Kept'
    BY <1>7 DEF PoolTypes, PoolRecord, Todo, Sent, fetchVars, files, NoPool, Skip
<1>8. ASSUME NEW w \in Worker, Raise(w) PROVE Kept'
    BY <1>8 DEF PoolTypes, PoolRecord, Todo, Sent, fetchVars, files, NoPool, Raise
<1>9. ASSUME NEW w \in Worker, Quit(w) PROVE Kept'
    BY <1>9 DEF PoolTypes, PoolRecord, Todo, Sent, fetchVars, files, NoPool, Quit
<1>10. CASE ReturnMany
    BY <1>10 DEF PoolTypes, PoolRecord, Todo, Sent, fetchVars, files, NoPool, ReturnMany
<1>11. CASE Abandon
  <2>1. pool' = NoPool
    BY <1>11, AtTheEnd
  <2>. QED
    BY <2>1 DEF NoPool
<1>12. ASSUME NEW i \in DOMAIN pool.jobs, Refetch(i) PROVE Kept'
    BY <1>12 DEF PoolTypes, PoolRecord, Todo, Sent, fetchVars, files, NoPool, Refetch
<1>13. CASE Refetched
  <2>1. CASE RecordsOurs
    BY <2>1 DEF Todo, Sent, RecordsOurs
  <2>2. CASE End
    <3>1. pool' = NoPool
      BY <2>2 DEF End
    <3>. QED
      BY <3>1 DEF NoPool
  <2>. QED
    BY <1>13, <2>1, <2>2, AfterRefetch
<1>14. CASE StartPromoting
    BY <1>14 DEF PoolTypes, PoolRecord, Todo, Sent, fetchVars, files, NoPool, StartPromoting
<1>15. CASE Promote
    BY <1>15 DEF PoolTypes, PoolRecord, Todo, Sent, fetchVars, files, NoPool, Promote
<1>16. CASE Finish
  <2>1. pool' = NoPool
    BY <1>16, AtTheEnd
  <2>. QED
    BY <2>1 DEF NoPool
<1>17. ASSUME NEW h \in Request, NEW j \in OnDemand, Ask(h, j) PROVE Kept'
    BY <1>17 DEF PoolTypes, PoolRecord, Todo, Sent, fetchVars, files, NoPool, Ask
<1>18. ASSUME NEW h \in Request, Answer(h) PROVE Kept'
    BY <1>18 DEF PoolTypes, PoolRecord, Todo, Sent, fetchVars, files, NoPool, Answer
<1>19. CASE Cancel
    BY <1>19 DEF PoolTypes, PoolRecord, Todo, Sent, fetchVars, files, NoPool, Cancel
<1>20. CASE Crash
    BY <1>20 DEF PoolTypes, PoolRecord, Todo, Sent, fetchVars, files, NoPool, Crash
<1>. QED
    BY <1>1, <1>2, <1>3, <1>4, <1>5, <1>6, <1>7, <1>8, <1>9, <1>10, <1>11, <1>12, <1>13, <1>14,
       <1>15, <1>16, <1>17, <1>18, <1>19, <1>20 DEF PoolStep

(* A verdict falls once, and success only at the end. *)
LEMMA PoolStepVerdicts ==
    ASSUME FetchTypes, PoolTypes, WorkersInv, BystandersInv, Vacated, DoneInv, PoolStep
    PROVE  Verdicts'
<1>. USE DEF DoneInv, Verdicts
<1>1. ASSUME NEW list \in JobLists, Begin(list) PROVE Verdicts'
    BY <1>1 DEF PoolTypes, PoolRecord, Todo, Sent, fetchVars, files, NoPool, Begin
<1>2. ASSUME NEW w \in Worker, Dispatch(w) PROVE Verdicts'
    BY <1>2 DEF PoolTypes, PoolRecord, Todo, Sent, fetchVars, files, NoPool, Dispatch
<1>3. CASE TakeError
    BY <1>3 DEF PoolTypes, PoolRecord, Todo, Sent, fetchVars, files, NoPool, TakeError
<1>4. CASE SeeCanceled
    BY <1>4 DEF PoolTypes, PoolRecord, Todo, Sent, fetchVars, files, NoPool, SeeCanceled
<1>5. CASE CloseIndexes
    BY <1>5 DEF PoolTypes, PoolRecord, Todo, Sent, fetchVars, files, NoPool, CloseIndexes
<1>6. ASSUME NEW w \in Worker, Deliver(w) PROVE Verdicts'
    BY <1>6 DEF PoolTypes, PoolRecord, Todo, Sent, fetchVars, files, NoPool, Deliver
<1>7. ASSUME NEW w \in Worker, Skip(w) PROVE Verdicts'
    BY <1>7 DEF PoolTypes, PoolRecord, Todo, Sent, fetchVars, files, NoPool, Skip
<1>8. ASSUME NEW w \in Worker, Raise(w) PROVE Verdicts'
    BY <1>8 DEF PoolTypes, PoolRecord, Todo, Sent, fetchVars, files, NoPool, Raise
<1>9. ASSUME NEW w \in Worker, Quit(w) PROVE Verdicts'
    BY <1>9 DEF PoolTypes, PoolRecord, Todo, Sent, fetchVars, files, NoPool, Quit
<1>10. CASE ReturnMany
    BY <1>10 DEF PoolTypes, PoolRecord, Todo, Sent, fetchVars, files, NoPool, ReturnMany
<1>11. CASE Abandon
  <2>1. pool' = NoPool
    BY <1>11, AtTheEnd
  <2>. QED
    BY <2>1 DEF NoPool
<1>12. ASSUME NEW i \in DOMAIN pool.jobs, Refetch(i) PROVE Verdicts'
    BY <1>12 DEF PoolTypes, PoolRecord, Todo, Sent, fetchVars, files, NoPool, Refetch
<1>13. CASE Refetched
  <2>1. CASE RecordsOurs
    BY <2>1 DEF Todo, Sent, RecordsOurs
  <2>2. CASE End
    <3>1. pool' = NoPool
      BY <2>2 DEF End
    <3>. QED
      BY <3>1 DEF NoPool
  <2>. QED
    BY <1>13, <2>1, <2>2, AfterRefetch
<1>14. CASE StartPromoting
    BY <1>14 DEF PoolTypes, PoolRecord, Todo, Sent, fetchVars, files, NoPool, StartPromoting
<1>15. CASE Promote
    BY <1>15 DEF PoolTypes, PoolRecord, Todo, Sent, fetchVars, files, NoPool, Promote
<1>16. CASE Finish
  <2>1. pool' = NoPool
    BY <1>16, AtTheEnd
  <2>. QED
    BY <2>1 DEF NoPool
<1>17. ASSUME NEW h \in Request, NEW j \in OnDemand, Ask(h, j) PROVE Verdicts'
    BY <1>17 DEF PoolTypes, PoolRecord, Todo, Sent, fetchVars, files, NoPool, Ask
<1>18. ASSUME NEW h \in Request, Answer(h) PROVE Verdicts'
    BY <1>18 DEF PoolTypes, PoolRecord, Todo, Sent, fetchVars, files, NoPool, Answer
<1>19. CASE Cancel
    BY <1>19 DEF PoolTypes, PoolRecord, Todo, Sent, fetchVars, files, NoPool, Cancel
<1>20. CASE Crash
    BY <1>20 DEF PoolTypes, PoolRecord, Todo, Sent, fetchVars, files, NoPool, Crash
<1>. QED
    BY <1>1, <1>2, <1>3, <1>4, <1>5, <1>6, <1>7, <1>8, <1>9, <1>10, <1>11, <1>12, <1>13, <1>14,
       <1>15, <1>16, <1>17, <1>18, <1>19, <1>20 DEF PoolStep

(* wg.Wait: at the return no job is with a worker any more. *)
LEMMA PoolStepConcluded ==
    ASSUME FetchTypes, PoolTypes, WorkersInv, BystandersInv, Vacated, DoneInv, PoolStep
    PROVE  Concluded'
<1>. USE DEF DoneInv, Concluded, Accounted
<1>1. ASSUME NEW list \in JobLists, Begin(list) PROVE Concluded'
    BY <1>1 DEF PoolTypes, PoolRecord, Todo, Sent, fetchVars, files, NoPool, Begin
<1>2. ASSUME NEW w \in Worker, Dispatch(w) PROVE Concluded'
    BY <1>2 DEF PoolTypes, PoolRecord, Todo, Sent, fetchVars, files, NoPool, Dispatch
<1>3. CASE TakeError
    BY <1>3 DEF PoolTypes, PoolRecord, Todo, Sent, fetchVars, files, NoPool, TakeError
<1>4. CASE SeeCanceled
    BY <1>4 DEF PoolTypes, PoolRecord, Todo, Sent, fetchVars, files, NoPool, SeeCanceled
<1>5. CASE CloseIndexes
    BY <1>5 DEF PoolTypes, PoolRecord, Todo, Sent, fetchVars, files, NoPool, CloseIndexes
<1>6. ASSUME NEW w \in Worker, Deliver(w) PROVE Concluded'
    BY <1>6 DEF PoolTypes, PoolRecord, Todo, Sent, fetchVars, files, NoPool, Deliver
<1>7. ASSUME NEW w \in Worker, Skip(w) PROVE Concluded'
    BY <1>7 DEF PoolTypes, PoolRecord, Todo, Sent, fetchVars, files, NoPool, Skip
<1>8. ASSUME NEW w \in Worker, Raise(w) PROVE Concluded'
    BY <1>8 DEF PoolTypes, PoolRecord, Todo, Sent, fetchVars, files, NoPool, Raise
<1>9. ASSUME NEW w \in Worker, Quit(w) PROVE Concluded'
    BY <1>9 DEF PoolTypes, PoolRecord, Todo, Sent, fetchVars, files, NoPool, Quit
<1>10. CASE ReturnMany
  <2>1. /\ pool'.pc = "returned" /\ pool'.jobs = pool.jobs /\ pool'.found = pool.found
        /\ pool'.missed = pool.missed
    BY <1>10 DEF ReturnMany, PoolTypes, PoolRecord
  <2>2. CASE pool'.verdict = "ok"
    <3>1. pool.verdict = "none" /\ pool.err = "none" /\ pool.pc = "wait" /\ Sent
      BY <1>10, <2>2 DEF ReturnMany, PoolTypes, PoolRecord, Verdicts
    <3>2. \A i \in DOMAIN pool.jobs : i \in 1..(pool.next - 1)
      BY <3>1 DEF Sent, PoolTypes, PoolRecord
    <3>3. \A i \in DOMAIN pool.jobs, w \in Worker : at[w] # i
      BY <1>10 DEF ReturnMany, PoolTypes, PoolRecord, Gone
    <3>4. \A i \in DOMAIN pool.jobs : Accounted(i)
      BY <3>1, <3>2, <3>3 DEF Pending
    <3>. QED
      BY <2>1, <3>4 DEF Todo
  <2>. QED
    BY <2>2
<1>11. CASE Abandon
  <2>1. pool' = NoPool
    BY <1>11, AtTheEnd
  <2>. QED
    BY <2>1 DEF NoPool
<1>12. ASSUME NEW i \in DOMAIN pool.jobs, Refetch(i) PROVE Concluded'
    BY <1>12 DEF PoolTypes, PoolRecord, Todo, Sent, fetchVars, files, NoPool, Refetch
<1>13. CASE Refetched
  <2>1. CASE RecordsOurs
    BY <2>1 DEF Todo, Sent, RecordsOurs
  <2>2. CASE End
    <3>1. pool' = NoPool
      BY <2>2 DEF End
    <3>. QED
      BY <3>1 DEF NoPool
  <2>. QED
    BY <1>13, <2>1, <2>2, AfterRefetch
<1>14. CASE StartPromoting
    BY <1>14 DEF PoolTypes, PoolRecord, Todo, Sent, fetchVars, files, NoPool, StartPromoting
<1>15. CASE Promote
    BY <1>15 DEF PoolTypes, PoolRecord, Todo, Sent, fetchVars, files, NoPool, Promote
<1>16. CASE Finish
  <2>1. pool' = NoPool
    BY <1>16, AtTheEnd
  <2>. QED
    BY <2>1 DEF NoPool
<1>17. ASSUME NEW h \in Request, NEW j \in OnDemand, Ask(h, j) PROVE Concluded'
    BY <1>17 DEF PoolTypes, PoolRecord, Todo, Sent, fetchVars, files, NoPool, Ask
<1>18. ASSUME NEW h \in Request, Answer(h) PROVE Concluded'
    BY <1>18 DEF PoolTypes, PoolRecord, Todo, Sent, fetchVars, files, NoPool, Answer
<1>19. CASE Cancel
    BY <1>19 DEF PoolTypes, PoolRecord, Todo, Sent, fetchVars, files, NoPool, Cancel
<1>20. CASE Crash
    BY <1>20 DEF PoolTypes, PoolRecord, Todo, Sent, fetchVars, files, NoPool, Crash
<1>. QED
    BY <1>1, <1>2, <1>3, <1>4, <1>5, <1>6, <1>7, <1>8, <1>9, <1>10, <1>11, <1>12, <1>13, <1>14,
       <1>15, <1>16, <1>17, <1>18, <1>19, <1>20 DEF PoolStep

(* A job that is taken from a worker is accounted for, or an error is raised. *)
LEMMA PoolStepPending ==
    ASSUME FetchTypes, PoolTypes, WorkersInv, BystandersInv, Vacated, DoneInv, PoolStep
    PROVE  Pending'
<1>. USE DEF DoneInv, Pending, Accounted
<1>1. ASSUME NEW list \in JobLists, Begin(list) PROVE Pending'
  <2>1. pool'.next = 1
    BY <1>1 DEF Begin, NoPool
  <2>. QED
    BY <2>1
<1>2. ASSUME NEW w \in Worker, Dispatch(w) PROVE Pending'
  <2>1. /\ pool'.pc = pool.pc /\ pool'.verdict = pool.verdict /\ pool'.err = pool.err
        /\ pool'.next = pool.next + 1 /\ pool'.jobs = pool.jobs /\ pool'.found = pool.found
        /\ pool'.missed = pool.missed /\ at' = [at EXCEPT ![w] = pool.next] /\ at[w] = Ready
    BY <1>2 DEF Dispatch, PoolTypes, PoolRecord
  <2>2. at'[w] = pool.next /\ \A v \in Worker \ {w} : at'[v] = at[v]
    BY <2>1 DEF PoolTypes
  <2>3. pool.next \in Nat \ {0} /\ \A i \in 1..(pool.next + 1 - 1) : i = pool.next \/ i \in 1..(pool.next - 1)
    BY DEF PoolTypes, PoolRecord
  <2>4. \A i \in 1..(pool.next - 1) : at[w] # i
    BY <2>1 DEF Ready
  <2>. QED
    BY <2>1, <2>2, <2>3, <2>4 DEF Todo
<1>3. CASE TakeError
    BY <1>3 DEF PoolTypes, PoolRecord, Todo, Sent, fetchVars, files, NoPool, TakeError
<1>4. CASE SeeCanceled
    BY <1>4 DEF PoolTypes, PoolRecord, Todo, Sent, fetchVars, files, NoPool, SeeCanceled
<1>5. CASE CloseIndexes
    BY <1>5 DEF PoolTypes, PoolRecord, Todo, Sent, fetchVars, files, NoPool, CloseIndexes
<1>6. ASSUME NEW w \in Worker, Deliver(w) PROVE Pending'
  <2>1. /\ pool'.pc = pool.pc /\ pool'.verdict = pool.verdict /\ pool'.err = pool.err
        /\ pool'.next = pool.next /\ pool'.jobs = pool.jobs /\ at' = [at EXCEPT ![w] = Ready]
    BY <1>6 DEF Deliver, PoolTypes, PoolRecord
  <2>2. at[w] \in DOMAIN pool.jobs /\ Job(w) = Todo(at[w])
    BY <1>6, BusyWorker DEF Deliver, At
  <2>3. \A i \in Nat : \A v \in Worker \ {w} : at[v] = i => at'[v] = i
    BY <2>1 DEF PoolTypes
  <2>4. pool'.found = [pool.found EXCEPT ![at[w]] = Outcome(w)] /\ pool'.missed = pool.missed
    BY <1>6 DEF Deliver, PoolTypes, PoolRecord
  <2>5. pool'.found[at[w]] # "missing" /\ \A i \in DOMAIN pool.jobs \ {at[w]} : pool'.found[i] = pool.found[i]
    BY <1>6, <2>2, <2>4 DEF Deliver, PoolTypes
  <2>6. \A i \in 1..(pool.next - 1) : i \in DOMAIN pool.jobs /\ i \in Nat
    BY DEF PoolTypes, PoolRecord
  <2>. QED
    BY <2>1, <2>2, <2>3, <2>4, <2>5, <2>6 DEF Todo
<1>7. ASSUME NEW w \in Worker, Skip(w) PROVE Pending'
  <2>1. /\ pool'.pc = pool.pc /\ pool'.verdict = pool.verdict /\ pool'.err = pool.err
        /\ pool'.next = pool.next /\ pool'.jobs = pool.jobs /\ at' = [at EXCEPT ![w] = Ready]
    BY <1>7 DEF Skip, PoolTypes, PoolRecord
  <2>2. at[w] \in DOMAIN pool.jobs /\ Job(w) = Todo(at[w])
    BY <1>7, BusyWorker DEF Skip, At
  <2>3. \A i \in Nat : \A v \in Worker \ {w} : at[v] = i => at'[v] = i
    BY <2>1 DEF PoolTypes
  <2>4. /\ pool'.found = pool.found /\ pool.missed \subseteq pool'.missed
        /\ Todo(at[w]).optional \/ at[w] \in pool'.missed
    BY <1>7, <2>2 DEF Skip, PoolTypes, PoolRecord
  <2>5. \A i \in 1..(pool.next - 1) : i \in Nat
    OBVIOUS
  <2>. QED
    BY <2>1, <2>2, <2>3, <2>4, <2>5 DEF Todo
<1>8. ASSUME NEW w \in Worker, Raise(w) PROVE Pending'
  <2>1. pool'.err = "error"
    BY <1>8 DEF Raise, PoolTypes, PoolRecord
  <2>. QED
    BY <2>1
<1>9. ASSUME NEW w \in Worker, Quit(w) PROVE Pending'
  <2>1. pool' = pool /\ at[w] = Ready /\ at' = [at EXCEPT ![w] = Gone]
    BY <1>9 DEF Quit
  <2>2. \A i \in 1..(pool.next - 1) : at[w] # i /\ \A v \in Worker \ {w} : at[v] = i => at'[v] = i
    BY <2>1 DEF Ready, PoolTypes
  <2>. QED
    BY <2>1, <2>2 DEF Todo
<1>10. CASE ReturnMany
    BY <1>10 DEF PoolTypes, PoolRecord, Todo, Sent, fetchVars, files, NoPool, ReturnMany
<1>11. CASE Abandon
  <2>1. pool' = NoPool
    BY <1>11, AtTheEnd
  <2>. QED
    BY <2>1 DEF NoPool
<1>12. ASSUME NEW i \in DOMAIN pool.jobs, Refetch(i) PROVE Pending'
    BY <1>12 DEF PoolTypes, PoolRecord, Todo, Sent, fetchVars, files, NoPool, Refetch
<1>13. CASE Refetched
  <2>1. CASE RecordsOurs
    BY <2>1 DEF Todo, Sent, RecordsOurs
  <2>2. CASE End
    <3>1. pool' = NoPool
      BY <2>2 DEF End
    <3>. QED
      BY <3>1 DEF NoPool
  <2>. QED
    BY <1>13, <2>1, <2>2, AfterRefetch
<1>14. CASE StartPromoting
    BY <1>14 DEF PoolTypes, PoolRecord, Todo, Sent, fetchVars, files, NoPool, StartPromoting
<1>15. CASE Promote
    BY <1>15 DEF PoolTypes, PoolRecord, Todo, Sent, fetchVars, files, NoPool, Promote
<1>16. CASE Finish
  <2>1. pool' = NoPool
    BY <1>16, AtTheEnd
  <2>. QED
    BY <2>1 DEF NoPool
<1>17. ASSUME NEW h \in Request, NEW j \in OnDemand, Ask(h, j) PROVE Pending'
    BY <1>17 DEF PoolTypes, PoolRecord, Todo, Sent, fetchVars, files, NoPool, Ask
<1>18. ASSUME NEW h \in Request, Answer(h) PROVE Pending'
    BY <1>18 DEF PoolTypes, PoolRecord, Todo, Sent, fetchVars, files, NoPool, Answer
<1>19. CASE Cancel
    BY <1>19 DEF PoolTypes, PoolRecord, Todo, Sent, fetchVars, files, NoPool, Cancel
<1>20. CASE Crash
    BY <1>20 DEF PoolTypes, PoolRecord, Todo, Sent, fetchVars, files, NoPool, Crash
<1>. QED
    BY <1>1, <1>2, <1>3, <1>4, <1>5, <1>6, <1>7, <1>8, <1>9, <1>10, <1>11, <1>12, <1>13, <1>14,
       <1>15, <1>16, <1>17, <1>18, <1>19, <1>20 DEF PoolStep

(* A step of a call is the call's alone. *)
LEMMA CallStepPool ==
    ASSUME PoolIndInv, NEW c \in Caller, CallStep(c), UNCHANGED <<pool, at>>
    PROVE  PoolIndInv'
<1>. USE DEF PoolIndInv
<1>1. FetchTypes' /\ WholeFiles'
    BY CallStepTypes, CallStepWhole DEF CallsInv
<1>2. CallsInv'
    BY CallStepOthers, CallStepOwn, CallStepReport DEF CallsInv
<1>3. \A d \in Caller : (At(d, "idle")' <=> At(d, "idle")) /\ Job(d)' = Job(d)
    BY CallStepJob DEF FetchTypes, At, Job
<1>4. WorkersInv' /\ BystandersInv'
    BY <1>3, CallersOf DEF WorkersInv, BystandersInv, Todo
<1>5. PoolTypes' /\ DoneInv' /\ Vacated'
    BY DEF PoolTypes, PoolRecord, DoneInv, Kept, Verdicts, Pending, Concluded, Accounted, Sent, Todo,
           Vacated
<1>. QED
    BY <1>1, <1>2, <1>4, <1>5

(* A mirror that catches up concerns no call until it is asked. *)
LEMMA AdvancePool ==
    ASSUME PoolIndInv, NEW m \in Mirror, Advance(m), UNCHANGED <<pool, at>>
    PROVE  PoolIndInv'
<1>. USE DEF PoolIndInv
<1>1. UNCHANGED <<final, staged, partial, owner, active, canceled, call, pool, at>>
    BY DEF Advance, files
<1>2. serves' \in [Mirror -> Gen]
    BY FileFetchAssumption DEF Advance, FetchTypes, Gen
<1>3. FetchTypes'
    BY <1>1, <1>2 DEF FetchTypes, At, Job
<1>4. WholeFiles' /\ CallsInv'
    BY <1>1 DEF WholeFiles, CallsInv, CallOK, ReportOK, Inside, At, Job, Dst
<1>5. WorkersInv' /\ BystandersInv'
    BY <1>1 DEF WorkersInv, BystandersInv, Todo, At, Job
<1>6. PoolTypes' /\ DoneInv' /\ Vacated'
    BY <1>1 DEF PoolTypes, DoneInv, Kept, Verdicts, Pending, Concluded, Accounted, Sent, Todo, Vacated
<1>. QED
    BY <1>3, <1>4, <1>5, <1>6

(* It all holds at first ... *)
LEMMA PoolIndInvInit ==
    Init => PoolIndInv
<1>. SUFFICES ASSUME Init PROVE PoolIndInv
    OBVIOUS
<1>. USE DEF Init, FetchInit
<1>1. NoCall \in CallRecord /\ NoCall.pc = "idle" /\ NoCall.resume = 0 /\ NoCall.job.want = Nothing
    BY FreshOK DEF FreshCall, NoCall, NoJob
<1>2. Nothing \in Seq(Block)
    BY JobFields
<1>3. serves \in [Mirror -> Gen] /\ \A s \in Source : 0 < Len(Bases[s])
    BY FileFetchAssumption DEF Gen
<1>4. FetchTypes
    BY <1>1, <1>2, <1>3 DEF FetchTypes, At
<1>5. pool.found \in [DOMAIN pool.jobs -> {"missing", "unchanged", "fetched", "staged"}]
      /\ DOMAIN pool.jobs = {} /\ Len(pool.jobs) = 0
    BY DEF NoPool
<1>6. PoolTypes
    BY <1>5, NoPoolTyped DEF PoolTypes, NoPool
<1>7. WholeFiles
    BY DEF WholeFiles
<1>8. CallsInv
    BY <1>1 DEF CallsInv, CallOK, ReportOK, Inside, At
<1>9. WorkersInv /\ BystandersInv /\ Vacated
    BY <1>1, CallersOf DEF WorkersInv, BystandersInv, Vacated, At, Job
<1>10. DoneInv
    BY <1>5 DEF DoneInv, Kept, Verdicts, Pending, Concluded, NoPool
<1>. QED
    BY <1>4, <1>6, <1>7, <1>8, <1>9, <1>10 DEF PoolIndInv

(* ... and after every step. *)
LEMMA PoolIndInvNext ==
    PoolIndInv /\ [Next]_vars => PoolIndInv'
<1>. SUFFICES ASSUME PoolIndInv, [Next]_vars PROVE PoolIndInv'
    OBVIOUS
<1>1. CASE (\E c \in Caller : CallStep(c)) /\ UNCHANGED <<pool, at>>
    BY <1>1, CallStepPool
<1>2. CASE PoolStep
  <2>1. FetchTypes' /\ WholeFiles' /\ CallsInv'
    BY <1>2, PoolStepFetch DEF PoolIndInv
  <2>2. PoolTypes' /\ WorkersInv' /\ BystandersInv' /\ Vacated'
    BY <1>2, PoolStepTypes, PoolStepWorkers, PoolStepBystanders, PoolStepVacated DEF PoolIndInv
  <2>3. DoneInv'
    BY <1>2, PoolStepKept, PoolStepVerdicts, PoolStepPending, PoolStepConcluded DEF PoolIndInv, DoneInv
  <2>. QED
    BY <2>1, <2>2, <2>3 DEF PoolIndInv
<1>3. CASE (\E m \in Mirror : Advance(m)) /\ UNCHANGED <<pool, at>>
    BY <1>3, AdvancePool
<1>4. CASE UNCHANGED vars
  <2>1. UNCHANGED <<serves, final, staged, partial, owner, active, canceled, call, pool, at>>
    BY <1>4 DEF vars, fetchVars, files
  <2>2. FetchTypes' /\ WholeFiles' /\ CallsInv'
    BY <2>1 DEF PoolIndInv, FetchTypes, WholeFiles, CallsInv, CallOK, ReportOK, Inside, At, Job, Dst
  <2>3. WorkersInv' /\ BystandersInv' /\ Vacated' /\ PoolTypes' /\ DoneInv'
    BY <2>1 DEF PoolIndInv, WorkersInv, BystandersInv, Todo, At, Job, Vacated, PoolTypes, DoneInv, Kept,
                Verdicts, Pending, Concluded, Accounted, Sent
  <2>. QED
    BY <2>2, <2>3 DEF PoolIndInv
<1>. QED
    BY <1>1, <1>2, <1>3, <1>4, NextKinds

(* So it always holds. *)
LEMMA PoolIndInvAlways ==
    Spec => []PoolIndInv
BY PoolIndInvInit, PoolIndInvNext, PTL DEF Spec
-----------------------------------------------------------------------------
(* What is staged. *)
\* A call that is past its check, where it cleared what was staged.
Checked(c) == call[c].pc \in {"get", "copy", "failed", "unlock", "done"}

\* This run has staged p: it knows, or a call is about to report it.
StagedHere(p) ==
    \/ p \in pool.ours
    \/ \E c \in Worker \cup {Main} :
          Dst(c) = p /\ call[c].pc \in {"unlock", "done"} /\ call[c].result = "staged"

NoLeftover(p) == staged[p] = Nothing \/ StagedHere(p)

\* Requests stage nothing.  Where a call of this run has cleared what an earlier
\* one left, and where a job was delivered, nothing is staged but by this run.
OursInv ==
    /\ \A h \in Request : ~Job(h).stage
    /\ \A c \in Worker \cup {Main} : Checked(c) /\ Job(c).stage => NoLeftover(Dst(c))
    /\ \A i \in DOMAIN pool.jobs :
          Todo(i).stage /\ pool.found[i] # "missing" => NoLeftover(Todo(i).path)

\* A call of this run that is about to report that it staged its file.
ReportsStaged(c) == call[c].pc \in {"unlock", "done"} /\ call[c].result = "staged"

(* A step of a call clears what is staged or stages its own file, and past   *)
(* its check nothing is left from before.                                    *)
LEMMA CallStepStages ==
    ASSUME FetchTypes, NEW c \in Caller, CallStep(c)
    PROVE  /\ \/ staged' = staged
              \/ staged' = [staged EXCEPT ![Dst(c)] = Nothing]
              \/ /\ Job(c).stage /\ ReportsStaged(c)'
                 /\ \A p \in Path \ {Dst(c)} : staged'[p] = staged[p]
           /\ ReportsStaged(c) => ReportsStaged(c)'
           /\ Checked(c)' /\ ~Checked(c) /\ Job(c).stage => staged'[Dst(c)] = Nothing
<1>. DEFINE Same == staged' = staged /\ Checked(c) /\ ~ReportsStaged(c)
<1>0. Dst(c) \in Path
    BY CallStepJob, JobFields DEF FetchTypes, At, Job, Dst
<1>. USE <1>0 DEF FetchTypes, At, Job, Dst, files, Checked, ReportsStaged
<1>1. CASE Lock(c)
  <2>1. staged' = staged /\ call'[c].pc = "check" /\ call[c].pc = "lock"
      BY <1>1 DEF Lock, CallRecord
  <2>. QED
      BY <2>1
<1>2. CASE Check(c)
  <2>1. call[c].pc = "check" /\ staged' = IF Job(c).stage THEN [staged EXCEPT ![Dst(c)] = Nothing] ELSE staged
      BY <1>2 DEF Check
  <2>. QED
      BY <2>1
<1>3. CASE MirrorFails(c)
  <2>1. Same
      BY <1>3 DEF MirrorFails
  <2>. QED
      BY <2>1
<1>4. CASE Forbidden(c)
  <2>1. Same
      BY <1>4 DEF Forbidden
  <2>. QED
      BY <2>1
<1>5. CASE NotFound(c)
  <2>1. Same
      BY <1>5 DEF NotFound
  <2>. QED
      BY <2>1
<1>6. CASE NotModified(c)
  <2>1. Same
      BY <1>6 DEF NotModified
  <2>. QED
      BY <2>1
<1>7. CASE Whole(c)
  <2>1. Same
      BY <1>7 DEF Whole, Answered
  <2>. QED
      BY <2>1
<1>8. CASE Rest(c)
  <2>1. Same
      BY <1>8 DEF Rest, Answered
  <2>. QED
      BY <2>1
<1>9. CASE Copy(c)
  <2>1. Same
      BY <1>9 DEF Copy
  <2>. QED
      BY <2>1
<1>10. CASE BreakOff(c)
  <2>1. Same
      BY <1>10 DEF BreakOff
  <2>. QED
      BY <2>1
<1>11. CASE Install(c)
  <2>1. call[c].pc = "copy"
      BY <1>11 DEF Install, Received
  <2>2. CASE Job(c).stage
    <3>1. call'[c].pc = "unlock" /\ call'[c].result = "staged"
        BY <1>11, <2>2 DEF Install, Return, NoCall
    <3>2. \A p \in Path \ {Dst(c)} : staged'[p] = staged[p]
        BY <1>11, <2>2 DEF Install
    <3>. QED
        BY <2>1, <2>2, <3>1, <3>2
  <2>3. CASE ~Job(c).stage
      BY <1>11, <2>1, <2>3 DEF Install
  <2>. QED
      BY <2>2, <2>3
<1>12. CASE Reject(c)
  <2>1. Same
      BY <1>12 DEF Reject, Received
  <2>. QED
      BY <2>1
<1>13. CASE TryAgain(c)
  <2>1. Same
      BY <1>13 DEF TryAgain
  <2>. QED
      BY <2>1
<1>14. CASE GiveUp(c)
  <2>1. Same
      BY <1>14 DEF GiveUp
  <2>. QED
      BY <2>1
<1>15. CASE Unlock(c)
  <2>1. /\ staged' = staged /\ call[c].pc = "unlock"
        /\ call'[c].pc = "done" /\ call'[c].result = call[c].result
      BY <1>15 DEF Unlock, CallRecord
  <2>. QED
      BY <2>1
<1>. QED
    BY <1>1, <1>2, <1>3, <1>4, <1>5, <1>6, <1>7, <1>8, <1>9, <1>10, <1>11, <1>12, <1>13, <1>14,
       <1>15 DEF CallStep

(* So no call brings back what an earlier run left.                          *)
LEMMA CallStepOurs ==
    ASSUME PoolIndInv, OursInv, NEW c \in Caller, CallStep(c), UNCHANGED <<pool, at>>
    PROVE  OursInv'
<1>0. FetchTypes /\ PoolTypes
    BY DEF PoolIndInv
<1>1. \A d \in Caller : Job(d)' = Job(d) /\ Dst(d)' = Dst(d) /\ (d # c => call'[d] = call[d])
    BY <1>0, CallStepJob DEF FetchTypes, Job, Dst
<1>2. \A d \in Caller : ReportsStaged(d) => ReportsStaged(d)'
    BY <1>0, <1>1, CallStepStages DEF ReportsStaged
<1>3. \A p : StagedHere(p) => StagedHere(p)'
    BY <1>1, <1>2, CallersOf DEF StagedHere, ReportsStaged
<1>4. Job(c).stage => c \in Worker \cup {Main}
    BY CallersOf DEF OursInv
<1>5. ASSUME NEW p \in Path, NoLeftover(p) PROVE NoLeftover(p)'
  <2>1. CASE staged'[p] = staged[p] \/ staged'[p] = Nothing
      BY <1>3, <1>5, <2>1 DEF NoLeftover
  <2>2. CASE p = Dst(c) /\ Job(c).stage /\ ReportsStaged(c)'
    <3>1. StagedHere(p)'
        BY <1>1, <1>4, <2>2 DEF StagedHere, ReportsStaged
    <3>. QED
        BY <3>1 DEF NoLeftover
  <2>. QED
      BY <1>0, <2>1, <2>2, CallStepStages DEF FetchTypes
<1>6. ASSUME NEW d \in Worker \cup {Main}, Checked(d)', Job(d)'.stage PROVE NoLeftover(Dst(d))'
  <2>1. Dst(d) \in Path /\ d \in Caller
      BY <1>0, <1>1, <1>6, JobFields, CallersOf, CallStepJob
      DEF Checked, FetchTypes, At, Job, Dst
  <2>2. CASE Checked(d)
      BY <1>1, <1>5, <1>6, <2>1, <2>2 DEF OursInv, NoLeftover, StagedHere
  <2>3. CASE ~Checked(d)
    <3>1. d = c /\ staged'[Dst(c)] = Nothing
        BY <1>0, <1>1, <1>6, <2>1, <2>3, CallStepStages DEF Checked
    <3>. QED
        BY <1>1, <3>1 DEF NoLeftover
  <2>. QED
      BY <2>2, <2>3
<1>7. ASSUME NEW i \in DOMAIN pool.jobs, Todo(i).stage, pool.found[i] # "missing"
      PROVE  NoLeftover(Todo(i).path)'
  <2>1. Todo(i).path \in Path
      BY <1>0, JobFields DEF PoolTypes, PoolRecord, Todo
  <2>. QED
      BY <1>5, <1>7, <2>1 DEF OursInv, NoLeftover, StagedHere, Todo
<1>8. \A h \in Request : ~Job(h)'.stage
    BY <1>1, CallersOf DEF OursInv
<1>. QED
    BY <1>6, <1>7, <1>8 DEF OursInv, Todo, Job, NoLeftover

(* A run that begins or ends has no call and has delivered nothing.          *)
LEMMA EndOurs ==
    ASSUME OursInv, pool'.jobs = <<>> \/ \A i \in DOMAIN pool'.jobs : pool'.found[i] = "missing",
           \A c \in Worker \cup {Main} : call'[c].pc = "idle",
           \A h \in Request : call'[h] \in {call[h], NoCall}
    PROVE  OursInv'
<1>1. \A c \in Worker \cup {Main} : ~Checked(c)'
    BY DEF Checked
<1>2. \A h \in Request : ~Job(h)'.stage
    BY DEF OursInv, Job, NoCall, NoJob
<1>. QED
    BY <1>1, <1>2 DEF OursInv

(* A step that starts or ends one call keeps what this run has staged known, *)
(* and what it delivers was past its check.                                  *)
LEMMA OneCallOurs ==
    ASSUME OursInv, NEW c \in Caller, staged' = staged, pool'.jobs = pool.jobs,
           \A d \in Caller \ {c} : call'[d] = call[d], call'[c].pc \in {"idle", "lock"},
           c \in Request => ~Job(c)'.stage,
           pool.ours \subseteq pool'.ours,
           c \notin Request /\ ReportsStaged(c) => Dst(c) \in pool'.ours,
           \A i \in DOMAIN pool.jobs :
              \/ pool'.found[i] = pool.found[i]
              \/ c \notin Request /\ Checked(c) /\ Todo(i) = Job(c)
    PROVE  OursInv'
<1>1. \A p : StagedHere(p) => StagedHere(p)'
  <2>. SUFFICES ASSUME NEW p, StagedHere(p), p \notin pool'.ours PROVE StagedHere(p)'
      BY DEF StagedHere
  <2>1. PICK d \in Worker \cup {Main} : Dst(d) = p /\ ReportsStaged(d)
      BY DEF StagedHere, ReportsStaged
  <2>2. d # c
      BY <2>1, CallersOf
  <2>. QED
      BY <2>1, <2>2, CallersOf DEF StagedHere, ReportsStaged, Dst
<1>2. \A p : NoLeftover(p) => NoLeftover(p)'
    BY <1>1 DEF NoLeftover
<1>3. ASSUME NEW d \in Worker \cup {Main}, Checked(d)', Job(d)'.stage PROVE NoLeftover(Dst(d))'
  <2>1. d # c /\ call'[d] = call[d]
      BY <1>3, CallersOf DEF Checked
  <2>2. NoLeftover(Dst(d)) /\ Dst(d)' = Dst(d)
      BY <1>3, <2>1 DEF OursInv, Checked, Job, Dst
  <2>. QED
      BY <1>2, <2>2 DEF NoLeftover, StagedHere
<1>4. ASSUME NEW i \in DOMAIN pool.jobs, Todo(i).stage, pool'.found[i] # "missing"
      PROVE  NoLeftover(Todo(i).path)
  <2>1. CASE pool'.found[i] = pool.found[i]
      BY <1>4, <2>1 DEF OursInv
  <2>2. CASE c \notin Request /\ Checked(c) /\ Todo(i) = Job(c)
      BY <1>4, <2>2, CallersOf DEF OursInv, Job, Dst
  <2>. QED
      BY <2>1, <2>2
<1>5. ASSUME NEW i \in DOMAIN pool'.jobs, Todo(i)'.stage, pool'.found[i] # "missing"
      PROVE  NoLeftover(Todo(i).path)'
    BY <1>2, <1>4, <1>5 DEF Todo, NoLeftover, StagedHere
<1>6. \A h \in Request : ~Job(h)'.stage
    BY CallersOf DEF OursInv, Job
<1>. QED
    BY <1>3, <1>5, <1>6 DEF OursInv, Todo, NoLeftover, StagedHere

(* A step that leaves calls, jobs and staged files alone or clears some. *)
LEMMA QuietOurs ==
    ASSUME FetchTypes, PoolTypes, OursInv, call' = call, pool'.jobs = pool.jobs,
           pool'.found = pool.found, pool'.ours = pool.ours,
           \A p \in Path : staged'[p] = staged[p] \/ staged'[p] = Nothing
    PROVE  OursInv'
<1>1. \A p \in Path : NoLeftover(p) => NoLeftover(p)'
    BY DEF NoLeftover, StagedHere, Dst
<1>2. \A c \in Worker \cup {Main} : Checked(c) => Dst(c) \in Path
    BY CallersOf, JobFields DEF FetchTypes, Checked, At, Job, Dst
<1>3. \A i \in DOMAIN pool.jobs : Todo(i).path \in Path
    BY JobFields DEF PoolTypes, PoolRecord, Todo
<1>. QED
    BY <1>1, <1>2, <1>3 DEF OursInv, NoLeftover, StagedHere, Checked, Job, Dst, Todo

(* Neither does the pool, its caller or a request bring back what was left. *)
LEMMA PoolStepOurs ==
    ASSUME PoolIndInv, OursInv, PoolStep
    PROVE  OursInv'
<1>0. FetchTypes /\ PoolTypes /\ WorkersInv /\ BystandersInv /\ Vacated
    BY DEF PoolIndInv
<1>. USE CallersOf DEF fetchVars, files
<1>1. ASSUME NEW list \in JobLists, Begin(list) PROVE OursInv'
  <2>1. /\ call' = call /\ \A w \in Worker : call[w].pc = "idle"
        /\ call[Main].pc = "idle"
      BY <1>0, <1>1 DEF Begin, Vacated, WorkersInv, At
  <2>2. pool'.jobs = list.jobs /\ pool'.found = [i \in DOMAIN list.jobs |-> "missing"]
      BY <1>1 DEF Begin, NoPool
  <2>. QED
      BY <2>1, <2>2, EndOurs
<1>2. ASSUME NEW w \in Worker, Dispatch(w) PROVE OursInv'
  <2>1. /\ staged' = staged /\ pool'.jobs = pool.jobs /\ pool'.found = pool.found /\ pool'.ours = pool.ours
      BY <1>0, <1>2 DEF Dispatch, PoolTypes, PoolRecord
  <2>2. (\A d \in Caller \ {w} : call'[d] = call[d]) /\ call'[w].pc = "lock"
      BY <1>0, <1>2 DEF Dispatch, Invoke, FetchTypes, NoCall
  <2>3. call[w].pc = "idle"
      BY <1>0, <1>2 DEF Dispatch, WorkersInv, At
  <2>. QED
      BY <2>1, <2>2, <2>3, OneCallOurs DEF ReportsStaged
<1>3. CASE TakeError \/ SeeCanceled \/ CloseIndexes \/ ReturnMany \/ StartPromoting \/ Cancel
  <2>1. call' = call /\ staged' = staged
      BY <1>3 DEF TakeError, SeeCanceled, CloseIndexes, ReturnMany, StartPromoting, Cancel
  <2>2. pool'.jobs = pool.jobs /\ pool'.found = pool.found /\ pool'.ours = pool.ours
      BY <1>0, <1>3 DEF TakeError, SeeCanceled, CloseIndexes, ReturnMany, StartPromoting, Cancel,
         PoolTypes, PoolRecord
  <2>. QED
      BY <1>0, <2>1, <2>2, QuietOurs
<1>4. ASSUME NEW w \in Worker, Quit(w) PROVE OursInv'
    BY <1>0, <1>4, QuietOurs DEF Quit
<1>5. ASSUME NEW w \in Worker, Deliver(w) PROVE OursInv'
  <2>1. /\ staged' = staged /\ pool'.jobs = pool.jobs /\ pool'.ours = Ours(w)
        /\ pool'.found = [pool.found EXCEPT ![at[w]] = Outcome(w)]
      BY <1>0, <1>5 DEF Deliver, PoolTypes, PoolRecord
  <2>2. (\A d \in Caller \ {w} : call'[d] = call[d]) /\ call'[w].pc = "idle"
      BY <1>0, <1>5 DEF Deliver, Hang, FetchTypes, NoCall
  <2>3. At(w, "done") /\ Checked(w) /\ Todo(at[w]) = Job(w) /\ w \notin Request
      BY <1>0, <1>5, BusyWorker DEF Deliver, At, Checked
  <2>4. \A i \in DOMAIN pool.jobs : pool'.found[i] = pool.found[i] \/ Todo(i) = Job(w)
      BY <1>0, <2>1, <2>3 DEF PoolTypes
  <2>5. pool.ours \subseteq pool'.ours /\ (ReportsStaged(w) => Dst(w) \in pool'.ours)
      BY <2>1 DEF Ours, Outcome, ReportsStaged
  <2>. QED
      BY <2>1, <2>2, <2>3, <2>4, <2>5, OneCallOurs
<1>6. ASSUME NEW w \in Worker, Skip(w) \/ Raise(w) PROVE OursInv'
  <2>1. /\ staged' = staged /\ pool'.jobs = pool.jobs /\ pool'.found = pool.found /\ pool'.ours = pool.ours
      BY <1>0, <1>6 DEF Skip, Raise, PoolTypes, PoolRecord
  <2>2. (\A d \in Caller \ {w} : call'[d] = call[d]) /\ call'[w].pc = "idle"
      BY <1>0, <1>6 DEF Skip, Raise, Hang, FetchTypes, NoCall
  <2>3. ~ReportsStaged(w)
      BY <1>6 DEF Skip, Raise, HardFailure, Outcome, ReportsStaged
  <2>. QED
      BY <2>1, <2>2, <2>3, OneCallOurs
<1>7. CASE Abandon \/ Finish \/ (Refetched /\ End)
  <2>1. /\ pool' = NoPool /\ \A w \in Worker : call'[w].pc = "idle"
        /\ call'[Main].pc = "idle" /\ \A h \in Request : call'[h] = call[h]
      BY <1>0, <1>7, AtTheEnd DEF At
  <2>. QED
      BY <2>1, EndOurs DEF NoPool
<1>8. ASSUME NEW i \in DOMAIN pool.jobs, Refetch(i) PROVE OursInv'
  <2>1. pool' = pool /\ staged' = staged /\ call[Main].pc = "idle"
      BY <1>8 DEF Refetch, At
  <2>2. (\A d \in Caller \ {Main} : call'[d] = call[d]) /\ call'[Main].pc = "lock"
      BY <1>0, <1>8 DEF Refetch, Invoke, FetchTypes, NoCall
  <2>. QED
      BY <2>1, <2>2, OneCallOurs DEF ReportsStaged
<1>9. CASE Refetched /\ ~End
  <2>1. RecordsOurs
      BY <1>0, <1>9, AfterRefetch
  <2>2. staged' = staged
      BY <1>9 DEF Refetched
  <2>3. (\A d \in Caller \ {Main} : call'[d] = call[d]) /\ call'[Main].pc = "idle"
      BY <1>0, <1>9 DEF Refetched, Hang, FetchTypes, NoCall
  <2>4. pool.ours \subseteq pool'.ours /\ (ReportsStaged(Main) => Dst(Main) \in pool'.ours)
      BY <2>1 DEF RecordsOurs, Ours, Outcome, ReportsStaged
  <2>. QED
      BY <2>1, <2>2, <2>3, <2>4, OneCallOurs DEF RecordsOurs
<1>10. CASE Promote
  <2>1. call' = call /\ staged' \in {staged, [staged EXCEPT ![Todo(pool.next).path] = Nothing]}
      BY <1>10 DEF Promote
  <2>2. pool'.jobs = pool.jobs /\ pool'.found = pool.found /\ pool'.ours = pool.ours
      BY <1>0, <1>10 DEF Promote, PoolTypes, PoolRecord
  <2>3. ASSUME NEW p \in Path PROVE staged'[p] = staged[p] \/ staged'[p] = Nothing
      BY <1>0, <2>1 DEF FetchTypes
  <2>. QED
      BY <1>0, <2>1, <2>2, <2>3, QuietOurs
<1>11. ASSUME NEW h \in Request, NEW j \in OnDemand, Ask(h, j) PROVE OursInv'
  <2>1. pool' = pool /\ staged' = staged /\ ~j.stage
      BY <1>11, FetchPoolAssumption DEF Ask
  <2>2. /\ \A d \in Caller \ {h} : call'[d] = call[d]
        /\ call'[h].pc = "lock" /\ call'[h].job = j
      BY <1>0, <1>11 DEF Ask, Invoke, FetchTypes, NoCall
  <2>. QED
      BY <2>1, <2>2, OneCallOurs DEF Job
<1>12. ASSUME NEW h \in Request, Answer(h) PROVE OursInv'
  <2>1. pool' = pool /\ staged' = staged
      BY <1>12 DEF Answer
  <2>2. /\ \A d \in Caller \ {h} : call'[d] = call[d]
        /\ call'[h].pc = "idle" /\ ~call'[h].job.stage
      BY <1>0, <1>12 DEF Answer, Hang, FetchTypes, NoCall, NoJob
  <2>. QED
      BY <2>1, <2>2, OneCallOurs DEF Job
<1>13. CASE Crash
  <2>1. pool' = NoPool /\ \A c \in Caller : call'[c] = NoCall
      BY <1>13 DEF Crash
  <2>. QED
      BY <2>1, EndOurs DEF NoPool, NoCall
<1>. QED
    BY <1>1, <1>2, <1>3, <1>4, <1>5, <1>6, <1>7, <1>8, <1>9, <1>10, <1>11, <1>12, <1>13 DEF PoolStep

(* Promotion publishes only what this run has staged (fetch.go file: "Clear *)
(* any staged leftover", PromoteStaged).                                    *)
THEOREM OnlyOursIsPromoted ==
    Spec => NoLeftoverPromoted
<1>1. Init => OursInv
  <2>. SUFFICES ASSUME Init PROVE OursInv
      OBVIOUS
  <2>1. \A c \in Caller : call[c] = NoCall
      BY DEF Init, FetchInit
  <2>2. DOMAIN pool.jobs = {}
      BY DEF Init, NoPool
  <2>. QED
      BY <2>1, <2>2, CallersOf DEF OursInv, Checked, Job, NoCall, NoJob
<1>2. ASSUME PoolIndInv, OursInv, [Next]_vars PROVE OursInv'
  <2>1. CASE (\E c \in Caller : CallStep(c)) /\ UNCHANGED <<pool, at>>
      BY <1>2, <2>1, CallStepOurs
  <2>2. CASE PoolStep
      BY <1>2, <2>2, PoolStepOurs
  <2>3. CASE (\E m \in Mirror : Advance(m)) /\ UNCHANGED <<pool, at>>
      BY <1>2, <2>3, QuietOurs DEF Advance, files, PoolIndInv
  <2>4. CASE UNCHANGED vars
      BY <1>2, <2>4, QuietOurs DEF vars, fetchVars, files, PoolIndInv
  <2>. QED
      BY <1>2, <2>1, <2>2, <2>3, <2>4, NextKinds
<1>3. ASSUME PoolIndInv, OursInv, [Next]_vars,
             pool.pc = "promote", pool' # pool, final' # final
      PROVE  Todo(pool.next).path \in pool.ours
  <2>1. PoolStep
      BY <1>3, NextKinds DEF vars
  <2>2. Promote
      BY <1>3, <2>1 DEF PoolStep, Begin, Dispatch, TakeError, SeeCanceled, CloseIndexes, Deliver, Skip, Raise,
         Quit, ReturnMany, Abandon, Refetch, Refetched, StartPromoting, Finish, End, Ask, Answer, Cancel,
         Crash, fetchVars, files
  <2>3. /\ pool.next \in DOMAIN pool.jobs /\ Todo(pool.next).stage
        /\ pool.found[pool.next] # "missing" /\ staged[Todo(pool.next).path] # Nothing
      BY <1>3, <2>2 DEF Promote, Sent, PoolIndInv, PoolTypes, PoolRecord
  <2>4. StagedHere(Todo(pool.next).path)
      BY <1>3, <2>3 DEF OursInv, NoLeftover
  <2>5. \A c \in Worker \cup {Main} : call[c].pc = "idle"
      BY <1>3 DEF PoolIndInv, Vacated, WorkersInv, BystandersInv, At
  <2>. QED
      BY <2>4, <2>5 DEF StagedHere
<1>4. PoolIndInv /\ OursInv /\ [Next]_vars
         => [pool.pc = "promote" /\ pool' # pool /\ final' # final
                => Todo(pool.next).path \in pool.ours]_vars
    BY <1>3
<1>. QED
    BY <1>1, <1>2, <1>4, PoolIndInvAlways, PTL DEF Spec, NoLeftoverPromoted

-----------------------------------------------------------------------------
(* Whatever overlaps, breaks off, is resumed elsewhere or dies, a published  *)
(* and a staged file are complete copies of one generation's (fetch.go file, *)
(* download).                                                                *)
THEOREM FilesAreWhole ==
    Spec => []WholeFiles
<1>1. PoolIndInv => WholeFiles
    BY DEF PoolIndInv
<1>. QED
    BY <1>1, PoolIndInvAlways, PTL

(* What a call reports about a file with a published checksum is true of it. *)
THEOREM ReportsAreTrue ==
    Spec => []ReportedAsListed
<1>1. PoolIndInv => ReportedAsListed
    BY DEF PoolIndInv, CallsInv, ReportOK, ReportedAsListed
<1>. QED
    BY <1>1, PoolIndInvAlways, PTL

(* When Many reports success no job was lost (fetch.go Many). *)
THEOREM SuccessIsComplete ==
    Spec => []SuccessMeansDone
<1>1. PoolIndInv => SuccessMeansDone
    BY DEF PoolIndInv, DoneInv, Kept, Concluded, Accounted, SuccessMeansDone
<1>. QED
    BY <1>1, PoolIndInvAlways, PTL

(* The pool's bookkeeping is well formed, and no worker outlives Many. *)
THEOREM PoolIsWellFormed ==
    Spec => []PoolInv
<1>1. ASSUME PoolIndInv PROVE FetchTypeOK
  <2>1. \A s \in Source : active[s] \in 0..(Len(Bases[s]) - 1)
    BY <1>1, FileFetchAssumption DEF PoolIndInv, FetchTypes
  <2>2. ASSUME NEW c \in Caller
        PROVE  /\ call[c].pc \in CallPlace /\ call[c].result \in CallResult
               /\ call[c].resume > 0 => call[c].resume < Len(Job(c).want)
    BY <1>1 DEF PoolIndInv, FetchTypes, CallRecord, CallsInv, CallOK
  <2>. QED
    BY <1>1, <2>1, <2>2 DEF PoolIndInv, FetchTypes, FetchTypeOK, CallPlace, CallResult
<1>2. ASSUME PoolIndInv PROVE TypeOK
  <2>1. /\ pool.pc \in {"idle", "dispatch", "wait", "returned", "promote"}
        /\ pool.next \in 1..(Len(pool.jobs) + 1) /\ pool.err \in {"none", "error"}
        /\ pool.verdict \in {"none", "ok", "error", "canceled"} /\ {pool.keep, pool.ours} \subseteq SUBSET Path
    BY <1>2 DEF PoolIndInv, PoolTypes, PoolRecord
  <2>. QED
    BY <1>1, <1>2, <2>1 DEF PoolIndInv, PoolTypes, WorkersInv, TypeOK
<1>3. PoolIndInv => NobodyLeftBehind
    BY DEF PoolIndInv, Vacated, WorkersInv, NobodyLeftBehind
<1>4. PoolIndInv => PoolInv
    BY <1>2, <1>3 DEF PoolInv
<1>. QED
    BY <1>4, PoolIndInvAlways, PTL

(* A wrong checksum is blamed only on content that one mirror served as a   *)
(* whole (fetch.go file: the second attempt, from scratch).                  *)
THEOREM MismatchesAreUpstreams ==
    Spec => MismatchIsUpstreams
<1>. DEFINE Blames(c) ==
              At(c, "failed") /\ At(c, "unlock")' /\ ~Canceled(c) /\ call[c].result = "mismatch"
                  => call[c].seen \in Bodies(Dst(c))
<1>1. ASSUME PoolIndInv, [Next]_vars, NEW c \in Caller PROVE Blames(c)
  <2>1. CASE PoolStep
    <3>1. call'[c] = call[c] \/ call'[c].pc \in {"idle", "lock"}
      BY <1>1, <2>1, PoolStepCalls, FreshOK DEF PoolIndInv, Handover
    <3>. QED
      BY <3>1 DEF At
  <2>2. ASSUME NEW d \in Caller, CallStep(d), d # c PROVE Blames(c)
    <3>1. call'[c] = call[c]
      BY <1>1, <2>2, CallStepJob DEF PoolIndInv, FetchTypes
    <3>. QED
      BY <3>1 DEF At
  <2>3. CASE CallStep(c)
    <3>1. SUFFICES ASSUME At(c, "failed"), At(c, "unlock")', ~Canceled(c), call[c].result = "mismatch"
                   PROVE  call[c].seen \in Bodies(Dst(c))
        OBVIOUS
    <3>2. GiveUp(c) \/ TryAgain(c)
      BY <2>3, <3>1 DEF CallStep, At, Lock, Check, MirrorFails, Forbidden, NotFound, NotModified, Whole,
         Rest, Answered, Copy, BreakOff, Install, Reject, Received, Unlock
    <3>3. GiveUp(c)
      BY <1>1, <3>1, <3>2 DEF TryAgain, NoCall, PoolIndInv, FetchTypes, At
    <3>4. call[c].resume = 0
      BY <1>1, <3>1, <3>3 DEF GiveUp, Retries, PoolIndInv, FetchTypes, CallRecord
    <3>. QED
      BY <1>1, <3>1, <3>4 DEF PoolIndInv, CallsInv, CallOK
  <2>4. CASE call' = call
    BY <2>4 DEF At
  <2>. QED
    BY <1>1, <2>1, <2>2, <2>3, <2>4, NextKinds DEF Advance, vars, fetchVars
<1>2. PoolIndInv /\ [Next]_vars => [\A c \in Caller : Blames(c)]_fetchVars
    BY <1>1
<1>. QED
    BY <1>2, PoolIndInvAlways, PTL DEF Spec, MismatchIsUpstreams
==============================================================================
