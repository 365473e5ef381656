------------------------------ MODULE Schedule ------------------------------
(***************************************************************************)
(* The timing rules of the crawl scheduler (server/crawl_loop.go), as      *)
(* operators on a registry entry.  Times are natural numbers; Never is     *)
(* Go's zero time.  An entry's fields keep the meaning of state.Entry:     *)
(* requested (LastRequested), crawled (LastCrawled), next (NextCrawl),     *)
(* listed (LastSeenInInventory), failed (LastError # "").                  *)
(***************************************************************************)
EXTENDS Integers, Sequences, FiniteSetsExt

Never == -1

\* Cumulative[i]: the budget of the first i steps; steps <= 0 are skipped.
Cumulative(schedule) ==
    LET sum[i \in 0..Len(schedule)] ==
            IF i = 0 THEN 0
            ELSE sum[i - 1] + (IF schedule[i] > 0 THEN schedule[i] ELSE 0)
    IN  sum

\* The first step whose cumulative budget is not used up, else stale.
RefreshTier(since, schedule) ==
    LET sum == Cumulative(schedule)
        open == {i \in 1..Len(schedule) : schedule[i] > 0 /\ since < sum[i]}
    IN  IF open = {} THEN [interval |-> 0, stale |-> TRUE]
        ELSE [interval |-> schedule[Min(open)], stale |-> FALSE]

\* Retry gate after a failure, else the tier, pushed back by NextCrawl.
NextCrawlAt(e, interval) ==
    IF e.crawled = Never THEN Never
    ELSE IF e.failed /\ e.next # Never THEN e.next
    ELSE IF e.next # Never /\ e.next > e.crawled + interval THEN e.next
    ELSE e.crawled + interval

\* Mutant: the zero time is taken for a gate that has not come.
DueByTierGated(e, interval, now) ==
    LET next == NextCrawlAt(e, interval) IN next # Never /\ now >= next

DueByTier(e, interval, now) ==
    LET next == NextCrawlAt(e, interval) IN next = Never \/ now >= next

\* Mutant: a repository never crawled is not due.
DueForInventoryAgain(e, now, crawlInterval) ==
    /\ e.crawled # Never
    /\ IF e.next # Never THEN now >= e.next ELSE now - e.crawled >= crawlInterval

DueForInventory(e, now, crawlInterval) ==
    \/ e.crawled = Never
    \/ IF e.next # Never THEN now >= e.next ELSE now - e.crawled >= crawlInterval

ActiveInInventory(e, now, grace) == e.listed # Never /\ now - e.listed < grace
=============================================================================
