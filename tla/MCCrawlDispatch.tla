--------------------------- MODULE MCCrawlDispatch ---------------------------
(* Two deb suites below one archive root and an rpm repository: enough for    *)
(* crawls that share a root lock, a resource lock or neither.                 *)
EXTENDS CrawlDispatch
CONSTANTS jammy, noble, epel, pool

MCRootKey == [r \in Resource |-> IF r = epel THEN None ELSE pool]
MCThread == Crawler \cup Handler \cup {Scheduler}
=============================================================================
