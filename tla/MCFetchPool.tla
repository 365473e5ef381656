----------------------------- MODULE MCFetchPool -----------------------------
(* Two generations of an index, staged, of the same size, a package that the  *)
(* second one drops, and an optional file that upstream lacks; a pool of two  *)
(* workers for up to three jobs, and a request for the package.  The index is *)
(* also asked for as a companion, of which no metadata tells the content.     *)
EXTENDS FetchPool, TLC
CONSTANTS w1, w2, req

MCBody == [g \in Gen |->
    [p \in Path |-> CASE p = "index" -> IF g = 1 THEN <<1, 2>> ELSE <<3, 4>>
                      [] p = "pkg" -> IF g = 1 THEN <<1>> ELSE Nothing
                      [] p = "extra" -> Nothing]]

MCStripe == [p \in Path |-> p]
MCSourceOf == [c \in Caller |-> IF c = req THEN "mount" ELSE "crawl"]
MCBases == [s \in Source |-> IF s = "mount" THEN <<"a">> ELSE <<"a", "b">>]
MCCaller == Worker \cup Request \cup {Main}

Listed(g, p, stage, deep) ==
    [path |-> p, want |-> MCBody[g][p], summed |-> TRUE, deep |-> deep,
     stage |-> stage, fresh |-> FALSE, optional |-> stage]

Unlisted == [NoJob EXCEPT !.path = "index", !.stage = TRUE, !.optional = TRUE]
Extra == [NoJob EXCEPT !.path = "extra", !.optional = TRUE]

MCJobLists ==
    {[jobs |-> <<Listed(1, "index", TRUE, TRUE), Listed(1, "pkg", FALSE, FALSE), Extra>>,
      tolerant |-> TRUE],
     [jobs |-> <<Listed(2, "index", TRUE, TRUE)>>, tolerant |-> FALSE],
     [jobs |-> <<Unlisted>>, tolerant |-> FALSE]}
MCOnDemand == {[NoJob EXCEPT !.path = "pkg"]}
WorkerSymmetry == Permutations(Worker)
=============================================================================
