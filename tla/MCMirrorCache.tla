--------------------------- MODULE MCMirrorCache ---------------------------
(* One tick is one crawl interval; the refresh schedule has one step, so a    *)
(* repository not requested for a tick is stale.                              *)
EXTENDS MirrorCache, TLC
CONSTANTS outer, inner

HandlerSymmetry == Permutations(Handler)

MCRefresh == <<1>>
MCBelow == [r \in Repo |-> IF r = outer /\ inner \in Repo THEN {inner} ELSE {}]
=============================================================================
