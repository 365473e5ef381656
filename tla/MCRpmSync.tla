------------------------------ MODULE MCRpmSync ------------------------------
(* Three generations.  The second is not signed and comes with a key file; it  *)
(* drops "old", which returns with the third; "pkg" changes its content under  *)
(* the same name.                                                              *)
EXTENDS RpmSync

MCServes == [g \in 1..Last |-> {"repomd", IF g = 2 THEN "key" ELSE "sig"}]

MCWant == [g \in 1..Last |->
    [p \in Path |-> CASE p = "index" -> 1
                      [] p = "old" -> IF g = 2 THEN 0 ELSE 1
                      [] p = "pkg" -> IF g = 1 THEN 1 ELSE 2]]
=============================================================================
