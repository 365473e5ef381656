----------------------------- MODULE MCDiscovery -----------------------------
(* Three trees: a directory with a repository in it, which holds an image; the *)
(* directory turned into a repository itself; the directory again, with the    *)
(* inner repository turned into a directory of loose files.  The outer         *)
(* directory is a base URL of its own as well, so that the inner one is        *)
(* within the depth of one base and not of the other.                          *)
EXTENDS Discovery

MCUrls == <<"pub", "os">>
MCParent == [e \in Entry |-> CASE e = "os" -> Top [] e = "el9" -> "os" [] e = "iso" -> "el9"]
MCKind == [g \in 1..Last |-> [e \in Entry |->
    CASE e = "os" -> IF g = 2 THEN "repo" ELSE "dir"
      [] e = "el9" -> IF g = 1 THEN "repo" ELSE IF g = 2 THEN "none" ELSE "dir"
      [] e = "iso" -> IF g = 2 THEN "none" ELSE "file"]]
MCOptions == {
    [leaves |-> {}, prune |-> TRUE, dry |-> FALSE],
    [leaves |-> {"el9"}, prune |-> FALSE, dry |-> FALSE],
    [leaves |-> {}, prune |-> TRUE, dry |-> TRUE]}
=============================================================================
