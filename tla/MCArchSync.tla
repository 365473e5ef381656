----------------------------- MODULE MCArchSync ------------------------------
(* Three generations: "pkg" changes its content under the same name with the   *)
(* second, "old" is dropped by the third, which is served without a signature  *)
(* of the database and without the companion file.                             *)
EXTENDS ArchSync

MCServes == [g \in 1..Last |-> IF g = 3 THEN {"db"} ELSE {"db", "sig", "files"}]
MCWant == [g \in 1..Last |->
    [p \in Package |-> IF p = "pkg" THEN (IF g = 1 THEN 1 ELSE 2)
                                    ELSE (IF g = 3 THEN 0 ELSE 1)]]
MCSigned == [g \in 1..Last |-> IF g = 2 THEN {"old", "pkg"} ELSE {"pkg"}]
MCConfs == {
    [format |-> "arch", mode |-> "required", missing |-> "retry"],
    [format |-> "arch", mode |-> "if-present", missing |-> "fail"],
    [format |-> "arch", mode |-> "off", missing |-> "retry"],
    [format |-> "apk", mode |-> "off", missing |-> "retry"]}
=============================================================================
