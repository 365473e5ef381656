------------------------------ MODULE MCDebSync ------------------------------
(* Three generations: the second comes without Release.gpg and with the same   *)
(* index; the third is served without InRelease and with a new index, in one   *)
(* variant less, of the size the first had.                                    *)
EXTENDS DebSync

MCServes == [g \in 1..Last |-> CASE g = 1 -> Doc
                                 [] g = 2 -> {"InRelease", "Release"}
                                 [] g = 3 -> {"Release", "Release.gpg"}]
MCIssue == [g \in 1..Last |-> IF g = 3 THEN 2 ELSE 1]
MCOffers == [g \in 1..Last |-> IF g = 3 THEN {"gz"} ELSE {"gz", "xz"}]
MCRank == [v \in Variant |-> IF v = "gz" THEN 0 ELSE 1]
MCSize == [n \in 1..2 |-> 1]
MCConfs == {
    [mode |-> "required", missing |-> "retry", flat |-> FALSE, nested |-> TRUE],
    [mode |-> "if-present", missing |-> "retry", flat |-> TRUE, nested |-> FALSE],
    [mode |-> "off", missing |-> "ignore", flat |-> TRUE, nested |-> TRUE],
    [mode |-> "off", missing |-> "ignore", flat |-> TRUE, nested |-> FALSE]}
MCLists == [n \in 1..2 |-> IF n = 1 THEN {"old"} ELSE {"new"}]
=============================================================================
