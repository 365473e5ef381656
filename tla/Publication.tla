----------------------------- MODULE Publication -----------------------------
(***************************************************************************)
(* What synchronizing a repository promises the readers of the published   *)
(* tree: upstream publishes generations in order, and the tree shows one   *)
(* of them, never an older one than before and, when signatures are        *)
(* required, never one that no trusted key signed.                         *)
(***************************************************************************)
EXTENDS Integers

CONSTANTS Last, Trusted

VARIABLES up,      \* the newest generation upstream has
          mode,    \* signature_mode
          shown    \* the generation the tree shows, 0 before the first

Init == up = 1 /\ shown = 0

Offer == up < Last /\ up' = up + 1 /\ UNCHANGED <<mode, shown>>

Acceptable(g) == mode = "required" => g \in Trusted

Show ==
    /\ shown' \in shown + 1 .. up
    /\ Acceptable(shown')
    /\ UNCHANGED <<up, mode>>

Next == Offer \/ Show

Spec == Init /\ [][Next]_<<up, mode, shown>>
=============================================================================
