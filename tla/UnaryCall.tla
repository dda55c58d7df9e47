------------------------------ MODULE UnaryCall ------------------------------
(***************************************************************************)
(* What a page may rely on when it makes a unary call: it is answered at   *)
(* most once, and never behind its own cancellation.                       *)
(***************************************************************************)
EXTENDS Naturals, Sequences

VARIABLES outcome,     \* the answers the page was given
          cancelled    \* it has called cancel

vars == <<outcome, cancelled>>

Init == outcome = <<>> /\ cancelled = FALSE

Answer ==
    /\ ~cancelled /\ outcome = <<>>
    /\ Len(outcome') = 1
    /\ UNCHANGED cancelled

Cancel == cancelled' = TRUE /\ UNCHANGED outcome

Next == Answer \/ Cancel

Spec == Init /\ [][Next]_vars
=============================================================================
