-------------------------- MODULE CapacityBudget ---------------------------
(***************************************************************************)
(* What PropPool's capacity and used words promise together: every side of  *)
(* every pair has a budget, a refresh replaces it and forgets what was      *)
(* spent, and nothing else gives anything back.  A fill spends at most what *)
(* is left.                                                                *)
(***************************************************************************)
EXTENDS Naturals

CONSTANT Budgets    \* one per side of a pair

VARIABLES
    total,  \* what the last refresh allowed
    spent   \* what fills took since then

vars == <<total, spent>>

Init == total = [b \in Budgets |-> 0] /\ spent = [b \in Budgets |-> 0]

(* A refresh of some budgets, the others untouched. *)
Refresh(R) ==
    /\ \A b \in R : spent'[b] = 0
    /\ \A b \in Budgets \ R : total'[b] = total[b] /\ spent'[b] = spent[b]

Spend(b) ==
    /\ spent[b] < spent'[b] /\ spent'[b] <= total[b]
    /\ \A c \in Budgets \ {b} : spent'[c] = spent[c]
    /\ total' = total

Next == (\E R \in SUBSET Budgets : Refresh(R)) \/ (\E b \in Budgets : Spend(b))

Spec == Init /\ [][Next]_vars

=============================================================================
