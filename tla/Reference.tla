----------------------------- MODULE Reference ------------------------------
(***************************************************************************)
(* One reference price out of several venues (fair_value.rs): the mean of   *)
(* the venues close enough to the median, where close enough is measured by *)
(* their own disagreement; no price when too few are left or when they      *)
(* disagree too much.  Deviations are in parts of the median.              *)
(*                                                                         *)
(* A cross-section is a function from venues to positive prices.           *)
(***************************************************************************)
EXTENDS Integers, FiniteSets, FiniteSetsExt, Functions

CONSTANTS
    Parts,          \* parts of a price in the unit of deviation
    VenuesMin,      \* the quorum
    KTenths,        \* the threshold in tenths of the disagreement
    Floor,          \* the least threshold
    DispersionMax   \* the most disagreement

ASSUME ReferenceAssumption ==
    {Parts, VenuesMin} \subseteq Nat \ {0} /\ {KTenths, Floor, DispersionMax} \subseteq Nat

NoPrice == 0

Size(q) == Cardinality(DOMAIN q)

Abs(x) == IF x < 0 THEN -x ELSE x

(* The k-th smallest value of a function. *)
Kth(q, k) ==
    CHOOSE x \in Range(q) : /\ Cardinality({v \in DOMAIN q : q[v] < x}) < k
                            /\ Cardinality({v \in DOMAIN q : q[v] <= x}) >= k

(* Of an even number, the mean of the two in the middle, rounded down. *)
Median(q) ==
    IF Size(q) % 2 = 1 THEN Kth(q, Size(q) \div 2 + 1)
    ELSE (Kth(q, Size(q) \div 2) + Kth(q, Size(q) \div 2 + 1)) \div 2

Deviations(q) ==
    LET median == Median(q)
    IN  [v \in DOMAIN q |-> (Abs(q[v] - median) * Parts) \div median]

Disagreement(q) == Median(Deviations(q))

(* Two venues that disagree are each as far from their median: nothing can  *)
(* be rejected, and the limit on the disagreement is all there is.         *)
Threshold(q) ==
    IF Size(q) < 3 THEN DispersionMax
    ELSE Max({(Disagreement(q) * KTenths) \div 10, Floor})

(* Faulty: nobody is rejected. *)
UsedAll(q) == DOMAIN q

Used(q) ==
    LET deviations == Deviations(q)
        threshold  == Threshold(q)
    IN  {v \in DOMAIN q : deviations[v] <= threshold}

(* combine: a price only from a quorum that survives, and agrees. *)
Agreed(q) ==
    /\ Size(q) >= VenuesMin /\ Size(q) > 0 /\ Disagreement(q) <= DispersionMax
    /\ Cardinality(Used(q)) >= VenuesMin

Combined(q) ==
    IF ~Agreed(q) THEN NoPrice
    ELSE LET used == Used(q)
         IN  SumFunctionOnSet(q, used) \div Cardinality(used)

=============================================================================
