--------------------------- MODULE BenjaminiHochberg ---------------------------
(***************************************************************************)
(* benjamini_hochberg of agents/auditor/checks/fdr.py: the step-up         *)
(* procedure over a family f, a function from test ids to p-values.  The   *)
(* ids are integers in the order of insertion, a p-value is the numerator  *)
(* of a fraction of the common denominator `one` (1.0), q is another       *)
(* (0 < q < one), and a NaN p-value is `one`, as the code reads it.        *)
(***************************************************************************)
EXTENDS Naturals, FiniteSets

Size(f) == Cardinality(DOMAIN f)

\* Position in the sorted family; ties keep the order of insertion.
Rank(f, k) ==
    Cardinality({j \in DOMAIN f : f[j] < f[k] \/ (f[j] = f[k] /\ j <= k)})

Sorted(f) == [i \in 1 .. Size(f) |-> f[CHOOSE k \in DOMAIN f : Rank(f, k) = i]]

\* Fractions <<numerator, denominator>>.
AtMost(x, y) == x[1] * y[2] <= y[1] * x[2]
Lesser(x, y) == IF AtMost(x, y) THEN x ELSE y

\* Wrong: the minimum runs from the smallest p-value up.
AdjustedFromBelow(f, one) ==
    LET m == Size(f)
        run[i \in 1 .. m] ==
            Lesser(IF i = 1 THEN <<one, 1>> ELSE run[i - 1], <<Sorted(f)[i] * m, i>>)
    IN run

(* adjusted: p_(i) * m / i, its minimum run from the top down, from 1.0.   *)
Adjusted(f, one) ==
    LET m == Size(f)
        run[i \in 1 .. m] ==
            Lesser(IF i = m THEN <<one, 1>> ELSE run[i + 1], <<Sorted(f)[i] * m, i>>)
    IN run

Rejected(f, q, one) ==
    LET adjusted == Adjusted(f, one) IN
    {k \in DOMAIN f : AtMost(adjusted[Rank(f, k)], <<q, 1>>)}

(* The textbook: every test up to the largest rank i whose p-value is at   *)
(* most i/m times q.                                                       *)
StepUp(f, q) ==
    LET under == {i \in 1 .. Size(f) : Sorted(f)[i] * Size(f) <= i * q} IN
    {k \in DOMAIN f : \E i \in under : Rank(f, k) <= i}

===============================================================================
