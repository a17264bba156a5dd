----------------------------- MODULE BounceBack -----------------------------
(***************************************************************************)
(* The price rules of the corrected branch: the decimal-shift correction    *)
(* (scripts/apply_decimal_shift.py) and the per-bond bounce-back filter     *)
(* (scripts/bounce_back_filter.py, DRR Table A.2).  Prices are integers in  *)
(* points; those to be divided by 10 or 100 are multiples of it.            *)
(***************************************************************************)
EXTENDS Integers, SequencesExt

CONSTANTS
    NonFinite,                       \* the price of a row without a usable one
    PriceFloor, PriceCeiling, PreCeiling, \* thresholds.yaml trace_cleaning
    ThresholdAbs, Lookahead, Window, \* thresholds.yaml bounce_back_filter
    RecoveryTol,                     \* back_to_anchor_tol + candidate_slack_abs
    ParLevel, ParBand, ParMinRun, ParCooldown

ASSUME PriceAssumption ==
    /\ {PriceFloor, PriceCeiling, PreCeiling, NonFinite} \subseteq Int
    /\ {Lookahead, Window, ParMinRun} \subseteq Nat \ {0}
    /\ ParCooldown \in Nat

\* The first of the factors 1, 10 and 100 that brings the price into the band;
\* 0 when none does, when it is above the ceiling of the first gate, or absent.
ShiftFactor(p) ==
    LET fits == {k \in {1, 10, 100} :
                    PriceFloor * k < p /\ p <= PriceCeiling * k}
    IN IF p = NonFinite \/ p > PreCeiling \/ fits = {}
       THEN 0
       ELSE CHOOSE k \in fits : \A other \in fits : k <= other

\* The members of a sequence at some positions, and those that pass a test, in
\* their order: SelectSeq by a fold, which proofs can unfold.
At(s, I) ==
    FoldLeftDomain(LAMBDA acc, i : IF i \in I THEN Append(acc, s[i]) ELSE acc,
                   <<>>, s)
Filtered(s, Test(_)) == At(s, {i \in DOMAIN s : Test(s[i])})

\* apply_decimal_shift_vec over a file: what has no factor is dropped.
DecimalShift(rows) ==
    LET kept == Filtered(rows, LAMBDA r : ShiftFactor(r.pr) # 0)
    IN [i \in DOMAIN kept |->
           [kept[i] EXCEPT !.pr = @ \div ShiftFactor(@)]]

Distance(a, b) == IF a < b THEN b - a ELSE a - b

\* A deque of at most Window prices in which no price follows itself.
PushUnique(trailing, p) ==
    IF trailing # <<>> /\ Last(trailing) = p
    THEN trailing
    ELSE LET longer == Append(trailing, p)
         IN IF Len(longer) > Window THEN Tail(longer) ELSE longer

\* Twice the median: the average of the two middle prices is then an integer.
TwiceMedian(trailing) ==
    LET s == SortSeq(trailing, <=)
        n == Len(s)
    IN s[(n + 1) \div 2] + s[(n + 2) \div 2]

NearParRun(trailing) ==
    /\ Len(trailing) >= ParMinRun
    /\ \A k \in Len(trailing) - ParMinRun + 1 .. Len(trailing) :
           Distance(trailing[k], ParLevel) <= ParBand

\* The step of the loop at position i of a bond's prices.
FilterStep(prices, st, i) ==
    LET p == prices[i]
        snap == NearParRun(st.trailing)
        anchor == TwiceMedian(st.trailing)
        flag == IF snap THEN 2 * ParLevel ELSE anchor
        ahead == i + 1 .. (IF i + Lookahead < Len(prices)
                           THEN i + Lookahead ELSE Len(prices))
        recovered == \E j \in ahead :
                         Distance(2 * prices[j], anchor) <= 2 * RecoveryTol
        pass == [st EXCEPT !.keep = Append(@, TRUE),
                           !.trailing = PushUnique(@, p)]
    IN IF st.cooldown > 0
       THEN [pass EXCEPT !.cooldown = @ - 1]
       ELSE IF \/ Len(st.trailing) < 2
               \/ Distance(2 * p, flag) <= 2 * ThresholdAbs
               \/ ~recovered
            THEN pass
            ELSE [st EXCEPT !.keep = Append(@, FALSE),
                            !.cooldown = IF snap THEN ParCooldown ELSE 0]

\* _apply_bounce_back_loop: the keep mask of a bond's prices.
BounceBackLoop(prices) ==
    FoldLeftDomain(LAMBDA st, i : FilterStep(prices, st, i),
                   [keep |-> <<>>, trailing |-> <<>>, cooldown |-> 0],
                   prices).keep

=============================================================================
