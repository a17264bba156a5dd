------------------------- MODULE CharacteristicSort -------------------------
(***************************************************************************)
(* agents/quant/library: the characteristic-sort engine                     *)
(* (characteristic_sort.py) and its overlapping-holding wrapper             *)
(* (overlap.py), run again each time the panel has grown by a month.        *)
(* A bond is its number, which is what ties are broken by; a month is its   *)
(* position; a bond without a row in a month has a row of NaNs, which every *)
(* use of the two treats alike.  Returns are integers and an average is an  *)
(* exact fraction <<numerator, denominator>>.                               *)
(***************************************************************************)
EXTENDS Integers, Sequences, FiniteSets, Functions
Sets == INSTANCE FiniteSetsExt

CONSTANTS
    Bonds,     \* a set of integers
    Cells,     \* [bond -> the rows it may have in a month: score, size, ret]
    NaN,       \* an integer that is no score, size or return
    Rulebooks, \* settings, with their defaults
    Holding,   \* holding_period of the wrapper
    MaxMonths  \* bound: the panel's months

\* What _apply_defaults lets through.  A trim's bound is absolute, or a level in
\* hundredths; NaN when there is none.
TrimRules ==
    {trim \in [method : {"none", "truncate", "winsorise"},
               type : {"absolute", "percentile"}, lo : Int, hi : Int] :
        trim.type = "percentile" => {trim.lo, trim.hi} \subseteq (1 .. 99) \cup {NaN}}
ValidRulebooks ==
    {rb \in [groups : Nat \ {0, 1}, long : Nat, short : Nat,
             weighting : {"by_size", "equal"}, lag : Nat, minBonds : Nat \ {0},
             control : STRING, controlGroups : Nat \ {0, 1}, trim : TrimRules] :
        {rb.long, rb.short} \subseteq 0 .. rb.groups - 1 /\ rb.long # rb.short}

ASSUME SortAssumption ==
    /\ Bonds \subseteq Int /\ IsFiniteSet(Bonds) /\ NaN \in Int
    /\ DOMAIN Cells = Bonds
    /\ \A b \in Bonds : \A row \in Cells[b] :
           {row.score, row.size, row.ret} \subseteq Int
    /\ {Holding, MaxMonths} \subseteq Nat \ {0}
    /\ Rulebooks \subseteq ValidRulebooks

VARIABLES
    panel,    \* months 1 .. Len(panel): [Bonds -> rows]
    rulebook, \* of every run
    monthly,  \* run_characteristic_sort's rows, by realisation month
    held      \* run_with_holding_period's

vars == <<panel, rulebook, monthly, held>>

Month(p, t, field) ==
    [b \in Bonds |-> IF t \in DOMAIN p THEN p[t][b][field] ELSE NaN]
-----------------------------------------------------------------------------
(* Trim rules.                                                              *)

Above(r, lo) == lo = NaN \/ r >= lo
Below(r, hi) == hi = NaN \/ r <= hi
Clip(r, trim) ==
    LET raised == IF Above(r, trim.lo) THEN r ELSE trim.lo
    IN IF Below(raised, trim.hi) THEN raised ELSE trim.hi

\* Wrong: a bond must live to the end of the hold to be picked.
EligibleForTheHold(p, rb, t) ==
    {b \in Bonds : /\ Month(p, t - rb.lag, "score")[b] # NaN
                   /\ Month(p, t, "size")[b] # NaN
                   /\ \A h \in 1 .. Holding : Month(p, t + h, "ret")[b] # NaN}

\* _eligibility_mask: score, size and next return there, and the control.
Eligible(p, rb, t) ==
    {b \in Bonds : /\ Month(p, t - rb.lag, "score")[b] # NaN
                   /\ Month(p, t, "size")[b] # NaN
                   /\ Month(p, t + 1, "ret")[b] # NaN
                   /\ rb.control # "none" => Month(p, t, rb.control)[b] # NaN}

\* The percentile method "lower" of the eligible next returns of all months:
\* the largest of them that at most a level's share of the others are below.
Quantile(p, rb, level) ==
    LET obs == {o \in (DOMAIN p) \X Bonds : o[2] \in Eligible(p, rb, o[1])}
        At(o) == Month(p, o[1] + 1, "ret")[o[2]]
        rank == (level * (Cardinality(obs) - 1)) \div 100
    IN Sets!Max({At(o) : o \in {x \in obs :
               Cardinality({y \in obs : At(y) < At(x)}) <= rank}})

\* _resolve_percentile_trim: absolute bounds over the full sample, no trim
\* when nothing is eligible.
Resolve(p, rb) ==
    LET Level(l) == IF l = NaN THEN NaN ELSE Quantile(p, rb, l)
    IN IF rb.trim.method = "none" \/ rb.trim.type = "absolute" THEN rb
       ELSE IF \A t \in DOMAIN p : Eligible(p, rb, t) = {}
       THEN [rb EXCEPT !.trim.method = "none"]
       ELSE [rb EXCEPT !.trim.type = "absolute",
                       !.trim.lo = Level(@), !.trim.hi = Level(@)]

\* _apply_trim_rule: the eligible bonds that are left, and what they earn.
Trimmed(S, next, trim) ==
    {b \in S : trim.method = "truncate" =>
                   Above(next[b], trim.lo) /\ Below(next[b], trim.hi)}
NextReturn(p, rb, t) ==
    [b \in Bonds |-> IF rb.trim.method = "winsorise"
                     THEN Clip(Month(p, t + 1, "ret")[b], rb.trim)
                     ELSE Month(p, t + 1, "ret")[b]]

\* Wrong: held months are not trimmed.
TrimmedAtFormation(rb, r) == r

\* Wrong: a return at a bound is cut too.
TrimmedStrictly(rb, r) ==
    CASE r = NaN \/ rb.trim.method = "none" -> r
      [] r # NaN /\ rb.trim.method = "truncate" ->
             IF \/ ~Above(r, rb.trim.lo) \/ ~Below(r, rb.trim.hi)
                \/ r \in {rb.trim.lo, rb.trim.hi} THEN NaN ELSE r
      [] r # NaN /\ rb.trim.method = "winsorise" -> Clip(r, rb.trim)

\* overlap._trimmed_returns: the same rule on every return of the panel.
TrimmedReturn(rb, r) ==
    CASE r = NaN \/ rb.trim.method = "none" -> r
      [] r # NaN /\ rb.trim.method = "truncate" ->
             IF Above(r, rb.trim.lo) /\ Below(r, rb.trim.hi) THEN r ELSE NaN
      [] r # NaN /\ rb.trim.method = "winsorise" -> Clip(r, rb.trim)
-----------------------------------------------------------------------------
(* One formation month. *)

\* _assign_groups, ties broken by the bond.
GroupOf(rank, groups, n) == (rank * groups) \div n
Group(S, value, groups) ==
    [b \in S |->
        GroupOf(Cardinality({c \in S : \/ value[c] < value[b]
                                       \/ value[c] = value[b] /\ c < b}),
                groups, Cardinality(S))]

Sum(S, Of(_)) == SumFunction([x \in S |-> Of(x)])
Weight(rb, size) == [b \in Bonds |-> IF rb.weighting = "equal" THEN 1 ELSE size[b]]

\* The weighted average of a leg; none when its weights have no positive sum.
NoLeg == <<>>
Leg(S, weight, ret) ==
    LET total == Sum(S, LAMBDA b : weight[b])
    IN IF S = {} \/ total <= 0 THEN NoLeg
       ELSE <<Sum(S, LAMBDA b : weight[b] * ret[b]), total>>

Plus(x, y) == <<x[1] * y[2] + y[1] * x[2], x[2] * y[2]>>
Average(S, Of(_)) ==
    LET sum == FoldFunction(Plus, <<0, 1>>, [x \in S |-> Of(x)])
    IN <<sum[1], sum[2] * Cardinality(S)>>
Same(x, y) == x[1] * y[2] = y[1] * x[2]

\* The bonds of the month's sort; none below min_bonds, before or after the
\* trim.
Universe(p, rb, t) ==
    LET Enough(S) == IF Cardinality(S) < rb.minBonds THEN {} ELSE S
    IN Enough(Trimmed(Enough(Eligible(p, rb, t)), Month(p, t + 1, "ret"), rb.trim))

ScoreGroups(p, rb, t, S) == Group(S, Month(p, t - rb.lag, "score"), rb.groups)
\* The stripes of the control; one without it.
Stripes(p, rb, t, S) ==
    IF rb.control = "none" THEN [b \in S |-> 0]
    ELSE Group(S, Month(p, t, rb.control), rb.controlGroups)

\* _month_step: the stripes whose two legs are there, averaged; no row when
\* there is none.
StripeLegs(S, score, stripe, weight, next, rb) ==
    LET Side(s, g) == {b \in S : stripe[b] = s /\ score[b] = g}
    IN {leg \in {[long |-> Leg(Side(s, rb.long), weight, next),
                  short |-> Leg(Side(s, rb.short), weight, next),
                  stripe |-> s,
                  bonds |-> Cardinality(Side(s, rb.long) \cup Side(s, rb.short))] :
                     s \in {stripe[b] : b \in S}} :
           NoLeg \notin {leg.long, leg.short}}
MeanRow(month, legs) ==
    IF legs = {} THEN {}
    ELSE {[date |-> month, long |-> Average(legs, LAMBDA x : x.long),
           short |-> Average(legs, LAMBDA x : x.short),
           bonds |-> Sum(legs, LAMBDA x : x.bonds)]}
MonthStep(p, rb, t) ==
    LET Sorted(S) == StripeLegs(S, ScoreGroups(p, rb, t, S), Stripes(p, rb, t, S),
                                Weight(rb, Month(p, t, "size")),
                                NextReturn(p, rb, t), rb)
    IN MeanRow(t + 1, Sorted(Universe(p, rb, t)))

\* run_characteristic_sort, the percentile trim resolved once.
RunCharacteristicSort(p, rb) ==
    LET resolved == Resolve(p, rb)
    IN UNION {MonthStep(p, resolved, t) : t \in DOMAIN p}
-----------------------------------------------------------------------------
(* Overlapping cohorts. *)

\* extract_monthly_selections: the bonds of each leg; a formation without both
\* has no cohort.
Selection(p, rb, t) ==
    LET In(score) == [long |-> {b \in DOMAIN score : score[b] = rb.long},
                      short |-> {b \in DOMAIN score : score[b] = rb.short}]
    IN In(ScoreGroups(p, rb, t, Universe(p, rb, t)))
Forms(sel) == {} \notin {sel.long, sel.short}

\* _leg_return_at: those with a return in month m, at formation sizes.
Survivors(p, rb, leg, m) ==
    {b \in leg : TrimmedReturn(rb, Month(p, m, "ret")[b]) # NaN}
LegReturnAt(p, rb, t, leg, m) ==
    Leg(Survivors(p, rb, leg, m), Weight(rb, Month(p, t, "size")),
        [b \in Bonds |-> TrimmedReturn(rb, Month(p, m, "ret")[b])])

\* What the cohort of month t contributes to month m; nothing without a leg.
Contribution(p, rb, t, m) ==
    LET Held(sel) == [from |-> t, long |-> LegReturnAt(p, rb, t, sel.long, m),
                      short |-> LegReturnAt(p, rb, t, sel.short, m),
                      bonds |-> Cardinality(Survivors(p, rb, sel.long \cup sel.short, m))]
    IN {Held(sel) : sel \in {x \in {Selection(p, rb, t)} :
                               /\ Forms(x)
                               /\ NoLeg \notin {Held(x).long, Held(x).short}}}

Cohorts(m) == {t \in 1 .. m - 1 : m - t <= Holding}
Contributions(p, rb, m) ==
    UNION {Contribution(p, rb, t, m) : t \in Cohorts(m)}

\* run_with_holding_period, Holding > 1: single sorts only.
RunWithHoldingPeriod(p, rb) ==
    LET resolved == Resolve(p, rb)
    IN IF rb.control # "none" THEN {}
       ELSE UNION {MeanRow(m, Contributions(p, resolved, m)) : m \in DOMAIN p}
-----------------------------------------------------------------------------

Init ==
    /\ panel = <<>> /\ rulebook \in Rulebooks
    /\ monthly = {} /\ held = {}

\* A month is appended to the panel and both engines are run on all of it.
AppendMonth ==
    /\ Len(panel) < MaxMonths
    /\ \E month \in [Bonds -> UNION {Cells[b] : b \in Bonds}] :
           /\ \A b \in Bonds : month[b] \in Cells[b]
           /\ panel' = Append(panel, month)
    /\ monthly' = RunCharacteristicSort(panel', rulebook)
    /\ held' = RunWithHoldingPeriod(panel', rulebook)
    /\ UNCHANGED rulebook

Next == AppendMonth

Spec == Init /\ [][Next]_vars
-----------------------------------------------------------------------------

\* The two paths that pick a month's bonds agree: in its first month a cohort
\* of the wrapper earns, leg by leg, what the engine reports for the month, it
\* exists for exactly the months the engine reports, and it counts as many
\* bonds; a percentile trim included, which each path resolves by itself.
\* Code: extract_monthly_selections (characteristic_sort.py 561-639, "a wrapper
\* that calls this and holds for H=1 reproduces run_characteristic_sort's
\* output exactly") against _month_step (468-554), and overlap._trimmed_returns
\* (176-206) against _apply_trim_rule (342-384).
CohortsOpenAsTheEngine ==
    rulebook.control = "none" =>
        \A t \in DOMAIN panel :
            LET engine == {r \in monthly : r.date = t + 1}
                opening == Contribution(panel, Resolve(panel, rulebook), t, t + 1)
            IN /\ Cardinality(engine) = Cardinality(opening)
               /\ \A r \in engine, c \in opening :
                      /\ Same(r.long, c.long) /\ Same(r.short, c.short)
                      /\ r.bonds = c.bonds

\* Whatever the length of the hold and however often its bonds are missing, a
\* trimmed strategy never earns a return beyond the trim's bounds, in the month
\* after formation or in a later one.
\* Code: overlap.py 13-20, "applied to EVERY return the cohorts earn -- at
\* formation and in every held month".
TrimBoundsEveryMonth ==
    LET Within(x, trim) == /\ trim.lo = NaN \/ x[1] >= trim.lo * x[2]
                           /\ trim.hi = NaN \/ x[1] <= trim.hi * x[2]
    IN \A trim \in {Resolve(panel, rulebook).trim} :
           trim.method # "none" =>
               \A r \in monthly \cup held : Within(r.long, trim) /\ Within(r.short, trim)

\* No look-ahead: when the panel grows by a month, what either engine had
\* reported for the months before is reported again unchanged.  A percentile
\* trim is the stated exception, its bounds being those of the full sample.
\* Code: _build_lagged_panel (characteristic_sort.py 227-260) and the loop over
\* held months (overlap.py 113-131).
RealisedNeverRevised ==
    [][rulebook.trim.type = "absolute" =>
           /\ {r \in monthly' : r.date <= Len(panel)} = monthly
           /\ {r \in held' : r.date <= Len(panel)} = held]_vars

=============================================================================
