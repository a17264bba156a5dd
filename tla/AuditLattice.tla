---------------------------- MODULE AuditLattice ----------------------------
(***************************************************************************)
(* agents/auditor: the lattice of bias toggles, run over the Quant's        *)
(* engines, and the attribution of the gap between its endpoints            *)
(* (scripts/run_auditor.py, checks/orchestrator.py and what they call).     *)
(* The panel of CharacteristicSort is the maximal one here.  A row's own    *)
(* score, ret and stale are those of the corrected price family, and        *)
(* `published` has those of the family of the as-published arm; `stale`     *)
(* says that the last trade is too old, `distress` that the bond leaves in  *)
(* distress that month.  Metrics are integers in units of 1 / Scale, shares *)
(* of them in units of 1 / ShareUnit.                                       *)
(***************************************************************************)
EXTENDS CharacteristicSort

CONSTANTS
    Anchors,      \* [legs, facts, expected, offTrim]
    OffLag, OnLag,\* lib_gap_lags
    Scale,        \* a multiple of every denominator of a metric
    ShareUnit     \* a multiple of 1 .. number of toggles

Toggles == {"meas_err", "stale_price", "survivorship", "lib_gap", "lab_trim"}
\* What ToggleFacts says of a toggle.
Dispositions == {"runnable", "not_applicable", "unavailable", "OFF", "ON"}

ASSUME AuditAssumption ==
    /\ {OffLag, OnLag} \subseteq Nat
    /\ {Scale, ShareUnit} \subseteq Nat \ {0}
    /\ \A n \in 1 .. 5 : ShareUnit % n = 0
    /\ \A b \in Bonds : \A row \in Cells[b] :
           {row.published.score, row.published.ret} \subseteq Int
    /\ \A a \in Anchors :
           /\ a.facts \in [Toggles -> Dispositions]
           /\ IsFiniteSet(DOMAIN a.legs) /\ a.offTrim \in TrimRules
           /\ \A i \in DOMAIN a.legs : a.legs[i].rulebook \in ValidRulebooks

VARIABLES
    audit, \* what run_anchor returned, or recorded of a refusal
    views  \* view_cache of the audit

auditVars == <<vars, audit, views>>
-----------------------------------------------------------------------------
(* Toggles and pre-flight.                                                  *)

DataQuality == {"meas_err"}

With(a, dispositions) == {t \in Toggles : a.facts[t] \in dispositions}
Runnable(a) == With(a, {"runnable"})
Held(a) == With(a, {"OFF", "ON"})

\* derive_scope.
Scope(a) ==
    IF With(a, {"unavailable"}) # {} THEN "REFUSED"
    ELSE IF Held(a) # {} THEN "PARTIAL" ELSE "COMPLETE"
ConditioningSignature(a) == [t \in Held(a) |-> a.facts[t]]
-----------------------------------------------------------------------------
(* Configurations.                                                          *)

\* build_run_config, for the toggles that are on.
BuildRunConfig(on) ==
    [price_family |-> IF "meas_err" \in on THEN "corr" ELSE "published",
     stale_mask |-> "stale_price" \in on,
     include_terminal_rows |-> "survivorship" \in on,
     signal_lag |-> IF "lib_gap" \in on THEN OnLag ELSE OffLag,
     expost_trim |-> IF "lab_trim" \in on THEN "none" ELSE "as_published"]

\* Wrong: a held toggle stays as published.
ConfigsHeldOff(a) ==
    [S \in SUBSET Runnable(a) |-> BuildRunConfig(S \cup With(a, {"not_applicable"}))]

\* build_lattice_configs, by the set of runnable toggles that are on.
BuildLatticeConfigs(a) ==
    [S \in SUBSET Runnable(a) |->
        BuildRunConfig(S \cup With(a, {"ON", "not_applicable"}))]

\* Wrong: the terminal rows are not in the hash.
HashWithoutTerminalRows(rc) == <<rc.price_family, rc.stale_mask>>

PanelViewHash(rc) == <<rc.price_family, rc.stale_mask, rc.include_terminal_rows>>
-----------------------------------------------------------------------------
(* One cell.                                                                *)

NoRow == [score |-> NaN, size |-> NaN, ret |-> NaN]
OfFamily(row, rc) == IF rc.price_family = "corr" THEN row ELSE row.published

\* view: the family's columns, the stale mask on a month and on the next one's
\* return, then the rows of distress dropped; the signals are the family's.
View(p, rc) ==
    LET Stale(t, b) == t \in DOMAIN p /\ OfFamily(p[t][b], rc).stale
        Masked(t, b) == rc.stale_mask /\ (Stale(t, b) \/ Stale(t - 1, b))
        Row(t, b) == [score |-> OfFamily(p[t][b], rc).score,
                      size |-> p[t][b].size,
                      ret |-> IF Masked(t, b) THEN NaN ELSE OfFamily(p[t][b], rc).ret]
    IN [t \in DOMAIN p |->
           [b \in Bonds |->
               IF p[t][b].distress /\ ~rc.include_terminal_rows THEN NoRow
               ELSE Row(t, b)]]

\* _override_construction, on a leg's rulebook.
OverrideConstruction(rb, rc, offTrim) ==
    [rb EXCEPT !.lag = rc.signal_lag,
               !.trim = IF rc.expost_trim = "none" THEN [@ EXCEPT !.method = "none"]
                        ELSE IF offTrim.method # "none" THEN offTrim ELSE @]

\* run_from_config.
RunLeg(leg, rc, offTrim, view) ==
    LET rb == OverrideConstruction(leg.rulebook, rc, offTrim)
    IN IF leg.held = 1 THEN RunCharacteristicSort(view, rb)
       ELSE RunWithHoldingPeriod(view, rb)

LongShort(row) == Plus(row.long, <<-row.short[1], row.short[2]>>)

\* run_strategy: a month's mean over the legs that have it, and their bonds.
RunStrategy(a, rc, view) ==
    LET At(m, rows) == {x \in rows : x.row.date = m}
        Combined(rows) ==
            {[date |-> m, ret |-> Average(At(m, rows), LAMBDA x : LongShort(x.row)),
              bonds |-> Sum(At(m, rows), LAMBDA x : x.row.bonds)] :
                m \in {x.row.date : x \in rows}}
    IN Combined(UNION {{[leg |-> i, row |-> r] :
                           r \in RunLeg(a.legs[i], rc, a.offTrim, view)} :
                       i \in DOMAIN a.legs})

\* run_lattice's view_cache: the view of the first cell with a hash.
ViewCache(a, p) ==
    LET configs == BuildLatticeConfigs(a)
        Having(h) == {S \in DOMAIN configs : PanelViewHash(configs[S]) = h}
        First(h) == CHOOSE S \in Having(h) :
                        \A R \in Having(h) : Cardinality(S) <= Cardinality(R)
    IN [h \in {PanelViewHash(configs[S]) : S \in DOMAIN configs} |->
           View(p, configs[First(h)])]

\* run_lattice's cells, by coordinate.
RunCells(a, cache) ==
    LET configs == BuildLatticeConfigs(a)
    IN [S \in DOMAIN configs |->
           [config |-> configs[S],
            series |-> RunStrategy(a, configs[S], cache[PanelViewHash(configs[S])])]]
-----------------------------------------------------------------------------
(* Support and metric.                                                      *)

\* common_support: the months that every cell has.
Dates(series) == {row.date : row \in series}
CommonSupport(cells) ==
    {m \in DOMAIN panel : \A S \in DOMAIN cells : m \in Dates(cells[S].series)}

\* metric_set_on, the average.
Earned(row) == (row.ret[1] * Scale) \div row.ret[2]
Metric(series, months) ==
    Sum({row \in series : row.date \in months}, Earned) \div Cardinality(months)

\* Wrong: each cell on its own months.
NativeMetricVector(cells, months) ==
    [S \in DOMAIN cells |-> Metric(cells[S].series, Dates(cells[S].series))]

PrimaryMetricVector(cells, months) ==
    [S \in DOMAIN cells |-> Metric(cells[S].series, months)]
-----------------------------------------------------------------------------
(* The readings of a lattice of metrics.                                    *)

Sign(n) == IF n % 2 = 0 THEN 1 ELSE -1
Full(Y) == UNION DOMAIN Y

\* corner_marginals: Y({i}) - Y({}) and Y(N) - Y(N \ {i}).
AddIn(Y) == [i \in Full(Y) |-> Y[{i}] - Y[{}]]
LeaveOut(Y) == [i \in Full(Y) |-> Y[Full(Y)] - Y[Full(Y) \ {i}]]

\* harsanyi_dividends.
Harsanyi(Y) ==
    [T \in DOMAIN Y |->
        Sum(SUBSET T, LAMBDA U : Sign(Cardinality(T) - Cardinality(U)) * Y[U])]

\* walsh_coefficients, times the number of cells.
Walsh(Y) ==
    [T \in DOMAIN Y |->
        Sum(DOMAIN Y, LAMBDA S : Sign(Cardinality(T \ S)) * Y[S])]

\* _monthly_doe_series: the same of one month's returns.
MonthlyWalsh(cells, m) ==
    Walsh([S \in DOMAIN cells |-> Metric(cells[S].series, {m})])

\* Wrong: a dividend goes whole to each of its toggles.
UnsharedShapley(h) ==
    [i \in Full(h) |->
        Sum({T \in DOMAIN h : i \in T}, LAMBDA T : h[T] * ShareUnit)]

\* shapley_values, in units of 1 / ShareUnit.
Shapley(h) ==
    [i \in Full(h) |->
        Sum({T \in DOMAIN h : i \in T}, LAMBDA T : h[T] * (ShareUnit \div Cardinality(T)))]

\* bias_class_partition: a class, and none when it has no coalition.
BiasClass(T) ==
    IF T \subseteq DataQuality THEN "data_quality"
    ELSE IF T \cap DataQuality = {} THEN "method" ELSE "cross_class"
BiasClassPartition(h) ==
    LET present == DOMAIN h \ {{}}
    IN [c \in {BiasClass(T) : T \in present} |->
           Sum({T \in present : BiasClass(T) = c}, LAMBDA T : h[T])]
-----------------------------------------------------------------------------
(* Invariance and the verdict of CORE-SYNC-1.                               *)

\* Returns and bonds of two series, month by month.
Identical(x, y) ==
    /\ Dates(x) = Dates(y)
    /\ \A r \in x, q \in y :
           r.date = q.date => Same(r.ret, q.ret) /\ r.bonds = q.bonds

\* Two cells of one edge: another configuration, and the same outputs.
Inert(off, on) ==
    /\ off.config # on.config
    /\ Identical(off.series, on.series)

\* Wrong: at one vertex only.
InertAtTheOrigin(cells, i) == Inert(cells[{}], cells[{i}])

\* invariance_test, over every parallel edge.
IsNoOp(cells, i) ==
    \A S \in DOMAIN cells : i \notin S => Inert(cells[S], cells[S \cup {i}])

\* core_sync_1_verdict, and run_anchor's exception for an absent toggle.
CoreSync1(a, walsh) ==
    \/ a.facts["meas_err"] = "not_applicable"
    \/ \A T \in {{"stale_price"}, {"meas_err", "stale_price"}} :
           T \in DOMAIN walsh /\ walsh[T] = 0
-----------------------------------------------------------------------------
(* Behaviour.                                                               *)

NoAudit == [outcome |-> "none"]

\* audit_spine on a lattice that has run: incomplete, or the core of a report.
AuditCore(a, cells) ==
    LET common == CommonSupport(cells)
        Y == PrimaryMetricVector(cells, common)
    IN IF common = {} THEN [outcome |-> "incomplete", anchor |-> a]
       ELSE [outcome |-> "audited", anchor |-> a, scope |-> Scope(a),
             signature |-> ConditioningSignature(a),
             cells |-> cells, common |-> common, metric |-> Y,
             harsanyi |-> Harsanyi(Y), walsh |-> Walsh(Y),
             shapley |-> Shapley(Harsanyi(Y)),
             noOps |-> {i \in Runnable(a) \cap a.expected : IsNoOp(cells, i)},
             coreSync |-> CoreSync1(a, Walsh(Y))]

AuditInit == Init /\ audit = NoAudit /\ views = <<>>

Grow == AppendMonth /\ audit = NoAudit /\ UNCHANGED <<audit, views>>

\* Up to the views: a refused strategy has none.
StartAnchor ==
    /\ Len(panel) = MaxMonths /\ audit = NoAudit
    /\ \E a \in Anchors :
           /\ a.legs[1].rulebook = rulebook
           /\ \/ /\ Scope(a) = "REFUSED"
                 /\ audit' = [outcome |-> "refused", anchor |-> a]
                 /\ UNCHANGED views
              \/ /\ Scope(a) # "REFUSED"
                 /\ audit' = [outcome |-> "running", anchor |-> a]
                 /\ views' = ViewCache(a, panel)
    /\ UNCHANGED vars

FinishAnchor ==
    /\ audit.outcome = "running"
    /\ audit' = AuditCore(audit.anchor, RunCells(audit.anchor, views))
    /\ UNCHANGED <<vars, views>>

AuditNext == Grow \/ StartAnchor \/ FinishAnchor

AuditSpec == AuditInit /\ [][AuditNext]_auditVars
-----------------------------------------------------------------------------
Audited == audit.outcome = "audited"

\* The attribution adds up, whatever the surface: the toggles' values and the
\* classes' components sum to the gap between the endpoints, and the dividends
\* and the orthogonal coefficients both give every cell back.
\* Code: shapley.py 8-14 ("exactly-additive allocation"), algebra.py 82-107
\* ("exact and invertible") and bias_class_partition's three buckets.
AttributionAddsUp ==
    Audited =>
        LET Y == audit.metric
            h == audit.harsanyi
            classes == BiasClassPartition(h)
            gap == Y[Full(Y)] - Y[{}]
        IN /\ Sum(Full(Y), LAMBDA i : audit.shapley[i]) = ShareUnit * gap
           /\ Sum(DOMAIN classes, LAMBDA c : classes[c]) = gap
           /\ \A S \in DOMAIN Y :
                  /\ Y[S] = Sum(SUBSET S, LAMBDA T : h[T])
                  /\ Cardinality(DOMAIN Y) * Y[S] =
                         Sum(DOMAIN Y, LAMBDA T :
                             Sign(Cardinality(T \ S)) * audit.walsh[T])

\* The monthly contrast that is tested has the reported effect as its mean, for
\* every coordinate, although cells may have months of their own.
\* Code: inference.py 18-22 ("Key identity that makes the HAC branch exact") and
\* support.py 5-9.
TestedIsReported ==
    Audited =>
        \A T \in DOMAIN audit.walsh :
            Sum(audit.common, LAMBDA m : MonthlyWalsh(audit.cells, m)[T])
                = Cardinality(audit.common) * audit.walsh[T]

\* A toggle of which there is no case in the whole panel.
NoCase(a, i) ==
    LET rows == UNION {{panel[t][b] : b \in Bonds} : t \in DOMAIN panel}
        Data(r) == <<r.score, r.ret, r.stale>>
    IN CASE i = "meas_err" -> \A r \in rows : Data(r) = Data(r.published)
         [] i = "stale_price" -> \A r \in rows : ~r.stale /\ ~r.published.stale
         [] i = "survivorship" -> \A r \in rows : ~r.distress
         [] i = "lab_trim" -> /\ a.offTrim.method = "none"
                              /\ \A j \in DOMAIN a.legs :
                                     a.legs[j].rulebook.trim.method = "none"
         [] i = "lib_gap" -> FALSE

\* A toggle certified inert gets nothing in any of the readings, alone or with
\* others; one that no row of the panel is a case of is certified, whatever the
\* strategy's legs, holds and sorts.  If it is stale_price it satisfies CORE-SYNC-1
\* as well, unless meas_err is held, for then a coordinate is missing and it fails.
\* Code: invariance.py 20-28 ("inert everywhere in the lattice, not merely at
\* one vertex").
NoOpIsMeasured ==
    Audited =>
        /\ \A i \in audit.noOps :
               /\ audit.shapley[i] = 0
               /\ AddIn(audit.metric)[i] = 0 /\ LeaveOut(audit.metric)[i] = 0
               /\ \A T \in DOMAIN audit.metric :
                      i \in T => audit.harsanyi[T] = 0 /\ audit.walsh[T] = 0
        /\ "stale_price" \in audit.noOps /\ "meas_err" \notin Held(audit.anchor)
               => audit.coreSync
        /\ \A i \in Runnable(audit.anchor) \cap audit.anchor.expected :
               NoCase(audit.anchor, i) => i \in audit.noOps

\* Every cell is the run its coordinate and the signature describe, on a panel
\* viewed for it alone: the shared panels and the held toggles never leak into
\* another cell, and a partial audit is a face of the complete one.
\* Code: lattice.py 8-10 ("cells that differ only in construction toggles share
\* one materialised panel") and preflight.py 84-96.
EachCellIsItsOwnRun ==
    Audited =>
        LET a == audit.anchor
            heldOn == {t \in DOMAIN audit.signature : audit.signature[t] = "ON"}
                      \cup With(a, {"not_applicable"})
        IN \A S \in DOMAIN audit.cells :
               LET alone == BuildRunConfig(S \cup heldOn)
                   cell == audit.cells[S]
               IN /\ cell.config = alone
                  /\ views[PanelViewHash(alone)] = View(panel, alone)

=============================================================================
