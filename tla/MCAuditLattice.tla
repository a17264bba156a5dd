--------------------------- MODULE MCAuditLattice ---------------------------
(* Three bonds and three months.  A row may be missing, tied by its score,    *)
(* stale, of a bond in distress, published otherwise than corrected, or earn  *)
(* what a trim cuts.                                                          *)
EXTENDS AuditLattice, TLC

Data(score, ret, stale) == [score |-> score, ret |-> ret, stale |-> stale]
Row(corrected, size, published, distress) ==
    corrected @@ [size |-> size, published |-> published, distress |-> distress]
Plain(score, size, ret) ==
    Row(Data(score, ret, FALSE), size, Data(score, ret, FALSE), FALSE)
Missing == Plain(NaN, NaN, NaN)

MCCells ==
    1 :> {Plain(1, 1, 10), Row(Data(2, 90, FALSE), 2, Data(2, 30, FALSE), FALSE)}
    @@ 2 :> {Plain(1, 2, 20), Row(Data(2, -30, TRUE), 1, Data(0, -30, TRUE), FALSE),
             Row(Data(1, -40, FALSE), 1, Data(1, -40, FALSE), TRUE)}
    @@ 3 :> {Missing, Plain(2, 2, 60)}

NoTrim == [method |-> "none", type |-> "absolute", lo |-> NaN, hi |-> NaN]
Trim(method, type, lo, hi) ==
    [method |-> method, type |-> type, lo |-> lo, hi |-> hi]
Base == [groups |-> 2, long |-> 1, short |-> 0, weighting |-> "by_size",
         lag |-> 0, minBonds |-> 2, control |-> "none", controlGroups |-> 2,
         trim |-> NoTrim]
Lagged == [Base EXCEPT !.lag = 1]
Truncated == [Base EXCEPT !.weighting = "equal",
                          !.trim = Trim("truncate", "absolute", NaN, 60)]
Double == [Base EXCEPT !.weighting = "equal", !.control = "size"]
MCRulebooks ==
    {Base, Lagged, Truncated, Double,
     [Base EXCEPT !.trim = Trim("winsorise", "absolute", 0, 30)],
     [Base EXCEPT !.trim = Trim("truncate", "percentile", NaN, 60)]}

AllRunnable == [t \in Toggles |-> "runnable"]
MCAnchors ==
    {\* Its published trim was delegated to the lattice.
     [legs |-> <<[rulebook |-> Base, held |-> 1]>>, facts |-> AllRunnable,
      expected |-> Toggles, offTrim |-> Trim("truncate", "percentile", NaN, 60)],
     \* Native to the corrected panel, held for two months.
     [legs |-> <<[rulebook |-> Lagged, held |-> 2]>>,
      facts |-> [AllRunnable EXCEPT !["meas_err"] = "not_applicable"],
      expected |-> Toggles, offTrim |-> NoTrim],
     \* Two legs, and toggles that cannot be varied.
     [legs |-> <<[rulebook |-> Truncated, held |-> 1], [rulebook |-> Base, held |-> 2]>>,
      facts |-> [AllRunnable EXCEPT !["survivorship"] = "ON", !["lib_gap"] = "OFF"],
      expected |-> Toggles, offTrim |-> NoTrim],
     \* No endpoint.
     [legs |-> <<[rulebook |-> Double, held |-> 1]>>,
      facts |-> [AllRunnable EXCEPT !["survivorship"] = "unavailable"],
      expected |-> {}, offTrim |-> NoTrim]}
=============================================================================
