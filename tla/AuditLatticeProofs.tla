------------------------- MODULE AuditLatticeProofs -------------------------
(***************************************************************************)
(* Proofs about the sorting engines and the lattice run over them, for     *)
(* every set of bonds, rulebooks and strategies and panels of any length.  *)
(* Of the engines: what has been reported of a month is not revised when   *)
(* the panel grows, a cohort opens as the engine does, and a trim bounds   *)
(* every month.  Of the lattice: every cell is the run that its coordinate *)
(* describes, the attributions add up, what is tested is what is reported, *)
(* and an inert toggle gets nothing.                                       *)
(***************************************************************************)
EXTENDS AuditLattice, FiniteSetTheorems, WellFoundedInduction, TLAPS

AnyRow == UNION {Cells[b] : b \in Bonds}

PanelType == panel \in Seq([Bonds -> AnyRow]) /\ rulebook \in Rulebooks

(* The reported series are those of the whole panel.                       *)
EnginesInv ==
    /\ monthly = RunCharacteristicSort(panel, rulebook)
    /\ held = RunWithHoldingPeriod(panel, rulebook)

-----------------------------------------------------------------------------
(* A panel that grows.                                                     *)

LEMMA RowDate ==
    ASSUME NEW month, NEW legs
    PROVE  \A r \in MeanRow(month, legs) : r.date = month
  BY DEF MeanRow

LEMMA NoRows ==
    ASSUME NEW month
    PROVE  MeanRow(month, {}) = {}
  BY DEF MeanRow

\* q is p with later months: what is seen of the months that p has is the same.
Prolongs(q, p) ==
    /\ p \in Seq([Bonds -> AnyRow]) /\ q \in Seq([Bonds -> AnyRow])
    /\ Len(p) <= Len(q)
    /\ \A t \in 1 .. Len(p) : q[t] = p[t]

LEMMA SameMonth ==
    ASSUME NEW p, NEW q, Prolongs(q, p), NEW t \in Int, t <= Len(p), NEW field
    PROVE  Month(q, t, field) = Month(p, t, field)
  <1>1. t \in DOMAIN q <=> t \in DOMAIN p
    BY DEF Prolongs
  <1>2. t \in DOMAIN p => q[t] = p[t]
    BY DEF Prolongs
  <1> QED BY <1>1, <1>2 DEF Month

LEMMA SameUniverse ==
    ASSUME NEW p, NEW q, Prolongs(q, p), NEW rb, rb.lag \in Nat,
           NEW t \in Nat, t < Len(p)
    PROVE  /\ \A field : Month(q, t, field) = Month(p, t, field)
           /\ \A field : Month(q, t + 1, field) = Month(p, t + 1, field)
           /\ Month(q, t - rb.lag, "score") = Month(p, t - rb.lag, "score")
           /\ Universe(q, rb, t) = Universe(p, rb, t)
  <1>0. Len(p) \in Nat /\ t - rb.lag \in Int /\ t - rb.lag <= Len(p)
    BY DEF Prolongs
  <1>1. \A field : Month(q, t, field) = Month(p, t, field)
    BY <1>0, SameMonth
  <1>2. \A field : Month(q, t + 1, field) = Month(p, t + 1, field)
    BY <1>0, SameMonth
  <1>3. Month(q, t - rb.lag, "score") = Month(p, t - rb.lag, "score")
    BY <1>0, SameMonth
  <1>4. Eligible(q, rb, t) = Eligible(p, rb, t)
    BY <1>1, <1>2, <1>3 DEF Eligible
  <1>5. Universe(q, rb, t) = Universe(p, rb, t)
    BY <1>2, <1>4 DEF Universe
  <1> QED BY <1>1, <1>2, <1>3, <1>5

LEMMA SameMonthStep ==
    ASSUME NEW p, NEW q, Prolongs(q, p), NEW rb, rb.lag \in Nat,
           NEW t \in Nat, t < Len(p)
    PROVE  MonthStep(q, rb, t) = MonthStep(p, rb, t)
  <1>1. /\ Month(q, t, "size") = Month(p, t, "size")
        /\ Month(q, t + 1, "ret") = Month(p, t + 1, "ret")
    BY SameUniverse
  <1>r. NextReturn(q, rb, t) = NextReturn(p, rb, t)
    BY <1>1 DEF NextReturn
  <1>2. ASSUME NEW S
        PROVE  /\ ScoreGroups(q, rb, t, S) = ScoreGroups(p, rb, t, S)
               /\ Stripes(q, rb, t, S) = Stripes(p, rb, t, S)
    BY SameUniverse DEF ScoreGroups, Stripes
  <1> QED BY <1>1, <1>r, <1>2, SameUniverse DEF MonthStep

\* The last month has no next return: nothing is formed in it.
LEMMA NothingAtTheEnd ==
    ASSUME NEW p \in Seq([Bonds -> AnyRow]), NEW rb, NEW t \in Nat, t >= Len(p)
    PROVE  Universe(p, rb, t) = {} /\ MonthStep(p, rb, t) = {}
  <1>1. \A b \in Bonds : Month(p, t + 1, "ret")[b] = NaN
    BY DEF Month
  <1>2. Eligible(p, rb, t) = {}
    BY <1>1 DEF Eligible
  <1>3. Universe(p, rb, t) = {}
    BY <1>2 DEF Universe, Trimmed
  <1>4. \A score, stripe, weight, next : StripeLegs({}, score, stripe, weight, next, rb) = {}
    BY DEF StripeLegs
  <1> QED BY <1>3, <1>4, NoRows DEF MonthStep

LEMMA SameContributions ==
    ASSUME NEW p, NEW q, Prolongs(q, p), NEW rb, rb.lag \in Nat,
           NEW m \in Nat, m <= Len(p)
    PROVE  Contributions(q, rb, m) = Contributions(p, rb, m)
  <1> SUFFICES ASSUME NEW t \in Cohorts(m)
               PROVE  Contribution(q, rb, t, m) = Contribution(p, rb, t, m)
    BY DEF Contributions
  <1>0. t \in Nat /\ t < Len(p) /\ Len(p) \in Nat
    BY DEF Cohorts, Prolongs
  <1>1. Month(q, m, "ret") = Month(p, m, "ret") /\ Month(q, t, "size") = Month(p, t, "size")
    BY <1>0, SameMonth
  <1>2. \A leg : Survivors(q, rb, leg, m) = Survivors(p, rb, leg, m)
    BY <1>1 DEF Survivors
  <1>3. \A leg : LegReturnAt(q, rb, t, leg, m) = LegReturnAt(p, rb, t, leg, m)
    BY <1>1, <1>2 DEF LegReturnAt
  <1>4. \A S : ScoreGroups(q, rb, t, S) = ScoreGroups(p, rb, t, S)
    BY <1>0, SameUniverse DEF ScoreGroups
  <1>5. Universe(q, rb, t) = Universe(p, rb, t)
    BY <1>0, SameUniverse
  <1>6. Selection(q, rb, t) = Selection(p, rb, t)
    BY <1>4, <1>5 DEF Selection
  <1> DEFINE Holds(x, sel) ==
                 [from |-> t, long |-> LegReturnAt(x, rb, t, sel.long, m),
                  short |-> LegReturnAt(x, rb, t, sel.short, m),
                  bonds |-> Cardinality(Survivors(x, rb, sel.long \cup sel.short, m))]
             Of(x, S) == {Holds(x, sel) : sel \in {y \in S : /\ Forms(y)
                                                /\ NoLeg \notin {Holds(x, y).long, Holds(x, y).short}}}
  <1>7. \A sel : Holds(q, sel) = Holds(p, sel)
    BY <1>2, <1>3
  <1>8. \A x : Contribution(x, rb, t, m) = Of(x, {Selection(x, rb, t)})
    BY DEF Contribution
  <1> HIDE DEF Holds
  <1>9. \A S : Of(q, S) = Of(p, S)
    BY <1>7
  <1> HIDE DEF Of
  <1> QED BY <1>6, <1>8, <1>9

LEMMA AbsoluteIsResolved ==
    ASSUME NEW p, NEW rb, rb.trim.type = "absolute"
    PROVE  Resolve(p, rb) = rb
  BY DEF Resolve

\* With absolute bounds, the reports of the months there were stay.
LEMMA SortNotRevised ==
    ASSUME NEW p, NEW q, Prolongs(q, p), NEW rb, rb.lag \in Nat,
           rb.trim.type = "absolute"
    PROVE  {r \in RunCharacteristicSort(q, rb) : r.date <= Len(p)}
               = RunCharacteristicSort(p, rb)
  <1> DEFINE Rows(x) == UNION {MonthStep(x, rb, t) : t \in DOMAIN x}
  <1>1. RunCharacteristicSort(q, rb) = Rows(q) /\ RunCharacteristicSort(p, rb) = Rows(p)
    BY AbsoluteIsResolved DEF RunCharacteristicSort
  <1>2. /\ DOMAIN p = 1 .. Len(p) /\ DOMAIN q = 1 .. Len(q)
        /\ Len(p) \in Nat /\ Len(q) \in Nat /\ Len(p) <= Len(q)
        /\ p \in Seq([Bonds -> AnyRow])
    BY DEF Prolongs
  <1>3. \A x, t : \A r \in MonthStep(x, rb, t) : r.date = t + 1
    BY RowDate DEF MonthStep
  <1>4. ASSUME NEW r \in Rows(p)
        PROVE  r \in Rows(q) /\ r.date <= Len(p)
    <2>1. PICK t \in DOMAIN p : r \in MonthStep(p, rb, t)
      OBVIOUS
    <2>2. t \in Nat /\ t < Len(p)
      BY <1>2, <2>1, NothingAtTheEnd
    <2>3. r \in MonthStep(q, rb, t)
      BY <2>1, <2>2, SameMonthStep
    <2>4. t \in DOMAIN q
      BY <1>2, <2>2
    <2> QED BY <1>2, <1>3, <2>1, <2>2, <2>3, <2>4
  <1>5. ASSUME NEW r \in Rows(q), r.date <= Len(p)
        PROVE  r \in Rows(p)
    <2>1. PICK t \in DOMAIN q : r \in MonthStep(q, rb, t)
      OBVIOUS
    <2>2. t \in DOMAIN p /\ t \in Nat /\ t < Len(p)
      BY <1>2, <1>3, <1>5, <2>1
    <2>3. r \in MonthStep(p, rb, t)
      BY <2>1, <2>2, SameMonthStep
    <2> QED BY <2>2, <2>3
  <1> HIDE DEF Rows
  <1> QED BY <1>1, <1>4, <1>5

LEMMA HeldNotRevised ==
    ASSUME NEW p, NEW q, Prolongs(q, p), NEW rb, rb.lag \in Nat,
           rb.trim.type = "absolute"
    PROVE  {r \in RunWithHoldingPeriod(q, rb) : r.date <= Len(p)}
               = RunWithHoldingPeriod(p, rb)
  <1> DEFINE Rows(x) == UNION {MeanRow(m, Contributions(x, rb, m)) : m \in DOMAIN x}
  <1>0. CASE rb.control # "none"
    BY <1>0 DEF RunWithHoldingPeriod
  <1>1. ASSUME rb.control = "none"
        PROVE  RunWithHoldingPeriod(q, rb) = Rows(q) /\ RunWithHoldingPeriod(p, rb) = Rows(p)
    BY <1>1, AbsoluteIsResolved DEF RunWithHoldingPeriod
  <1>2. /\ DOMAIN p = 1 .. Len(p) /\ DOMAIN q = 1 .. Len(q)
        /\ Len(p) \in Nat /\ Len(q) \in Nat /\ Len(p) <= Len(q)
    BY DEF Prolongs
  <1>3. \A m \in DOMAIN p : /\ m \in Nat /\ m <= Len(p) /\ m \in DOMAIN q
                            /\ Contributions(q, rb, m) = Contributions(p, rb, m)
    BY <1>2, SameContributions
  <1>4. ASSUME NEW r \in Rows(p)
        PROVE  r \in Rows(q) /\ r.date <= Len(p)
    BY <1>3, RowDate
  <1>5. ASSUME NEW r \in Rows(q), r.date <= Len(p)
        PROVE  r \in Rows(p)
    <2>1. PICK m \in DOMAIN q : r \in MeanRow(m, Contributions(q, rb, m))
      OBVIOUS
    <2>2. m \in DOMAIN p
      BY <1>2, <1>5, <2>1, RowDate
    <2> QED BY <1>3, <2>1, <2>2
  <1> HIDE DEF Rows
  <1> QED BY <1>0, <1>1, <1>4, <1>5

-----------------------------------------------------------------------------
(* The engines' runs, one after the other.                                 *)

LEMMA Appended ==
    ASSUME PanelType, AppendMonth
    PROVE  PanelType' /\ Prolongs(panel', panel) /\ Len(panel') = Len(panel) + 1
  <1>1. PICK month \in [Bonds -> AnyRow] : panel' = Append(panel, month)
    BY DEF AppendMonth, AnyRow
  <1> QED BY <1>1 DEF PanelType, Prolongs, AppendMonth

LEMMA InitEngines == Init => PanelType /\ EnginesInv
  <1> SUFFICES ASSUME Init
               PROVE  PanelType /\ EnginesInv
    OBVIOUS
  <1>1. panel = <<>> /\ DOMAIN panel = {}
    BY DEF Init
  <1>2. RunCharacteristicSort(panel, rulebook) = {} /\ RunWithHoldingPeriod(panel, rulebook) = {}
    BY <1>1 DEF RunCharacteristicSort, RunWithHoldingPeriod
  <1> QED BY <1>1, <1>2 DEF Init, PanelType, EnginesInv

LEMMA EnginesStep ==
    ASSUME PanelType, EnginesInv, [AppendMonth]_vars
    PROVE  PanelType' /\ EnginesInv'
  <1>1. CASE AppendMonth
    BY <1>1, Appended DEF AppendMonth, EnginesInv
  <1>2. CASE UNCHANGED vars
    BY <1>2 DEF vars, PanelType, EnginesInv
  <1> QED BY <1>1, <1>2

LEMMA AuditMoves ==
    ASSUME [AuditNext]_auditVars
    PROVE  [AppendMonth]_vars
  BY DEF AuditNext, Grow, StartAnchor, FinishAnchor, auditVars

LEMMA EnginesInvariant == AuditSpec => [](PanelType /\ EnginesInv)
  <1>1. AuditInit => PanelType /\ EnginesInv
    BY InitEngines DEF AuditInit
  <1>2. PanelType /\ EnginesInv /\ [AuditNext]_auditVars => (PanelType /\ EnginesInv)'
    BY AuditMoves, EnginesStep
  <1> QED BY <1>1, <1>2, PTL DEF AuditSpec

(* No look-ahead: for every panel, rulebook and hold, a month that has been *)
(* appended changes nothing of what either engine had reported.             *)
THEOREM NothingIsRevised == AuditSpec => RealisedNeverRevised
  <1> DEFINE Stays == rulebook.trim.type = "absolute" =>
                          /\ {r \in monthly' : r.date <= Len(panel)} = monthly
                          /\ {r \in held' : r.date <= Len(panel)} = held
  <1>1. ASSUME PanelType, EnginesInv, AppendMonth
        PROVE  Stays
    <2>1. Prolongs(panel', panel) /\ rulebook' = rulebook
      BY <1>1, Appended DEF AppendMonth
    <2>2. rulebook.lag \in Nat
      BY <1>1, SortAssumption DEF PanelType, ValidRulebooks
    <2>3. EnginesInv'
      BY <1>1, EnginesStep
    <2> QED BY <1>1, <2>1, <2>2, <2>3, SortNotRevised, HeldNotRevised DEF EnginesInv
  <1>2. PanelType /\ EnginesInv /\ [AuditNext]_auditVars => [Stays]_vars
    BY <1>1, AuditMoves
  <1> QED BY <1>2, EnginesInvariant, PTL DEF AuditSpec, RealisedNeverRevised

-----------------------------------------------------------------------------
(* The cells of the lattice.                                               *)

ViewsInv ==
    /\ audit.outcome = "running" => views = ViewCache(audit.anchor, panel)
    /\ Audited => /\ views = ViewCache(audit.anchor, panel)
                  /\ audit.cells = RunCells(audit.anchor, views)
                  /\ audit.signature = ConditioningSignature(audit.anchor)

LEMMA InitViews == AuditInit => ViewsInv
  BY DEF AuditInit, NoAudit, ViewsInv, Audited

LEMMA ViewsStep ==
    ASSUME ViewsInv, [AuditNext]_auditVars
    PROVE  ViewsInv'
  <1>1. CASE Grow
    BY <1>1 DEF Grow, NoAudit, ViewsInv, Audited
  <1>2. CASE StartAnchor
    BY <1>2 DEF StartAnchor, ViewsInv, Audited, vars
  <1>3. CASE FinishAnchor
    BY <1>3 DEF FinishAnchor, AuditCore, ViewsInv, Audited, vars
  <1>4. CASE UNCHANGED auditVars
    BY <1>4 DEF auditVars, vars, ViewsInv, Audited
  <1> QED BY <1>1, <1>2, <1>3, <1>4 DEF AuditNext


\* The numbers are well ordered.
LEMMA LeastOf ==
    ASSUME NEW T \in SUBSET Nat, T # {}
    PROVE  \E n \in T : \A m \in T : n <= m
  <1> DEFINE R == {ss \in Nat \X Nat : ss[1] < ss[2]}
  <1>1. IsWellFoundedOn(R, Nat)
    BY NatLessThanWellFounded DEF OpToRel
  <1>2. \A x, y \in Nat : y < x => <<y, x>> \in R
    OBVIOUS
  <1> HIDE DEF R
  <1>3. PICK n \in T : \A y \in T : ~ (<<y, n>> \in R)
    BY <1>1, WFMin
  <1>4. ASSUME NEW m \in T
        PROVE  n <= m
    <2>1. m \in Nat /\ n \in Nat
      OBVIOUS
    <2>2. ~(m < n)
      BY <1>2, <1>3, <2>1
    <2> QED BY <2>1, <2>2
  <1> QED BY <1>4

\* A view depends on what its hash covers.
LEMMA ViewIsHashed ==
    ASSUME NEW p, NEW rc, NEW other, PanelViewHash(rc) = PanelViewHash(other)
    PROVE  View(p, rc) = View(p, other)
  <1>1. /\ rc.price_family = other.price_family
        /\ rc.stale_mask = other.stale_mask
        /\ rc.include_terminal_rows = other.include_terminal_rows
    BY DEF PanelViewHash
  <1>2. \A row : OfFamily(row, rc) = OfFamily(row, other)
    BY <1>1 DEF OfFamily
  <1> QED BY <1>1, <1>2 DEF View

\* There are finitely many toggles.
LEMMA OneMore ==
    ASSUME NEW S, NEW x, NEW n \in Nat, IsFiniteSet(S), Cardinality(S) <= n
    PROVE  IsFiniteSet(S \cup {x}) /\ Cardinality(S \cup {x}) <= n + 1
  <1>1. Cardinality(S) \in Nat
    BY FS_CardinalityType
  <1>2. /\ IsFiniteSet(S \cup {x})
        /\ Cardinality(S \cup {x}) = IF x \in S THEN Cardinality(S) ELSE Cardinality(S) + 1
    BY FS_AddElement
  <1> QED BY <1>1, <1>2

LEMMA FiveToggles ==
    IsFiniteSet(Toggles) /\ Cardinality(Toggles) <= 5
  <1> DEFINE t1 == {} \cup {"meas_err"}
             t2 == t1 \cup {"stale_price"}
             t3 == t2 \cup {"survivorship"}
             t4 == t3 \cup {"lib_gap"}
             t5 == t4 \cup {"lab_trim"}
  <1>1. IsFiniteSet({}) /\ Cardinality({}) <= 0
    BY FS_EmptySet
  <1>2. IsFiniteSet(t1) /\ Cardinality(t1) <= 0 + 1
    BY <1>1, OneMore
  <1>3. IsFiniteSet(t2) /\ Cardinality(t2) <= 1 + 1
    <2> HIDE DEF t1
    <2>1. IsFiniteSet(t1) /\ Cardinality(t1) <= 1 /\ 1 \in Nat
      BY <1>2
    <2> QED BY ONLY <2>1, OneMore
  <1>4. IsFiniteSet(t3) /\ Cardinality(t3) <= 2 + 1
    <2> HIDE DEF t2
    <2>1. IsFiniteSet(t2) /\ Cardinality(t2) <= 2 /\ 2 \in Nat
      BY <1>3
    <2> QED BY ONLY <2>1, OneMore
  <1>5. IsFiniteSet(t4) /\ Cardinality(t4) <= 3 + 1
    <2> HIDE DEF t3
    <2>1. IsFiniteSet(t3) /\ Cardinality(t3) <= 3 /\ 3 \in Nat
      BY <1>4
    <2> QED BY ONLY <2>1, OneMore
  <1>6. IsFiniteSet(t5) /\ Cardinality(t5) <= 4 + 1
    <2> HIDE DEF t4
    <2>1. IsFiniteSet(t4) /\ Cardinality(t4) <= 4 /\ 4 \in Nat
      BY <1>5
    <2> QED BY ONLY <2>1, OneMore
  <1>7. Toggles = t5
    BY DEF Toggles
  <1> HIDE DEF t5
  <1> QED BY <1>6, <1>7

LEMMA SmallestOf ==
    ASSUME NEW a, NEW H \in SUBSET SUBSET Runnable(a), H # {}
    PROVE  \E S \in H : \A R \in H : Cardinality(S) <= Cardinality(R)
  <1>2. \A S \in H : Cardinality(S) \in Nat
    BY FiveToggles, FS_Subset, FS_CardinalityType DEF Runnable, With
  <1> DEFINE T == {Cardinality(S) : S \in H}
  <1>3. T \in SUBSET Nat /\ T # {}
    BY <1>2
  <1>4. PICK n \in T : \A m \in T : n <= m
    BY <1>3, LeastOf
  <1> QED BY <1>4

\* The shared view of a cell is the one it would have alone.
LEMMA CachedView ==
    ASSUME NEW a, NEW p, NEW S \in SUBSET Runnable(a)
    PROVE  ViewCache(a, p)[PanelViewHash(BuildLatticeConfigs(a)[S])]
               = View(p, BuildLatticeConfigs(a)[S])
  <1> DEFINE configs == BuildLatticeConfigs(a)
             h == PanelViewHash(configs[S])
             Having == {R \in DOMAIN configs : PanelViewHash(configs[R]) = h}
             First == CHOOSE R \in Having : \A U \in Having : Cardinality(R) <= Cardinality(U)
  <1>1. DOMAIN configs = SUBSET Runnable(a)
    BY DEF BuildLatticeConfigs
  <1> HIDE DEF configs
  <1>2. Having \in SUBSET SUBSET Runnable(a) /\ S \in Having
    BY <1>1
  <1>3. \E R \in Having : \A U \in Having : Cardinality(R) <= Cardinality(U)
    BY <1>2, SmallestOf
  <1>4. PanelViewHash(configs[First]) = h
    <2>1. First \in Having
      BY <1>3, Zenon
    <2> HIDE DEF First
    <2> QED BY <2>1
  <1>5. ViewCache(a, p)[h] = View(p, configs[First])
    BY <1>1 DEF ViewCache, configs
  <1> HIDE DEF First, h
  <1> QED BY <1>4, <1>5, ViewIsHashed DEF h, configs

(* Every cell of an audit is the run its coordinate and the signature       *)
(* describe, on a panel viewed for it alone, whatever the toggles' facts:   *)
(* the views that cells share, and the held toggles, leak into no cell.     *)
THEOREM EveryCellIsItsOwnRun == AuditSpec => []EachCellIsItsOwnRun
  <1>1. AuditInit => ViewsInv
    BY InitViews
  <1>2. ViewsInv /\ [AuditNext]_auditVars => ViewsInv'
    BY ViewsStep
  <1>3. ViewsInv => EachCellIsItsOwnRun
    <2> SUFFICES ASSUME ViewsInv, Audited
                 PROVE  EachCellIsItsOwnRun
      BY DEF EachCellIsItsOwnRun
    <2> DEFINE a == audit.anchor
               configs == BuildLatticeConfigs(a)
               heldOn == {t \in DOMAIN audit.signature : audit.signature[t] = "ON"}
                         \cup With(a, {"not_applicable"})
    <2>1. /\ views = ViewCache(a, panel) /\ audit.cells = RunCells(a, views)
          /\ audit.signature = ConditioningSignature(a)
      BY DEF ViewsInv
    <2>2. heldOn = With(a, {"ON", "not_applicable"})
      BY <2>1 DEF ConditioningSignature, Held, With
    <2>3. /\ DOMAIN audit.cells = SUBSET Runnable(a)
          /\ \A S \in SUBSET Runnable(a) :
                 /\ audit.cells[S].config = configs[S]
                 /\ configs[S] = BuildRunConfig(S \cup heldOn)
      <3>1. /\ DOMAIN configs = SUBSET Runnable(a)
            /\ \A S \in SUBSET Runnable(a) : configs[S] = BuildRunConfig(S \cup heldOn)
        BY <2>2 DEF BuildLatticeConfigs
      <3> HIDE DEF configs
      <3>2. /\ DOMAIN audit.cells = DOMAIN configs
            /\ \A S \in DOMAIN configs : audit.cells[S].config = configs[S]
        BY <2>1 DEF RunCells, configs
      <3> QED BY <3>1, <3>2
    <2>4. \A S \in SUBSET Runnable(a) : views[PanelViewHash(configs[S])] = View(panel, configs[S])
      BY <2>1, CachedView
    <2> HIDE DEF configs
    <2> QED BY <2>3, <2>4 DEF EachCellIsItsOwnRun
  <1> QED BY <1>1, <1>2, <1>3, PTL DEF AuditSpec

\* A set of numbers that holds 0 and the successor of each of its members.
LEMMA NumberInduction ==
    ASSUME NEW G, 0 \in G, \A n \in Nat : n \in G => n + 1 \in G PROVE Nat \subseteq G
  <1> DEFINE T == {n \in Nat : n \notin G}
  <1> SUFFICES ASSUME T # {} PROVE FALSE
    OBVIOUS
  <1> HIDE DEF T
  <1>1. T \in SUBSET Nat
    BY DEF T
  <1>2. PICK n \in T : \A m \in T : n <= m
    BY <1>1, LeastOf, Zenon
  <1>3. n # 0 /\ n - 1 \in Nat /\ n - 1 \notin T
    BY <1>2 DEF T
  <1> QED BY <1>2, <1>3 DEF T

-----------------------------------------------------------------------------
(* Induction over the subsets of a finite set.                              *)

LEMMA FinitePart ==
    ASSUME NEW D, IsFiniteSet(D), NEW X \in SUBSET D
    PROVE  /\ IsFiniteSet(X) /\ Cardinality(X) \in Nat
           /\ Cardinality(X) = 0 <=> X = {}
           /\ \A x \in X : Cardinality(X \ {x}) = Cardinality(X) - 1
  BY FS_Subset, FS_CardinalityType, FS_EmptySet, FS_RemoveElement

\* What holds of a set when it holds of the set without each of its members.
LEMMA FiniteInduction ==
    ASSUME NEW D, IsFiniteSet(D), NEW G,
           \A X \in SUBSET D : (\A x \in X : X \ {x} \in G) => X \in G
    PROVE  SUBSET D \subseteq G
  <1> DEFINE T == {n \in Nat : \E X \in SUBSET D : Cardinality(X) = n /\ X \notin G}
  <1> SUFFICES ASSUME NEW Z \in SUBSET D, Z \notin G PROVE FALSE
    OBVIOUS
  <1>1. T \in SUBSET Nat /\ T # {}
    BY FinitePart
  <1> HIDE DEF T
  <1>2. PICK n \in T : \A m \in T : n <= m
    BY <1>1, LeastOf, Zenon
  <1>3. PICK X \in SUBSET D : Cardinality(X) = n /\ X \notin G
    BY <1>2 DEF T
  <1>4. PICK x \in X : X \ {x} \notin G
    BY <1>3
  <1>5. Cardinality(X \ {x}) = n - 1 /\ n \in Nat /\ X \ {x} \in SUBSET D
        /\ Cardinality(X \ {x}) \in Nat
    <2>1. X \ {x} \in SUBSET D
      OBVIOUS
    <2> QED BY <1>3, <2>1, FinitePart
  <1>6. n - 1 \in T
    BY <1>4, <1>5 DEF T
  <1> QED BY <1>2, <1>5, <1>6

-----------------------------------------------------------------------------
(* Sums.                                                                    *)

AnyOf(s) == CHOOSE x \in s : TRUE
\* What of the sum falls on s: of a sum of integers, or of fractions.
PartAt(kind, f, s, sum) ==
    IF kind = "integers" THEN IF s = {} THEN 0 ELSE f[AnyOf(s)] + sum[s \ {AnyOf(s)}]
    ELSE IF s = {} THEN <<0, 1>> ELSE Plus(f[AnyOf(s)], sum[s \ {AnyOf(s)}])
IsPart(kind, f, D, sum) == sum = [s \in SUBSET D |-> PartAt(kind, f, s, sum)]

LEMMA PartExists ==
    ASSUME NEW kind, NEW f, NEW D, IsFiniteSet(D)
    PROVE  \E sum : IsPart(kind, f, D, sum)
  <1> DEFINE Small(n) == {s \in SUBSET D : Cardinality(s) < n}
             Run(n, sum) == sum = [s \in Small(n) |-> PartAt(kind, f, s, sum)]
             G == {n \in Nat : \E sum : Run(n, sum)}
  <1>1. 0 \in G
    <2>1. Small(0) = {}
      BY FinitePart
    <2> HIDE DEF Small
    <2>2. Run(0, [s \in {} |-> 0])
      BY <2>1
    <2> QED BY <2>2
  <1>2. ASSUME NEW n \in Nat, n \in G PROVE n + 1 \in G
    <2>1. PICK sum : Run(n, sum)
      BY <1>2
    <2> DEFINE next == [s \in Small(n + 1) |-> IF s \in Small(n) THEN sum[s]
                                               ELSE PartAt(kind, f, s, sum)]
    <2>2. \A s \in Small(n + 1) : s # {} => s \ {AnyOf(s)} \in Small(n)
      <3> TAKE s \in Small(n + 1)
      <3> HAVE s # {}
      <3>1. AnyOf(s) \in s
        BY DEF AnyOf
      <3>2. Cardinality(s \ {AnyOf(s)}) = Cardinality(s) - 1 /\ Cardinality(s) \in Nat
        BY <3>1, FinitePart
      <3> QED BY <3>2
    <2>3. \A s \in Small(n) : s \in Small(n + 1)
      BY FinitePart
    <2>4. \A s \in Small(n) : sum[s] = PartAt(kind, f, s, sum) /\ next[s] = sum[s]
      BY <2>1, <2>3
    <2> HIDE DEF Small
    <2>5. \A s \in Small(n + 1) : next[s] = PartAt(kind, f, s, sum)
      BY <2>4
    <2> HIDE DEF next
    <2>6. \A s \in Small(n + 1) : PartAt(kind, f, s, sum) = PartAt(kind, f, s, next)
      BY <2>2, <2>4 DEF PartAt
    <2>7. Run(n + 1, next)
      BY <2>5, <2>6 DEF next
    <2> QED BY <2>7
  <1> DEFINE m == Cardinality(D) + 1
  <1>3. m \in Nat /\ Small(m) = SUBSET D
    <2>1. Cardinality(D) \in Nat
      BY FS_CardinalityType
    <2>2. \A s \in SUBSET D : Cardinality(s) <= Cardinality(D) /\ Cardinality(s) \in Nat
      BY FinitePart, FS_Subset
    <2> QED BY <2>1, <2>2
  <1> HIDE DEF Small, m
  <1>4. m \in G
    <2> HIDE DEF G
    <2> QED BY <1>1, <1>2, <1>3, NumberInduction
  <1>5. PICK sum : Run(m, sum)
    BY <1>4
  <1>6. IsPart(kind, f, D, sum)
    BY <1>3, <1>5 DEF IsPart
  <1> QED BY <1>6

\* The sum of f over S.
Total(S, f) == SumFunction([x \in S |-> f[x]])

LEMMA SumIsPart ==
    ASSUME NEW f, IsFiniteSet(DOMAIN f)
    PROVE  \E sum : IsPart("integers", f, DOMAIN f, sum) /\ SumFunction(f) = sum[DOMAIN f]
  <1> DEFINE sum == CHOOSE s : IsPart("integers", f, DOMAIN f, s)
  <1>1. SumFunction(f) = sum[DOMAIN f]
    BY DEF SumFunction, SumFunctionOnSet, FoldFunctionOnSet, MapThenFoldSet, IsPart, PartAt, AnyOf
  <1>2. IsPart("integers", f, DOMAIN f, sum)
    BY PartExists
  <1> QED BY <1>1, <1>2

LEMMA TotalChosen ==
    ASSUME NEW f, NEW D, IsFiniteSet(D)
    PROVE  Total(D, f) = IF D = {} THEN 0 ELSE f[AnyOf(D)] + Total(D \ {AnyOf(D)}, f)
  <1> DEFINE c == AnyOf(D)
             d == D \ {c}
             g == [x \in D |-> f[x]]
             h == [x \in d |-> f[x]]
  <1>0. DOMAIN g = D /\ Total(D, f) = SumFunction(g) /\ DOMAIN h = d /\ Total(d, f) = SumFunction(h)
    BY DEF Total
  <1>1. PICK sum : IsPart("integers", g, D, sum) /\ Total(D, f) = sum[D]
    <2> HIDE DEF g
    <2> QED BY <1>0, SumIsPart, Zenon
  <1>2. IsFiniteSet(d)
    BY FS_Subset
  <1>3. PICK part : IsPart("integers", h, d, part) /\ Total(d, f) = part[d]
    <2> HIDE DEF h, d
    <2> QED BY <1>0, <1>2, SumIsPart, Zenon
  <1>4. \A s \in SUBSET D : s # {} => AnyOf(s) \in s /\ s \ {AnyOf(s)} \in SUBSET D
    BY DEF AnyOf
  <1>5. \A s \in SUBSET D : sum[s] = IF s = {} THEN 0 ELSE f[AnyOf(s)] + sum[s \ {AnyOf(s)}]
    <2>1. \A s \in SUBSET D : s # {} => g[AnyOf(s)] = f[AnyOf(s)]
      BY <1>4
    <2>2. \A s \in SUBSET D : sum[s] = PartAt("integers", g, s, sum)
      BY <1>1 DEF IsPart
    <2> HIDE DEF g
    <2> QED BY <2>1, <2>2 DEF PartAt
  <1>6. \A s \in SUBSET d : part[s] = IF s = {} THEN 0 ELSE f[AnyOf(s)] + part[s \ {AnyOf(s)}]
    <2>1. \A s \in SUBSET d : s # {} => h[AnyOf(s)] = f[AnyOf(s)]
      BY <1>4
    <2>2. \A s \in SUBSET d : part[s] = PartAt("integers", h, s, part)
      BY <1>3 DEF IsPart
    <2> HIDE DEF h
    <2> QED BY <2>1, <2>2 DEF PartAt
  <1> DEFINE G == {s \in SUBSET d : sum[s] = part[s]}
  <1>7. \A s \in SUBSET d : (\A x \in s : s \ {x} \in G) => s \in G
    <2> TAKE s \in SUBSET d
    <2> HAVE \A x \in s : s \ {x} \in G
    <2>1. s \in SUBSET D
      OBVIOUS
    <2> HIDE DEF d
    <2>2. s # {} => sum[s \ {AnyOf(s)}] = part[s \ {AnyOf(s)}]
      BY <1>4, <2>1
    <2> QED BY <1>5, <1>6, <2>1, <2>2
  <1>8. sum[d] = part[d]
    <2> HIDE DEF G, d
    <2>1. SUBSET d \subseteq G
      BY <1>2, <1>7, FiniteInduction
    <2> QED BY <2>1 DEF G
  <1> QED BY <1>1, <1>3, <1>5, <1>8

\* Of a sum of integers, any term may be taken first.
LEMMA TotalTyped ==
    ASSUME NEW D, IsFiniteSet(D), NEW f, \A x \in D : f[x] \in Int
    PROVE  /\ Total(D, f) \in Int
           /\ \A x \in D : Total(D, f) = f[x] + Total(D \ {x}, f)
  <1> DEFINE Good(X) == /\ Total(X, f) \in Int
                        /\ \A x \in X : /\ Total(X \ {x}, f) \in Int
                                         /\ Total(X, f) = f[x] + Total(X \ {x}, f)
             G == {X \in SUBSET D : Good(X)}
  <1>1. \A X \in SUBSET D : (\A x \in X : X \ {x} \in G) => X \in G
    <2> TAKE X \in SUBSET D
    <2> HAVE \A x \in X : X \ {x} \in G
    <2>0. IsFiniteSet(X)
      BY FS_Subset
    <2>1. CASE X = {}
      <3>1. Total(X, f) = 0
        BY <2>0, <2>1, TotalChosen
      <3> QED BY <2>1, <3>1
    <2>2. CASE X # {}
      <3> DEFINE c == AnyOf(X)
      <3>1. c \in X
        BY <2>2 DEF AnyOf
      <3>2. Total(X, f) = f[c] + Total(X \ {c}, f)
        BY <2>0, <2>2, TotalChosen
      <3> HIDE DEF c
      <3>3. Total(X, f) \in Int
        BY <3>1, <3>2
      <3>4. ASSUME NEW x \in X, x # c
            PROVE  Total(X, f) = f[x] + Total(X \ {x}, f)
        <4>1. Total(X \ {c}, f) = f[x] + Total((X \ {c}) \ {x}, f)
          BY <3>1, <3>4
        <4>2. Total(X \ {x}, f) = f[c] + Total((X \ {x}) \ {c}, f)
          BY <3>1, <3>4
        <4>3. (X \ {c}) \ {x} = (X \ {x}) \ {c}
          OBVIOUS
        <4>4. (X \ {c}) \ {x} \in SUBSET D /\ f[x] \in Int /\ f[c] \in Int
          BY <3>1
        <4>5. Total((X \ {c}) \ {x}, f) \in Int
          BY <3>1, <3>4
        <4> QED BY <3>2, <4>1, <4>2, <4>3, <4>4, <4>5
      <3> QED BY <3>2, <3>3, <3>4
    <2> QED BY <2>1, <2>2
  <1>2. D \in G
    <2> HIDE DEF G
    <2>1. SUBSET D \subseteq G
      BY <1>1, FiniteInduction
    <2> QED BY <2>1
  <1> QED BY <1>2


LEMMA GrowingSet ==
    ASSUME NEW D, IsFiniteSet(D), NEW G, {} \in G,
           \A X \in SUBSET D : \A x \in D \ X : X \in G => X \cup {x} \in G
    PROVE  D \in G
  <1>1. \A X \in SUBSET D : (\A x \in X : X \ {x} \in G) => X \in G
    <2> TAKE X \in SUBSET D
    <2> HAVE \A x \in X : X \ {x} \in G
    <2>1. CASE X = {}
      BY <2>1
    <2>2. CASE X # {}
      <3>1. PICK x \in X : TRUE
        BY <2>2
      <3>2. X \ {x} \in SUBSET D /\ x \in D \ (X \ {x}) /\ X \ {x} \in G /\ (X \ {x}) \cup {x} = X
        BY <3>1
      <3>3. (X \ {x}) \cup {x} \in G
        BY ONLY <3>2, \A Z \in SUBSET D : \A z \in D \ Z : Z \in G => Z \cup {z} \in G
      <3> QED BY <3>2, <3>3
    <2> QED BY <2>1, <2>2
  <1>2. SUBSET D \subseteq G
    BY <1>1, FiniteInduction
  <1> QED BY <1>2

LEMMA TotalEmpty == ASSUME NEW f PROVE Total({}, f) = 0
  <1>1. IsFiniteSet({})
    BY FS_EmptySet
  <1> QED BY <1>1, TotalChosen

LEMMA TotalAdd ==
    ASSUME NEW S, IsFiniteSet(S), NEW x, x \notin S, NEW f, \A y \in S \cup {x} : f[y] \in Int
    PROVE  Total(S \cup {x}, f) = f[x] + Total(S, f)
  <1>1. IsFiniteSet(S \cup {x}) /\ (S \cup {x}) \ {x} = S /\ x \in S \cup {x}
    BY FS_AddElement
  <1> QED BY <1>1, TotalTyped

LEMMA TotalSame ==
    ASSUME NEW S, NEW f, NEW g, \A x \in S : f[x] = g[x]
    PROVE  Total(S, f) = Total(S, g)
  <1>1. [x \in S |-> f[x]] = [x \in S |-> g[x]]
    OBVIOUS
  <1> QED BY <1>1 DEF Total

\* Sums are linear.
LEMMA TotalPlus ==
    ASSUME NEW S, IsFiniteSet(S), NEW f, NEW g, NEW h,
           \A x \in S : f[x] \in Int /\ g[x] \in Int /\ h[x] = f[x] + g[x]
    PROVE  Total(S, h) = Total(S, f) + Total(S, g)
  <1>0. \A x \in S : f[x] \in Int /\ g[x] \in Int /\ h[x] \in Int
    OBVIOUS
  <1> DEFINE G == {X \in SUBSET S : Total(X, h) = Total(X, f) + Total(X, g)}
  <1>1. {} \in G
    BY TotalEmpty
  <1>2. ASSUME NEW X \in SUBSET S, NEW x \in S \ X, X \in G
        PROVE  X \cup {x} \in G
    <2>1. IsFiniteSet(X)
      BY FS_Subset
    <2>2. /\ Total(X \cup {x}, f) = f[x] + Total(X, f)
          /\ Total(X \cup {x}, g) = g[x] + Total(X, g)
          /\ Total(X \cup {x}, h) = h[x] + Total(X, h)
      BY ONLY <1>0, <2>1, X \in SUBSET S, x \in S \ X, TotalAdd
    <2>3. Total(X, f) \in Int /\ Total(X, g) \in Int
      BY <2>1, TotalTyped
    <2> QED BY <1>2, <2>2, <2>3
  <1> HIDE DEF G
  <1>3. S \in G
    BY <1>1, <1>2, GrowingSet
  <1> QED BY <1>3 DEF G

LEMMA TotalTimes ==
    ASSUME NEW S, IsFiniteSet(S), NEW k \in Int, NEW f, NEW h,
           \A x \in S : f[x] \in Int /\ h[x] = k * f[x]
    PROVE  Total(S, h) = k * Total(S, f)
  <1>0. \A x \in S : f[x] \in Int /\ h[x] \in Int
    OBVIOUS
  <1> DEFINE G == {X \in SUBSET S : Total(X, h) = k * Total(X, f)}
  <1>1. {} \in G
    BY TotalEmpty
  <1>2. ASSUME NEW X \in SUBSET S, NEW x \in S \ X, X \in G
        PROVE  X \cup {x} \in G
    <2>1. IsFiniteSet(X)
      BY FS_Subset
    <2>2. /\ Total(X \cup {x}, f) = f[x] + Total(X, f)
          /\ Total(X \cup {x}, h) = h[x] + Total(X, h)
      BY ONLY <1>0, <2>1, X \in SUBSET S, x \in S \ X, TotalAdd
    <2>3. Total(X, f) \in Int
      BY <2>1, TotalTyped
    <2>4. k * (f[x] + Total(X, f)) = k * f[x] + k * Total(X, f)
      BY <2>3
    <2> QED BY <1>2, <2>2, <2>3, <2>4
  <1> HIDE DEF G
  <1>3. S \in G
    BY <1>1, <1>2, GrowingSet
  <1> QED BY <1>3 DEF G

\* Sums over two sets that have nothing in common.
LEMMA TotalUnion ==
    ASSUME NEW R, NEW S, IsFiniteSet(R), IsFiniteSet(S), R \cap S = {},
           NEW f, \A x \in R \cup S : f[x] \in Int
    PROVE  Total(R \cup S, f) = Total(R, f) + Total(S, f)
  <1> DEFINE G == {X \in SUBSET S : Total(R \cup X, f) = Total(R, f) + Total(X, f)}
  <1>1. {} \in G
    <2>1. Total(R, f) \in Int /\ R \cup {} = R
      BY TotalTyped
    <2> QED BY <2>1, TotalEmpty
  <1>2. ASSUME NEW X \in SUBSET S, NEW x \in S \ X, X \in G
        PROVE  X \cup {x} \in G
    <2>1. IsFiniteSet(X) /\ IsFiniteSet(R \cup X)
      BY FS_Subset, FS_Union
    <2>2. /\ Total(X \cup {x}, f) = f[x] + Total(X, f)
          /\ Total((R \cup X) \cup {x}, f) = f[x] + Total(R \cup X, f)
      BY <2>1, TotalAdd
    <2>3. /\ Total(X, f) \in Int /\ Total(R, f) \in Int /\ f[x] \in Int
          /\ (R \cup X) \cup {x} = R \cup (X \cup {x})
      BY <2>1, TotalTyped
    <2>4. Total(R \cup (X \cup {x}), f) = Total(R, f) + Total(X \cup {x}, f)
      <3>1. Total(R \cup X, f) = Total(R, f) + Total(X, f)
        BY <1>2
      <3>2. f[x] + (Total(R, f) + Total(X, f)) = Total(R, f) + (f[x] + Total(X, f))
        BY <2>3
      <3> QED BY ONLY <2>2, <2>3, <3>1, <3>2
    <2> QED BY <2>4
  <1> HIDE DEF G
  <1>3. S \in G
    BY <1>1, <1>2, GrowingSet
  <1> QED BY <1>3 DEF G

LEMMA ImageFinite ==
    ASSUME NEW S, IsFiniteSet(S), NEW e
    PROVE  IsFiniteSet({e[x] : x \in S})
  <1> DEFINE Im(X) == {e[x] : x \in X}
             G == {X \in SUBSET S : IsFiniteSet(Im(X))}
  <1>1. {} \in G
    <2>1. Im({}) = {}
      OBVIOUS
    <2> HIDE DEF Im
    <2> QED BY <2>1, FS_EmptySet
  <1>2. ASSUME NEW X \in SUBSET S, NEW x \in S \ X, X \in G
        PROVE  X \cup {x} \in G
    <2> DEFINE z == e[x]
    <2>1. Im(X \cup {x}) = Im(X) \cup {z} /\ IsFiniteSet(Im(X))
      BY <1>2
    <2> HIDE DEF Im, z
    <2>2. IsFiniteSet(Im(X) \cup {z})
      BY <2>1, FS_AddElement
    <2> QED BY <2>1, <2>2
  <1> HIDE DEF G
  <1>3. S \in G
    BY <1>1, <1>2, GrowingSet
  <1> QED BY <1>3 DEF G

\* A sum over the image of a one-to-one function.
LEMMA TotalImage ==
    ASSUME NEW S, IsFiniteSet(S), NEW e, \A x, y \in S : e[x] = e[y] => x = y,
           NEW f, NEW h, \A x \in S : f[e[x]] \in Int /\ h[x] = f[e[x]]
    PROVE  Total({e[x] : x \in S}, f) = Total(S, h)
  <1> DEFINE Im(X) == {e[x] : x \in X}
             G == {X \in SUBSET S : IsFiniteSet(Im(X)) /\ Total(Im(X), f) = Total(X, h)}
  <1>1. {} \in G
    <2>1. Im({}) = {}
      OBVIOUS
    <2> HIDE DEF Im
    <2> QED BY <2>1, TotalEmpty, FS_EmptySet
  <1>2. ASSUME NEW X \in SUBSET S, NEW x \in S \ X, X \in G
        PROVE  X \cup {x} \in G
    <2>1. IsFiniteSet(X)
      BY FS_Subset
    <2> DEFINE z == e[x]
    <2>2. /\ Im(X \cup {x}) = Im(X) \cup {z} /\ z \notin Im(X)
          /\ \A y \in Im(X) \cup {z} : f[y] \in Int
      OBVIOUS
    <2>3. IsFiniteSet(Im(X)) /\ Total(Im(X), f) = Total(X, h)
      BY <1>2
    <2> HIDE DEF Im
    <2>4. Total(Im(X) \cup {z}, f) = f[z] + Total(Im(X), f) /\ IsFiniteSet(Im(X) \cup {z})
      <3> DEFINE M == Im(X)
      <3>1. IsFiniteSet(M) /\ z \notin M /\ \A y \in M \cup {z} : f[y] \in Int
        BY <2>2, <2>3
      <3> HIDE DEF z, M
      <3>2. Total(M \cup {z}, f) = f[z] + Total(M, f)
        BY ONLY <3>1, TotalAdd
      <3>3. IsFiniteSet(M \cup {z})
        BY ONLY <3>1, FS_AddElement
      <3> QED BY <3>2, <3>3 DEF M
    <2>5. Total(X \cup {x}, h) = h[x] + Total(X, h)
      <3>1. x \notin X /\ \A y \in X \cup {x} : h[y] \in Int
        OBVIOUS
      <3> QED BY ONLY <2>1, <3>1, TotalAdd
    <2>6. h[x] = f[e[x]]
      OBVIOUS
    <2> QED BY <2>2, <2>3, <2>4, <2>5, <2>6
  <1> HIDE DEF G
  <1>3. S \in G
    BY <1>1, <1>2, GrowingSet
  <1> QED BY <1>3 DEF G

\* A sum with one value at the members of A, and zero elsewhere.
LEMMA TotalWhere ==
    ASSUME NEW S, IsFiniteSet(S), NEW A \in SUBSET S, NEW k \in Int, NEW h,
           \A x \in S : h[x] = IF x \in A THEN k ELSE 0
    PROVE  Total(S, h) = Cardinality(A) * k
  <1>0. \A x \in S : h[x] \in Int
    OBVIOUS
  <1> DEFINE G == {X \in SUBSET S : Total(X, h) = Cardinality(X \cap A) * k}
  <1>1. {} \in G
    <2>1. {} \cap A = {}
      OBVIOUS
    <2> QED BY <2>1, TotalEmpty, FS_EmptySet
  <1>2. ASSUME NEW X \in SUBSET S, NEW x \in S \ X, X \in G
        PROVE  X \cup {x} \in G
    <2>1. IsFiniteSet(X) /\ IsFiniteSet(X \cap A) /\ Cardinality(X \cap A) \in Nat
      BY FS_Subset, FS_CardinalityType
    <2>2. Total(X \cup {x}, h) = h[x] + Total(X, h)
      BY ONLY <1>0, <2>1, X \in SUBSET S, x \in S \ X, TotalAdd
    <2>3. CASE x \in A
      <3>1. (X \cup {x}) \cap A = (X \cap A) \cup {x} /\ x \notin X \cap A
        BY <2>3
      <3>2. Cardinality((X \cup {x}) \cap A) = Cardinality(X \cap A) + 1
        BY <2>1, <3>1, FS_AddElement
      <3>3. (Cardinality(X \cap A) + 1) * k = k + Cardinality(X \cap A) * k
        BY <2>1
      <3> QED BY <1>2, <2>2, <2>3, <3>2, <3>3
    <2>4. CASE x \notin A
      <3>1. (X \cup {x}) \cap A = X \cap A
        BY <2>4
      <3>2. 0 + Cardinality(X \cap A) * k = Cardinality(X \cap A) * k
        BY <2>1
      <3> QED BY <1>2, <2>2, <2>4, <3>1, <3>2
    <2> QED BY <2>3, <2>4
  <1> HIDE DEF G
  <1>3. S \in G
    BY <1>1, <1>2, GrowingSet
  <1>4. S \cap A = A
    OBVIOUS
  <1> QED BY <1>3, <1>4 DEF G


RowOf(R, c, S) == {x \in S : <<c, x>> \in R}
ColumnOf(R, x, C) == {c \in C : <<c, x>> \in R}

SameTotal(C, inner, S, w) == Total(C, inner) = Total(S, w)

\* A sum by rows is the sum by columns.
LEMMA TotalIncidence ==
    ASSUME NEW C, IsFiniteSet(C), NEW S, IsFiniteSet(S), NEW R,
           NEW g, \A x \in S : g[x] \in Int,
           NEW inner, \A c \in C : inner[c] = Total(RowOf(R, c, S), g),
           NEW w, \A x \in S : w[x] = Cardinality(ColumnOf(R, x, C)) * g[x]
    PROVE  SameTotal(C, inner, S, w)
  <1> USE DEF RowOf, ColumnOf
  <1> DEFINE Of(c, X) == {x \in X : <<c, x>> \in R}
             In(X) == [c \in C |-> Total(Of(c, X), g)]
             G == {X \in SUBSET S : Total(C, In(X)) = Total(X, w)}
  <1>0. \A x \in S : w[x] \in Int
    <2> TAKE x \in S
    <2>1. {c \in C : <<c, x>> \in R} \in SUBSET C
      OBVIOUS
    <2>2. Cardinality({c \in C : <<c, x>> \in R}) \in Nat
      BY <2>1, FinitePart
    <2> QED BY <2>2
  <1>1. {} \in G
    <2>1. \A c \in C : In({})[c] = IF c \in {} THEN 0 ELSE 0
      <3>1. \A c \in C : Of(c, {}) = {}
        OBVIOUS
      <3> HIDE DEF Of
      <3> QED BY <3>1, TotalEmpty
    <2> DEFINE h == In({})
    <2> HIDE DEF h
    <2>2. Total(C, h) = Cardinality({}) * 0
      BY <2>1, TotalWhere DEF h
    <2> QED BY <2>2, TotalEmpty, FS_EmptySet DEF h
  <1>2. ASSUME NEW X \in SUBSET S, NEW x \in S \ X, X \in G
        PROVE  X \cup {x} \in G
    <2> DEFINE A == {c \in C : <<c, x>> \in R}
               ind == [c \in C |-> IF c \in A THEN g[x] ELSE 0]
               old == In(X)
               new == In(X \cup {x})
    <2>0. A \in SUBSET C /\ g[x] \in Int
      OBVIOUS
    <2>1. \A c \in C : old[c] = Total(Of(c, X), g) /\ new[c] = Total(Of(c, X \cup {x}), g)
      OBVIOUS
    <2>2. \A c \in C : /\ IsFiniteSet(Of(c, X)) /\ x \notin Of(c, X)
                       /\ Of(c, X \cup {x}) = IF c \in A THEN Of(c, X) \cup {x} ELSE Of(c, X)
                       /\ \A y \in Of(c, X) \cup {x} : g[y] \in Int
      <3> TAKE c \in C
      <3>1. Of(c, X) \in SUBSET S
        OBVIOUS
      <3>2. IsFiniteSet(Of(c, X))
        BY <3>1, FS_Subset
      <3> QED BY <3>2
    <2>3. \A c \in C : ind[c] = IF c \in A THEN g[x] ELSE 0
      OBVIOUS
    <2> HIDE DEF Of, A, old, new, ind
    <2>4. \A c \in C : old[c] \in Int /\ ind[c] \in Int /\ new[c] = ind[c] + old[c]
      <3> TAKE c \in C
      <3> DEFINE M == Of(c, X)
      <3>0. IsFiniteSet(M) /\ (\A y \in M : g[y] \in Int) /\ old[c] = Total(M, g)
        BY <2>1, <2>2
      <3> HIDE DEF M
      <3>1. old[c] \in Int
        BY ONLY <3>0, TotalTyped
      <3>2. CASE c \in A
        <4>1. Total(Of(c, X) \cup {x}, g) = g[x] + Total(Of(c, X), g)
          BY <2>2, TotalAdd
        <4> QED BY <2>0, <2>1, <2>2, <2>3, <3>1, <3>2, <4>1
      <3>3. CASE c \notin A
        <4>1. Of(c, X \cup {x}) = Of(c, X) /\ ind[c] = 0
          BY <2>2, <2>3, <3>3
        <4> QED BY <2>1, <3>1, <4>1
      <3> QED BY <3>2, <3>3
    <2>5. Total(C, new) = Total(C, ind) + Total(C, old)
      BY ONLY IsFiniteSet(C), <2>4, TotalPlus
    <2>6. Total(C, ind) = Cardinality(A) * g[x]
      BY ONLY IsFiniteSet(C), <2>0, <2>3, TotalWhere
    <2>7. Total(X \cup {x}, w) = w[x] + Total(X, w)
      <3>1. IsFiniteSet(X)
        BY FS_Subset
      <3> QED BY ONLY <1>0, <3>1, X \in SUBSET S, x \in S \ X, TotalAdd
    <2>8. w[x] = Cardinality(A) * g[x]
      BY DEF A
    <2>9. Total(C, old) = Total(X, w)
      BY <1>2 DEF old
    <2>10. Total(C, new) = Total(X \cup {x}, w)
      BY ONLY <2>5, <2>6, <2>7, <2>8, <2>9
    <2> QED BY <2>10 DEF new
  <1>3. S \in G
    <2> HIDE DEF G
    <2> QED BY <1>1, <1>2, GrowingSet
  <1>4. \A c \in C : inner[c] = In(S)[c]
    OBVIOUS
  <1>5. Total(C, inner) = Total(C, In(S))
    <2> DEFINE s == In(S)
    <2> HIDE DEF s
    <2> QED BY <1>4, TotalSame DEF s
  <1> QED BY <1>3, <1>5 DEF SameTotal

\* A sum over the subsets of a set, by whether they hold i.
IntsOn(S, g) == \A x \in S : g[x] \in Int
Shifted(S, g, i) == [T \in SUBSET S |-> g[T \cup {i}]]

LEMMA TotalSplit ==
    ASSUME NEW S, IsFiniteSet(S), NEW i, i \notin S, NEW g, IntsOn(SUBSET (S \cup {i}), g)
    PROVE  Total(SUBSET (S \cup {i}), g) = Total(SUBSET S, g) + Total(SUBSET S, Shifted(S, g, i))
  <1> DEFINE h == Shifted(S, g, i)
  <1>a. (\A T \in SUBSET S : h[T] = g[T \cup {i}]) /\ \A T \in SUBSET (S \cup {i}) : g[T] \in Int
    BY DEF Shifted, IntsOn
  <1> HIDE DEF h
  <1> DEFINE e == [T \in SUBSET S |-> T \cup {i}]
             Without == SUBSET S
             With_i == {e[T] : T \in SUBSET S}
  <1>1. SUBSET (S \cup {i}) = Without \cup With_i
    <2>1. ASSUME NEW T \in SUBSET (S \cup {i}), i \in T
          PROVE  T \in With_i
      <3>1. T \ {i} \in SUBSET S /\ (T \ {i}) \cup {i} = T
        BY <2>1
      <3> QED BY <3>1
    <2> QED BY <2>1
  <1>2. Without \cap With_i = {}
    OBVIOUS
  <1>3. IsFiniteSet(Without) /\ IsFiniteSet(With_i)
    <2>1. IsFiniteSet(SUBSET S)
      BY FS_SUBSET
    <2>2. IsFiniteSet({e[T] : T \in SUBSET S})
      <3> DEFINE P == SUBSET S
      <3> HIDE DEF e, P
      <3>1. IsFiniteSet({e[T] : T \in P})
        BY <2>1, ImageFinite DEF P
      <3> QED BY <3>1 DEF P
    <2> QED BY <2>1, <2>2
  <1>4. \A T, U \in SUBSET S : e[T] = e[U] => T = U
    <2> TAKE T, U \in SUBSET S
    <2> HAVE e[T] = e[U]
    <2>1. T = (T \cup {i}) \ {i} /\ U = (U \cup {i}) \ {i}
      OBVIOUS
    <2> QED BY <2>1
  <1>5. \A T \in SUBSET S : g[e[T]] \in Int /\ h[T] = g[e[T]]
    BY <1>a
  <1>6. \A T \in Without \cup With_i : g[T] \in Int
    BY <1>1, <1>a
  <1>7. Total(With_i, g) = Total(SUBSET S, h)
    <2> HIDE DEF e
    <2> QED BY <1>3, <1>4, <1>5, TotalImage
  <1> HIDE DEF Without, With_i
  <1>8. Total(Without \cup With_i, g) = Total(Without, g) + Total(With_i, g)
    BY <1>2, <1>3, <1>6, TotalUnion
  <1> QED BY <1>1, <1>7, <1>8 DEF Without, h


-----------------------------------------------------------------------------
(* The readings of a lattice.                                               *)

LEMMA SignFlips == \A n \in Nat : Sign(n) \in {1, -1} /\ Sign(n + 1) = -Sign(n)
  BY DEF Sign

\* The dividend of T, the contrast of T over the subsets of N, and the surface
\* seen with i on.
Dividend(Y, T) == Total(SUBSET T, [U \in SUBSET T |-> Sign(Cardinality(T) - Cardinality(U)) * Y[U]])
Contrast(N, Y, T) == Total(SUBSET N, [S \in SUBSET N |-> Sign(Cardinality(T \ S)) * Y[S]])
WithOn(D, Y, i) == [U \in SUBSET D |-> Y[U \cup {i}]]

LEMMA Counted ==
    ASSUME NEW D, IsFiniteSet(D), NEW X \in SUBSET D, NEW i \in D \ X
    PROVE  /\ IsFiniteSet(X) /\ Cardinality(X) \in Nat /\ Cardinality(X \cup {i}) = Cardinality(X) + 1
           /\ X \cup {i} \in SUBSET D
           /\ \A U \in SUBSET X : /\ i \notin U /\ Cardinality(U) \in Nat
                                  /\ Cardinality(U) <= Cardinality(X)
                                  /\ Cardinality(U \cup {i}) = Cardinality(U) + 1
                                  /\ U \cup {i} \in SUBSET D /\ U \in SUBSET D
  BY FS_Subset, FS_CardinalityType, FS_AddElement

LEMMA DividendTyped ==
    ASSUME NEW D, IsFiniteSet(D), NEW Y \in [SUBSET D -> Int], NEW T \in SUBSET D
    PROVE  Dividend(Y, T) \in Int
  <1> DEFINE f == [U \in SUBSET T |-> Sign(Cardinality(T) - Cardinality(U)) * Y[U]]
  <1>1. IsFiniteSet(SUBSET T)
    BY FS_Subset, FS_SUBSET
  <1>2. \A U \in SUBSET T : Cardinality(T) - Cardinality(U) \in Nat
    BY FS_Subset, FS_CardinalityType
  <1>3. \A U \in SUBSET T : f[U] \in Int
    BY <1>2, SignFlips
  <1> HIDE DEF f
  <1>4. Total(SUBSET T, f) \in Int
    BY <1>1, <1>3, TotalTyped
  <1> QED BY <1>4 DEF Dividend, f

\* One more toggle in a coalition.
DividendsSplit(D, Y, i, T) ==
    Dividend(Y, T \cup {i}) = Dividend(WithOn(D, Y, i), T) - Dividend(Y, T)

LEMMA DividendSplit ==
    ASSUME NEW D, IsFiniteSet(D), NEW Y \in [SUBSET D -> Int],
           NEW T \in SUBSET D, NEW i \in D \ T
    PROVE  DividendsSplit(D, Y, i, T)
  <1> DEFINE f == [U \in SUBSET (T \cup {i}) |->
                       Sign(Cardinality(T \cup {i}) - Cardinality(U)) * Y[U]]
             h == Shifted(T, f, i)
             a == [U \in SUBSET T |-> Sign(Cardinality(T) - Cardinality(U)) * Y[U]]
             b == [U \in SUBSET T |-> Sign(Cardinality(T) - Cardinality(U)) * WithOn(D, Y, i)[U]]
  <1>1. /\ Dividend(Y, T \cup {i}) = Total(SUBSET (T \cup {i}), f)
        /\ Dividend(Y, T) = Total(SUBSET T, a)
        /\ Dividend(WithOn(D, Y, i), T) = Total(SUBSET T, b)
    BY DEF Dividend
  <1>2. IsFiniteSet(T) /\ i \notin T /\ IsFiniteSet(SUBSET T)
    BY Counted, FS_SUBSET
  <1>3. \A U \in SUBSET (T \cup {i}) : f[U] \in Int
    <2> TAKE U \in SUBSET (T \cup {i})
    <2>1. Cardinality(T \cup {i}) - Cardinality(U) \in Nat
      BY FS_Subset, FS_CardinalityType, FS_AddElement, <1>2
    <2>2. Y[U] \in Int
      OBVIOUS
    <2> QED BY <2>1, <2>2, SignFlips
  <1>4. \A U \in SUBSET T :
            /\ f[U] = (-1) * a[U] /\ a[U] \in Int
            /\ h[U] = b[U] /\ h[U] = f[U \cup {i}] /\ b[U] \in Int
    <2> TAKE U \in SUBSET T
    <2> DEFINE n == Cardinality(T) - Cardinality(U)
    <2>1. /\ Cardinality(T \cup {i}) - Cardinality(U) = n + 1
          /\ Cardinality(T \cup {i}) - Cardinality(U \cup {i}) = n
          /\ n \in Nat /\ U \in SUBSET D /\ U \cup {i} \in SUBSET D
      <3>1. IsFiniteSet(U) /\ i \notin U /\ U \in SUBSET D /\ U \cup {i} \in SUBSET D
        BY <1>2, FS_Subset
      <3>2. Cardinality(U) <= Cardinality(T)
        BY <1>2, FS_Subset
      <3>3. Cardinality(U) \in Nat /\ Cardinality(T) \in Nat
        BY <1>2, <3>1, FS_CardinalityType
      <3>4. Cardinality(T \cup {i}) = Cardinality(T) + 1
        BY ONLY <1>2, FS_AddElement
      <3>5. Cardinality(U \cup {i}) = Cardinality(U) + 1
        BY ONLY <3>1, FS_AddElement
      <3> QED BY <3>1, <3>2, <3>3, <3>4, <3>5
    <2>2. WithOn(D, Y, i)[U] = Y[U \cup {i}] /\ Y[U] \in Int /\ Y[U \cup {i}] \in Int
      BY <2>1 DEF WithOn
    <2>3. /\ f[U] = Sign(n + 1) * Y[U] /\ f[U \cup {i}] = Sign(n) * Y[U \cup {i}]
          /\ a[U] = Sign(n) * Y[U] /\ b[U] = Sign(n) * Y[U \cup {i}]
      BY <2>1, <2>2
    <2> HIDE DEF n, f, a, b
    <2>4. h[U] = f[U \cup {i}]
      BY DEF h, Shifted
    <2>5. Sign(n) \in {1, -1} /\ Sign(n + 1) = -Sign(n)
      BY <2>1, SignFlips
    <2> QED BY <2>2, <2>3, <2>4, <2>5
  <1> HIDE DEF f, h, a, b
  <1>5. Total(SUBSET (T \cup {i}), f) = Total(SUBSET T, f) + Total(SUBSET T, h)
    <2>1. IntsOn(SUBSET (T \cup {i}), f)
      BY <1>3 DEF IntsOn
    <2> QED BY ONLY <1>2, <2>1, TotalSplit DEF h
  <1>6. Total(SUBSET T, f) = (-1) * Total(SUBSET T, a)
    <2>1. \A U \in SUBSET T : a[U] \in Int /\ f[U] = (-1) * a[U]
      BY <1>4
    <2> DEFINE P == SUBSET T
    <2>2. -1 \in Int /\ IsFiniteSet(P) /\ \A U \in P : a[U] \in Int /\ f[U] = (-1) * a[U]
      BY <1>2, <2>1
    <2> HIDE DEF P
    <2>3. Total(P, f) = (-1) * Total(P, a)
      BY ONLY <2>2, TotalTimes
    <2> QED BY <2>3 DEF P
  <1>7. Total(SUBSET T, h) = Total(SUBSET T, b)
    BY <1>4, TotalSame
  <1>8. Total(SUBSET T, a) \in Int /\ Total(SUBSET T, b) \in Int
    BY <1>2, <1>4, TotalTyped
  <1> QED BY <1>1, <1>5, <1>6, <1>7, <1>8 DEF DividendsSplit

\* The dividends of the subsets of a set add up to its value.
LEMMA DividendsAddUp ==
    ASSUME NEW D, IsFiniteSet(D), NEW Y \in [SUBSET D -> Int]
    PROVE  \A S \in SUBSET D : Total(SUBSET S, [T \in SUBSET S |-> Dividend(Y, T)]) = Y[S]
  <1> DEFINE Parts(Z, X) == [T \in SUBSET X |-> Dividend(Z, T)]
             G(X) == \A Z \in [SUBSET D -> Int] : Total(SUBSET X, Parts(Z, X)) = Z[X]
             GG == {X \in SUBSET D : G(X)}
  <1>1. {} \in GG
    <2> SUFFICES ASSUME NEW Z \in [SUBSET D -> Int] PROVE Total(SUBSET {}, Parts(Z, {})) = Z[{}]
      OBVIOUS
    <2>1. SUBSET {} = {{}} /\ IsFiniteSet({}) /\ Cardinality({}) = 0 /\ Z[{}] \in Int
      BY FS_EmptySet
    <2>2. \A f : f[{}] \in Int => Total({{}}, f) = f[{}]
      <3> SUFFICES ASSUME NEW f, f[{}] \in Int PROVE Total({{}}, f) = f[{}]
        OBVIOUS
      <3>1. {} \cup {{}} = {{}} /\ {} \notin {}
        OBVIOUS
      <3>2. Total({} \cup {{}}, f) = f[{}] + Total({}, f)
        BY <2>1, TotalAdd
      <3> QED BY <3>1, <3>2, TotalEmpty
    <2> DEFINE f == [U \in SUBSET {} |-> Sign(Cardinality({}) - Cardinality(U)) * Z[U]]
               p == Parts(Z, {})
    <2>3. f[{}] = Sign(0) * Z[{}] /\ Sign(0) = 1
      BY <2>1 DEF Sign
    <2>4. Dividend(Z, {}) = Z[{}]
      <3>1. Dividend(Z, {}) = Total(SUBSET {}, f)
        BY DEF Dividend
      <3> HIDE DEF f
      <3>2. f[{}] = Z[{}] /\ f[{}] \in Int
        BY <2>1, <2>3
      <3>3. Total({{}}, f) = f[{}]
        BY <2>2, <3>2
      <3> QED BY <2>1, <3>1, <3>2, <3>3
    <2>5. p[{}] = Z[{}]
      BY <2>4
    <2> HIDE DEF p
    <2>6. Total(SUBSET {}, p) = Z[{}]
      BY <2>1, <2>2, <2>5
    <2> QED BY <2>6 DEF p
  <1>2. ASSUME NEW X \in SUBSET D, NEW i \in D \ X, X \in GG
        PROVE  X \cup {i} \in GG
    <2>1. X \cup {i} \in SUBSET D /\ IsFiniteSet(X) /\ IsFiniteSet(SUBSET X)
      BY Counted, FS_SUBSET
    <2> SUFFICES ASSUME NEW Z \in [SUBSET D -> Int]
                 PROVE  Total(SUBSET (X \cup {i}), Parts(Z, X \cup {i})) = Z[X \cup {i}]
      BY <2>1
    <2> DEFINE Zi == WithOn(D, Z, i)
               p == Parts(Z, X \cup {i})
               a == Parts(Z, X)
               b == Parts(Zi, X)
               h == Shifted(X, p, i)
    <2>2. Zi \in [SUBSET D -> Int] /\ Zi[X] = Z[X \cup {i}]
      BY DEF WithOn
    <2>3. Total(SUBSET X, a) = Z[X] /\ Total(SUBSET X, b) = Zi[X]
      <3> HIDE DEF Zi
      <3> QED BY <1>2, <2>2
    <2>4. \A T \in SUBSET (X \cup {i}) : p[T] \in Int
      BY <2>1, DividendTyped
    <2>5. \A T \in SUBSET X : /\ a[T] = p[T] /\ a[T] \in Int /\ b[T] \in Int
                              /\ h[T] = p[T \cup {i}] /\ b[T] = h[T] + a[T] /\ h[T] \in Int
      <3> TAKE T \in SUBSET X
      <3>1. T \in SUBSET D /\ i \in D \ T /\ T \cup {i} \in SUBSET (X \cup {i}) /\ T \in SUBSET (X \cup {i})
        OBVIOUS
      <3>2. Dividend(Z, T \cup {i}) = Dividend(Zi, T) - Dividend(Z, T)
        <4>1. DividendsSplit(D, Z, i, T)
          BY ONLY IsFiniteSet(D), Z \in [SUBSET D -> Int], <3>1, DividendSplit, Zenon
        <4> QED BY <4>1 DEF DividendsSplit
      <3>3. Dividend(Z, T) \in Int /\ Dividend(Zi, T) \in Int
        BY <2>2, <3>1, DividendTyped
      <3>4. /\ p[T] = Dividend(Z, T) /\ p[T \cup {i}] = Dividend(Z, T \cup {i})
            /\ a[T] = Dividend(Z, T) /\ b[T] = Dividend(Zi, T)
        BY <3>1
      <3> HIDE DEF p, a, b, Zi
      <3>5. h[T] = p[T \cup {i}]
        BY DEF h, Shifted
      <3> QED BY <3>2, <3>3, <3>4, <3>5
    <2> HIDE DEF p, a, b, h, Zi
    <2>6. Total(SUBSET (X \cup {i}), p) = Total(SUBSET X, p) + Total(SUBSET X, h)
      <3>1. IntsOn(SUBSET (X \cup {i}), p) /\ i \notin X
        BY <2>4 DEF IntsOn
      <3> QED BY ONLY <2>1, <3>1, TotalSplit DEF h
    <2>7. Total(SUBSET X, p) = Total(SUBSET X, a)
      BY <2>5, TotalSame
    <2>8. Total(SUBSET X, b) = Total(SUBSET X, h) + Total(SUBSET X, a)
      <3>1. \A T \in SUBSET X : h[T] \in Int /\ a[T] \in Int /\ b[T] = h[T] + a[T]
        BY <2>5
      <3> DEFINE P == SUBSET X
      <3>2. IsFiniteSet(P) /\ \A T \in P : h[T] \in Int /\ a[T] \in Int /\ b[T] = h[T] + a[T]
        BY <2>1, <3>1
      <3> HIDE DEF P
      <3>3. Total(P, b) = Total(P, h) + Total(P, a)
        BY ONLY <3>2, TotalPlus
      <3> QED BY <3>3 DEF P
    <2>9. Total(SUBSET X, a) \in Int /\ Total(SUBSET X, h) \in Int
      BY <2>1, <2>5, TotalTyped
    <2>10. Total(SUBSET (X \cup {i}), p) = Z[X \cup {i}]
      BY ONLY <2>2, <2>3, <2>6, <2>7, <2>8, <2>9
    <2> QED BY <2>10 DEF p
  <1> SUFFICES ASSUME NEW S \in SUBSET D PROVE S \in GG
    OBVIOUS
  <1>3. IsFiniteSet(S)
    BY FS_Subset
  <1> HIDE DEF GG
  <1>4. \A X \in SUBSET S : \A i \in S \ X : X \in GG => X \cup {i} \in GG
    BY <1>2
  <1> QED BY <1>1, <1>3, <1>4, GrowingSet


LEMMA TotalOne == ASSUME NEW x, NEW f, f[x] \in Int PROVE Total({x}, f) = f[x]
  <1>1. IsFiniteSet({}) /\ x \notin {} /\ {} \cup {x} = {x}
    BY FS_EmptySet
  <1>2. Total({} \cup {x}, f) = f[x] + Total({}, f)
    BY <1>1, TotalAdd
  <1> QED BY <1>1, <1>2, TotalEmpty

LEMMA Doubled ==
    ASSUME NEW S, IsFiniteSet(S), NEW i, i \notin S
    PROVE  /\ Cardinality(SUBSET S) \in Nat
           /\ Cardinality(SUBSET (S \cup {i})) = 2 * Cardinality(SUBSET S)
  <1> DEFINE P == SUBSET (S \cup {i})
             Q == SUBSET S
             one == [T \in P |-> 1]
             h == Shifted(S, one, i)
  <1>1. IsFiniteSet(P) /\ IsFiniteSet(Q)
    BY FS_AddElement, FS_SUBSET
  <1>2. Cardinality(P) \in Nat /\ Cardinality(Q) \in Nat
    <2> HIDE DEF P, Q
    <2> QED BY <1>1, FS_CardinalityType
  <1>3. IntsOn(P, one)
    BY DEF IntsOn
  <1>4. \A T \in P : one[T] = IF T \in P THEN 1 ELSE 0
    OBVIOUS
  <1>5. \A T \in Q : one[T] = IF T \in Q THEN 1 ELSE 0
    OBVIOUS
  <1>6. \A T \in Q : h[T] = IF T \in Q THEN 1 ELSE 0
    BY DEF Shifted
  <1>7. Total(P, one) = Total(Q, one) + Total(Q, h)
    <2> HIDE DEF one
    <2> QED BY <1>3, TotalSplit
  <1> HIDE DEF P, Q, one, h
  <1>8. Total(P, one) = Cardinality(P) * 1
    BY <1>1, <1>4, TotalWhere
  <1>9. Total(Q, one) = Cardinality(Q) * 1
    BY <1>1, <1>5, TotalWhere
  <1>10. Total(Q, h) = Cardinality(Q) * 1
    BY <1>1, <1>6, TotalWhere
  <1>11. Cardinality(P) = 2 * Cardinality(Q)
    BY <1>2, <1>7, <1>8, <1>9, <1>10
  <1> QED BY <1>2, <1>11 DEF P, Q

LEMMA ContrastTyped ==
    ASSUME NEW D, IsFiniteSet(D), NEW Y \in [SUBSET D -> Int], NEW X \in SUBSET D, NEW T \in SUBSET X
    PROVE  Contrast(X, Y, T) \in Int
  <1> DEFINE f == [S \in SUBSET X |-> Sign(Cardinality(T \ S)) * Y[S]]
             P == SUBSET X
  <1>1. IsFiniteSet(P)
    BY FS_Subset, FS_SUBSET
  <1>2. \A S \in P : f[S] \in Int
    <2> TAKE S \in P
    <2>1. T \ S \in SUBSET D
      OBVIOUS
    <2>2. Cardinality(T \ S) \in Nat
      BY <2>1, FS_Subset, FS_CardinalityType
    <2>3. Sign(Cardinality(T \ S)) \in Int
      BY <2>2, SignFlips
    <2>4. Y[S] \in Int
      OBVIOUS
    <2> QED BY <2>3, <2>4
  <1>3. Contrast(X, Y, T) = Total(P, f)
    BY DEF Contrast
  <1> HIDE DEF f, P
  <1>4. Total(P, f) \in Int
    BY <1>1, <1>2, TotalTyped
  <1> QED BY <1>3, <1>4

\* One more toggle: the contrasts without it and with it.
SplitsAt(D, Y, X, i, T) ==
    /\ Contrast(X \cup {i}, Y, T) = Contrast(X, Y, T) + Contrast(X, WithOn(D, Y, i), T)
    /\ Contrast(X \cup {i}, Y, T \cup {i})
           = Contrast(X, WithOn(D, Y, i), T) - Contrast(X, Y, T)

LEMMA ContrastSplit ==
    ASSUME NEW D, IsFiniteSet(D), NEW Y \in [SUBSET D -> Int],
           NEW X \in SUBSET D, NEW i \in D \ X, NEW T \in SUBSET X
    PROVE  SplitsAt(D, Y, X, i, T)
  <1> DEFINE Q == SUBSET X
             f == [S \in SUBSET (X \cup {i}) |-> Sign(Cardinality(T \ S)) * Y[S]]
             g == [S \in SUBSET (X \cup {i}) |-> Sign(Cardinality((T \cup {i}) \ S)) * Y[S]]
             a == [S \in SUBSET X |-> Sign(Cardinality(T \ S)) * Y[S]]
             b == [S \in SUBSET X |-> Sign(Cardinality(T \ S)) * WithOn(D, Y, i)[S]]
             fi == Shifted(X, f, i)
             gi == Shifted(X, g, i)
  <1>1. /\ Contrast(X \cup {i}, Y, T) = Total(SUBSET (X \cup {i}), f)
        /\ Contrast(X \cup {i}, Y, T \cup {i}) = Total(SUBSET (X \cup {i}), g)
        /\ Contrast(X, Y, T) = Total(Q, a)
        /\ Contrast(X, WithOn(D, Y, i), T) = Total(Q, b)
    BY DEF Contrast
  <1>2. IsFiniteSet(X) /\ i \notin X /\ IsFiniteSet(Q)
    BY FS_Subset, FS_SUBSET
  <1>3. ASSUME NEW S \in SUBSET X
        PROVE  /\ a[S] \in Int /\ b[S] \in Int
               /\ f[S] = a[S] /\ f[S \cup {i}] = b[S]
               /\ g[S] = (-1) * a[S] /\ g[S \cup {i}] = b[S]
    <2> DEFINE n == Cardinality(T \ S)
    <2>1. T \ (S \cup {i}) = T \ S /\ (T \cup {i}) \ (S \cup {i}) = T \ S
          /\ (T \cup {i}) \ S = (T \ S) \cup {i} /\ i \notin T \ S
      OBVIOUS
    <2>2. IsFiniteSet(T \ S)
      <3>1. T \ S \in SUBSET D
        OBVIOUS
      <3> QED BY <3>1, FS_Subset
    <2>3. n \in Nat /\ Cardinality((T \ S) \cup {i}) = n + 1
      BY <2>1, <2>2, FS_CardinalityType, FS_AddElement
    <2>4. /\ S \in SUBSET (X \cup {i}) /\ S \cup {i} \in SUBSET (X \cup {i})
          /\ WithOn(D, Y, i)[S] = Y[S \cup {i}]
          /\ Y[S] \in Int /\ Y[S \cup {i}] \in Int
      BY DEF WithOn
    <2>5. /\ a[S] = Sign(n) * Y[S] /\ b[S] = Sign(n) * Y[S \cup {i}]
          /\ f[S] = Sign(n) * Y[S] /\ g[S] = Sign(n + 1) * Y[S]
      BY <2>1, <2>3, <2>4
    <2>6. /\ f[S \cup {i}] = Sign(n) * Y[S \cup {i}]
          /\ g[S \cup {i}] = Sign(n) * Y[S \cup {i}]
      BY <2>1, <2>4
    <2>7. Sign(n) \in {1, -1} /\ Sign(n + 1) = -Sign(n)
      BY <2>3, SignFlips
    <2> HIDE DEF n, a, b, f, g
    <2> QED BY <2>4, <2>5, <2>6, <2>7
  <1>4. IntsOn(SUBSET (X \cup {i}), f) /\ IntsOn(SUBSET (X \cup {i}), g)
    <2>1. \A S \in SUBSET (X \cup {i}) : f[S] \in Int /\ g[S] \in Int
      <3> HIDE DEF a, b, f, g
      <3> TAKE S \in SUBSET (X \cup {i})
      <3>1. i \in S => S = (S \ {i}) \cup {i} /\ S \ {i} \in SUBSET X
        OBVIOUS
      <3>2. i \notin S => S \in SUBSET X
        OBVIOUS
      <3>3. CASE i \in S
        <4>1. f[(S \ {i}) \cup {i}] \in Int /\ g[(S \ {i}) \cup {i}] \in Int
          BY <1>3, <3>1, <3>3
        <4> QED BY <3>1, <3>3, <4>1
      <3>4. CASE i \notin S
        <4>1. a[S] \in Int /\ f[S] = a[S] /\ g[S] = (-1) * a[S]
          BY <1>3, <3>2, <3>4
        <4> QED BY ONLY <4>1
      <3> QED BY <3>3, <3>4
    <2> QED BY <2>1 DEF IntsOn
  <1>5. \A S \in Q : fi[S] = f[S \cup {i}] /\ gi[S] = g[S \cup {i}]
    BY DEF Shifted
  <1>6. /\ Total(SUBSET (X \cup {i}), f) = Total(Q, f) + Total(Q, fi)
        /\ Total(SUBSET (X \cup {i}), g) = Total(Q, g) + Total(Q, gi)
    <2> HIDE DEF f, g
    <2> QED BY <1>2, <1>4, TotalSplit
  <1>7. \A S \in Q : /\ a[S] \in Int /\ b[S] \in Int
                     /\ f[S] = a[S] /\ fi[S] = b[S] /\ g[S] = (-1) * a[S] /\ gi[S] = b[S]
    <2> HIDE DEF a, b, f, g, fi, gi
    <2> QED BY <1>3, <1>5
  <1> HIDE DEF Q, a, b, f, g, fi, gi
  <1>8. Total(Q, f) = Total(Q, a) /\ Total(Q, fi) = Total(Q, b) /\ Total(Q, gi) = Total(Q, b)
    BY <1>7, TotalSame
  <1>9. Total(Q, g) = (-1) * Total(Q, a)
    <2>1. -1 \in Int /\ \A S \in Q : a[S] \in Int /\ g[S] = (-1) * a[S]
      BY <1>7
    <2> QED BY ONLY <1>2, <2>1, TotalTimes
  <1>10. Total(Q, a) \in Int /\ Total(Q, b) \in Int
    BY <1>2, <1>7, TotalTyped
  <1> QED BY <1>1, <1>6, <1>8, <1>9, <1>10 DEF SplitsAt


\* The contrasts give every value back, as often as there are cells.
LEMMA ContrastsInvert ==
    ASSUME NEW D, IsFiniteSet(D), NEW Y \in [SUBSET D -> Int]
    PROVE  \A S \in SUBSET D :
               Total(SUBSET D, [T \in SUBSET D |-> Sign(Cardinality(T \ S)) * Contrast(D, Y, T)])
                   = Cardinality(SUBSET D) * Y[S]
  <1> DEFINE Parts(X, Z, S) == [T \in SUBSET X |-> Sign(Cardinality(T \ S)) * Contrast(X, Z, T)]
             Back(X, Z, S) == Total(SUBSET X, Parts(X, Z, S))
             G(X) == \A Z \in [SUBSET D -> Int] : \A S \in SUBSET X :
                         Back(X, Z, S) = Cardinality(SUBSET X) * Z[S]
             GG == {X \in SUBSET D : G(X)}
  <1>1. {} \in GG
    <2> SUFFICES ASSUME NEW Z \in [SUBSET D -> Int]
                 PROVE  Back({}, Z, {}) = Cardinality(SUBSET {}) * Z[{}]
      OBVIOUS
    <2>1. /\ SUBSET {} = {{}} /\ IsFiniteSet({}) /\ Cardinality({}) = 0 /\ {} \ {} = {}
          /\ Z[{}] \in Int /\ Sign(0) = 1
      BY FS_EmptySet DEF Sign
    <2>2. Cardinality({{}}) = 1
      BY FS_Singleton
    <2> DEFINE f == [S \in SUBSET {} |-> Sign(Cardinality({} \ S)) * Z[S]]
               p == Parts({}, Z, {})
    <2>3. f[{}] = Z[{}]
      BY <2>1
    <2>4. Contrast({}, Z, {}) = Z[{}]
      <3>1. Contrast({}, Z, {}) = Total({{}}, f)
        BY <2>1 DEF Contrast
      <3> HIDE DEF f
      <3> QED BY <2>1, <2>3, <3>1, TotalOne
    <2>5. p[{}] = Z[{}]
      BY <2>1, <2>4
    <2>6. Back({}, Z, {}) = Total({{}}, p)
      BY <2>1
    <2> HIDE DEF p
    <2>7. Total({{}}, p) = Z[{}]
      BY <2>1, <2>5, TotalOne
    <2>8. Cardinality(SUBSET {}) = 1
      BY ONLY <2>1, <2>2, Zenon
    <2>9. Back({}, Z, {}) = Z[{}]
      BY ONLY <2>6, <2>7 DEF p
    <2>10. 1 * Z[{}] = Z[{}]
      BY <2>1
    <2> HIDE DEF Back
    <2> QED BY ONLY <2>8, <2>9, <2>10
  <1>2. ASSUME NEW X \in SUBSET D, NEW i \in D \ X, X \in GG
        PROVE  X \cup {i} \in GG
    <2>1. /\ X \cup {i} \in SUBSET D /\ IsFiniteSet(X) /\ IsFiniteSet(SUBSET X) /\ i \notin X
      BY FS_Subset, FS_SUBSET
    <2>2. /\ Cardinality(SUBSET X) \in Nat
          /\ Cardinality(SUBSET (X \cup {i})) = 2 * Cardinality(SUBSET X)
      BY <2>1, Doubled
    <2> SUFFICES ASSUME NEW Z \in [SUBSET D -> Int], NEW S \in SUBSET (X \cup {i})
                 PROVE  Back(X \cup {i}, Z, S) = Cardinality(SUBSET (X \cup {i})) * Z[S]
      BY <2>1
    <2> DEFINE Zi == WithOn(D, Z, i)
               W == IF i \in S THEN Zi ELSE Z
               R == S \ {i}
               Q == SUBSET X
               p == Parts(X \cup {i}, Z, S)
               h == Shifted(X, p, i)
               a == Parts(X, W, R)
               q == [T \in Q |-> p[T] + h[T]]
    <2>3. /\ Zi \in [SUBSET D -> Int] /\ W \in [SUBSET D -> Int] /\ R \in SUBSET X /\ W[R] = Z[S]
      <3>1. Zi \in [SUBSET D -> Int]
        BY DEF WithOn
      <3>2. R \in SUBSET X /\ (i \in S => S = R \cup {i}) /\ (i \notin S => S = R)
        OBVIOUS
      <3>3. Zi[R] = Z[R \cup {i}]
        BY <3>2 DEF WithOn
      <3> HIDE DEF Zi, R
      <3> QED BY <3>1, <3>2, <3>3
    <2>4. Total(Q, a) = Cardinality(SUBSET X) * Z[S]
      <3> HIDE DEF W, R
      <3>1. Back(X, W, R) = Cardinality(SUBSET X) * W[R]
        BY <1>2, <2>3
      <3> QED BY <2>3, <3>1
    <2>5. ASSUME NEW T \in SUBSET X
          PROVE  /\ p[T] \in Int /\ p[T \cup {i}] \in Int /\ a[T] \in Int
                 /\ p[T] + p[T \cup {i}] = 2 * a[T]
      <3> DEFINE n == Cardinality(T \ R)
                 c == Contrast(X, Z, T)
                 ci == Contrast(X, Zi, T)
      <3>1. IsFiniteSet(T \ R) /\ T \ S = T \ R
            /\ (i \in S => (T \cup {i}) \ S = T \ R)
            /\ (i \notin S => (T \cup {i}) \ S = (T \ R) \cup {i}) /\ i \notin T \ R
        <4>1. T \ R \in SUBSET D
          OBVIOUS
        <4> QED BY <4>1, FS_Subset
      <3> HIDE DEF R
      <3>2. n \in Nat /\ Cardinality((T \ R) \cup {i}) = n + 1
        BY <3>1, FS_CardinalityType, FS_AddElement
      <3>3. c \in Int /\ ci \in Int
        <4> HIDE DEF Zi
        <4> QED BY <2>3, ContrastTyped
      <3>4. /\ Contrast(X \cup {i}, Z, T) = c + ci
            /\ Contrast(X \cup {i}, Z, T \cup {i}) = ci - c
        <4>1. SplitsAt(D, Z, X, i, T)
          BY ONLY IsFiniteSet(D), Z \in [SUBSET D -> Int], X \in SUBSET D, i \in D \ X,
                  T \in SUBSET X, ContrastSplit, Zenon
        <4> QED BY <4>1 DEF SplitsAt
      <3>5. /\ p[T] = Sign(Cardinality(T \ S)) * Contrast(X \cup {i}, Z, T)
            /\ p[T \cup {i}] = Sign(Cardinality((T \cup {i}) \ S)) * Contrast(X \cup {i}, Z, T \cup {i})
            /\ a[T] = Sign(n) * Contrast(X, W, T)
        <4>1. T \in SUBSET (X \cup {i}) /\ T \cup {i} \in SUBSET (X \cup {i})
          OBVIOUS
        <4> QED BY <4>1
      <3>6. Contrast(X, W, T) = IF i \in S THEN ci ELSE c
        OBVIOUS
      <3>7. Sign(n) \in {1, -1} /\ Sign(n + 1) = -Sign(n)
        BY <3>2, SignFlips
      <3>8. /\ p[T] = Sign(n) * (c + ci)
            /\ p[T \cup {i}] = (IF i \in S THEN Sign(n) ELSE Sign(n + 1)) * (ci - c)
            /\ a[T] = Sign(n) * (IF i \in S THEN ci ELSE c)
        <4> HIDE DEF p, a, c, ci, n
        <4>1. Cardinality(T \ S) = n
          BY <3>1 DEF n
        <4>2. Cardinality((T \cup {i}) \ S) = IF i \in S THEN n ELSE n + 1
          BY <3>1, <3>2 DEF n
        <4> QED BY <3>4, <3>5, <3>6, <4>1, <4>2
      <3> HIDE DEF p, a, c, ci, n
      <3> QED BY <3>3, <3>7, <3>8
    <2>6. IntsOn(SUBSET (X \cup {i}), p)
      <3> SUFFICES ASSUME NEW T \in SUBSET (X \cup {i}) PROVE p[T] \in Int
        BY DEF IntsOn
      <3>1. i \in T => T = (T \ {i}) \cup {i} /\ T \ {i} \in SUBSET X
        OBVIOUS
      <3>2. i \notin T => T \in SUBSET X
        OBVIOUS
      <3> HIDE DEF p
      <3>3. CASE i \in T
        <4>1. p[(T \ {i}) \cup {i}] \in Int
          BY <2>5, <3>1, <3>3
        <4> QED BY <3>1, <3>3, <4>1
      <3>4. CASE i \notin T
        BY <2>5, <3>2, <3>4
      <3> QED BY <3>3, <3>4
    <2>7. Total(SUBSET (X \cup {i}), p) = Total(Q, p) + Total(Q, h)
      <3> HIDE DEF p
      <3> QED BY <2>1, <2>6, TotalSplit
    <2>8. \A T \in Q : /\ p[T] \in Int /\ h[T] \in Int /\ q[T] = p[T] + h[T]
                       /\ a[T] \in Int /\ q[T] = 2 * a[T]
      <3> TAKE T \in Q
      <3>1. h[T] = p[T \cup {i}]
        BY DEF Shifted
      <3> HIDE DEF p, a, h
      <3>2. q[T] = p[T] + h[T]
        OBVIOUS
      <3> QED BY <2>5, <3>1, <3>2
    <2>9. IsFiniteSet(Q)
      BY <2>1
    <2> HIDE DEF p, a, h, q, Q
    <2>10. Total(Q, q) = Total(Q, p) + Total(Q, h)
      <3>1. \A T \in Q : p[T] \in Int /\ h[T] \in Int /\ q[T] = p[T] + h[T]
        BY <2>8
      <3> QED BY ONLY <2>9, <3>1, TotalPlus
    <2>11. Total(Q, q) = 2 * Total(Q, a)
      <3>1. 2 \in Int /\ \A T \in Q : a[T] \in Int /\ q[T] = 2 * a[T]
        BY <2>8
      <3> QED BY ONLY <2>9, <3>1, TotalTimes
    <2>12. Z[S] \in Int
      OBVIOUS
    <2>13. 2 * (Cardinality(SUBSET X) * Z[S]) = (2 * Cardinality(SUBSET X)) * Z[S]
      BY <2>2, <2>12
    <2>14. Total(SUBSET (X \cup {i}), p) = Cardinality(SUBSET (X \cup {i})) * Z[S]
      BY ONLY <2>2, <2>4, <2>7, <2>10, <2>11, <2>13
    <2> QED BY <2>14 DEF p
  <1>3. D \in GG
    <2> HIDE DEF GG
    <2> QED BY <1>1, <1>2, GrowingSet
  <1> QED BY <1>3

-----------------------------------------------------------------------------
(* Averages of fractions.                                                  *)

Fractions == Int \X (Nat \ {0})

\* The sum of the fractions f over S, and their average.
Added(S, f) == FoldFunction(Plus, <<0, 1>>, [x \in S |-> f[x]])
Mean(S, f) == <<Added(S, f)[1], Added(S, f)[2] * Cardinality(S)>>

LEMMA AddedIsPart ==
    ASSUME NEW f, IsFiniteSet(DOMAIN f)
    PROVE  \E sum : /\ IsPart("fractions", f, DOMAIN f, sum)
                    /\ FoldFunction(Plus, <<0, 1>>, f) = sum[DOMAIN f]
  <1> DEFINE sum == CHOOSE s : IsPart("fractions", f, DOMAIN f, s)
  <1>1. FoldFunction(Plus, <<0, 1>>, f) = sum[DOMAIN f]
    BY DEF FoldFunction, FoldFunctionOnSet, MapThenFoldSet, IsPart, PartAt, AnyOf
  <1>2. IsPart("fractions", f, DOMAIN f, sum)
    BY PartExists
  <1> QED BY <1>1, <1>2

\* A set that adding keeps one in holds the sum.
LEMMA AddedIn ==
    ASSUME NEW S, IsFiniteSet(S), NEW f, NEW G, <<0, 1>> \in G,
           \A x \in S : \A y \in G : Plus(f[x], y) \in G
    PROVE  Added(S, f) \in G
  <1> DEFINE g == [x \in S |-> f[x]]
  <1>0. DOMAIN g = S /\ Added(S, f) = FoldFunction(Plus, <<0, 1>>, g)
    BY DEF Added
  <1>1. PICK sum : IsPart("fractions", g, S, sum) /\ Added(S, f) = sum[S]
    <2> HIDE DEF g
    <2> QED BY <1>0, AddedIsPart, Zenon
  <1> DEFINE H == {s \in SUBSET S : sum[s] \in G}
  <1>2. \A s \in SUBSET S : (\A x \in s : s \ {x} \in H) => s \in H
    <2> TAKE s \in SUBSET S
    <2> HAVE \A x \in s : s \ {x} \in H
    <2>1. s # {} => AnyOf(s) \in s /\ g[AnyOf(s)] = f[AnyOf(s)]
      BY DEF AnyOf
    <2>2. sum[s] = PartAt("fractions", g, s, sum)
      BY <1>1 DEF IsPart
    <2>3. sum[s] = IF s = {} THEN <<0, 1>> ELSE Plus(g[AnyOf(s)], sum[s \ {AnyOf(s)}])
      BY <2>2 DEF PartAt
    <2> HIDE DEF g
    <2> QED BY <2>1, <2>3
  <1>3. SUBSET S \subseteq H
    <2> HIDE DEF H
    <2> QED BY <1>2, FiniteInduction
  <1> QED BY <1>1, <1>3

LEMMA PlusTyped ==
    ASSUME NEW x \in Fractions, NEW y \in Fractions
    PROVE  Plus(x, y) \in Fractions
  <1>1. x[1] \in Int /\ y[1] \in Int /\ x[2] \in Nat \ {0} /\ y[2] \in Nat \ {0}
    BY DEF Fractions
  <1>2. x[2] * y[2] \in Nat \ {0} /\ (x[1] * y[2]) + (y[1] * x[2]) \in Int
    <2>1. \A m, n \in Nat \ {0} : m * n \in Nat \ {0}
      OBVIOUS
    <2> QED BY <1>1, <2>1
  <1> QED BY <1>2 DEF Plus, Fractions

LEMMA MeanTyped ==
    ASSUME NEW S, IsFiniteSet(S), S # {}, NEW f, \A x \in S : f[x] \in Fractions
    PROVE  Mean(S, f) \in Fractions
  <1>1. <<0, 1>> \in Fractions
    BY DEF Fractions
  <1>2. \A x \in S : \A y \in Fractions : Plus(f[x], y) \in Fractions
    BY PlusTyped
  <1>3. Added(S, f) \in Fractions
    BY <1>1, <1>2, AddedIn
  <1>4. Cardinality(S) \in Nat \ {0}
    BY FS_CardinalityType, FS_EmptySet
  <1>5. \A m, n \in Nat \ {0} : m * n \in Nat \ {0}
    OBVIOUS
  <1> QED BY <1>3, <1>4, <1>5 DEF Mean, Fractions

-----------------------------------------------------------------------------
(* What the engines report are fractions.                                  *)

\* Numbers in every row, and a rulebook with bounds that are numbers.
NumberPanel(p) ==
    /\ IsFiniteSet(DOMAIN p)
    /\ \A t \in DOMAIN p : \A b \in Bonds :
           p[t][b].score \in Int /\ p[t][b].size \in Int /\ p[t][b].ret \in Int
NumberTrim(rb) == rb.trim.lo \in Int /\ rb.trim.hi \in Int

LegsOf(rows) == \A x \in rows : x.long \in Fractions /\ x.short \in Fractions

LEMMA MonthTyped ==
    ASSUME NEW p, NumberPanel(p), NEW t
    PROVE  /\ Month(p, t, "score") \in [Bonds -> Int]
           /\ Month(p, t, "size") \in [Bonds -> Int]
           /\ Month(p, t, "ret") \in [Bonds -> Int]
  BY SortAssumption DEF Month, NumberPanel

LEMMA LegTyped ==
    ASSUME NEW S \in SUBSET Bonds, NEW weight \in [Bonds -> Int], NEW ret \in [Bonds -> Int],
           Leg(S, weight, ret) # NoLeg
    PROVE  Leg(S, weight, ret) \in Fractions
  <1> DEFINE earned == [b \in S |-> weight[b] * ret[b]]
  <1>1. IsFiniteSet(S)
    BY SortAssumption, FS_Subset
  <1>2. \A b \in S : weight[b] \in Int /\ earned[b] \in Int
    <2> TAKE b \in S
    <2>1. weight[b] \in Int /\ ret[b] \in Int
      OBVIOUS
    <2> QED BY <2>1
  <1>3. Total(S, weight) \in Int /\ Total(S, earned) \in Int
    <2> HIDE DEF earned
    <2> QED BY <1>1, <1>2, TotalTyped
  <1>4. /\ Sum(S, LAMBDA b : weight[b]) = Total(S, weight)
        /\ Sum(S, LAMBDA b : weight[b] * ret[b]) = Total(S, earned)
    BY DEF Sum, Total
  <1> DEFINE total == Sum(S, LAMBDA b : weight[b])
             sum == Sum(S, LAMBDA b : weight[b] * ret[b])
  <1>5. Leg(S, weight, ret) = IF S = {} \/ total <= 0 THEN NoLeg ELSE <<sum, total>>
    BY DEF Leg
  <1> HIDE DEF total, sum, earned
  <1>6. total \in Int /\ sum \in Int
    BY <1>3, <1>4 DEF total, sum
  <1> QED BY <1>5, <1>6 DEF Fractions

LEMMA WeightTyped ==
    ASSUME NEW rb, NEW size \in [Bonds -> Int]
    PROVE  Weight(rb, size) \in [Bonds -> Int]
  BY DEF Weight

LEMMA ClipTyped ==
    ASSUME NEW r \in Int, NEW trim, trim.lo \in Int, trim.hi \in Int
    PROVE  Clip(r, trim) \in Int
  BY DEF Clip

LEMMA NextReturnTyped ==
    ASSUME NEW p, NumberPanel(p), NEW rb, NumberTrim(rb), NEW t
    PROVE  NextReturn(p, rb, t) \in [Bonds -> Int]
  <1>1. \A b \in Bonds : Month(p, t + 1, "ret")[b] \in Int
    BY MonthTyped
  <1>2. \A b \in Bonds : Clip(Month(p, t + 1, "ret")[b], rb.trim) \in Int
    BY <1>1, ClipTyped DEF NumberTrim
  <1> QED BY <1>1, <1>2 DEF NextReturn

LEMMA TrimmedReturnTyped ==
    ASSUME NEW rb, NumberTrim(rb), rb.trim.method \in {"none", "truncate", "winsorise"}, NEW r \in Int
    PROVE  TrimmedReturn(rb, r) \in Int
  BY ClipTyped, SortAssumption DEF TrimmedReturn, NumberTrim

LEMMA MeanRowTyped ==
    ASSUME NEW month, NEW legs, IsFiniteSet(legs), LegsOf(legs)
    PROVE  LegsOf(MeanRow(month, legs)) /\ IsFiniteSet(MeanRow(month, legs))
  <1>1. CASE legs = {}
    <2>1. MeanRow(month, legs) = {}
      BY <1>1 DEF MeanRow
    <2> QED BY <2>1, FS_EmptySet DEF LegsOf
  <1>2. CASE legs # {}
    <2> DEFINE long == [x \in legs |-> x.long]
               short == [x \in legs |-> x.short]
               row == [date |-> month, long |-> Mean(legs, long), short |-> Mean(legs, short),
                       bonds |-> Sum(legs, LAMBDA x : x.bonds)]
    <2>1. \A x \in legs : long[x] \in Fractions /\ short[x] \in Fractions
      BY DEF LegsOf
    <2>2. Mean(legs, long) \in Fractions /\ Mean(legs, short) \in Fractions
      <3> HIDE DEF long, short
      <3> QED BY <1>2, <2>1, MeanTyped
    <2>3. /\ Average(legs, LAMBDA x : x.long) = Mean(legs, long)
          /\ Average(legs, LAMBDA x : x.short) = Mean(legs, short)
      BY DEF Average, Mean, Added
    <2>4. MeanRow(month, legs) = {row}
      BY <1>2, <2>3 DEF MeanRow
    <2>5. row.long \in Fractions /\ row.short \in Fractions
      BY <2>2
    <2> HIDE DEF row
    <2>6. IsFiniteSet({row})
      BY FS_Singleton
    <2> QED BY <2>4, <2>5, <2>6 DEF LegsOf
  <1> QED BY <1>1, <1>2

LEMMA UniverseBonds ==
    ASSUME NEW p, NEW rb, NEW t
    PROVE  Universe(p, rb, t) \in SUBSET Bonds
  BY DEF Universe, Trimmed, Eligible

LEMMA StripeLegsTyped ==
    ASSUME NEW S \in SUBSET Bonds, NEW score, NEW stripe, NEW weight \in [Bonds -> Int],
           NEW next \in [Bonds -> Int], NEW rb
    PROVE  LegsOf(StripeLegs(S, score, stripe, weight, next, rb))
           /\ IsFiniteSet(StripeLegs(S, score, stripe, weight, next, rb))
  <1> DEFINE Side(s, g) == {b \in S : stripe[b] = s /\ score[b] = g}
             Of(s) == [long |-> Leg(Side(s, rb.long), weight, next),
                       short |-> Leg(Side(s, rb.short), weight, next),
                       stripe |-> s,
                       bonds |-> Cardinality(Side(s, rb.long) \cup Side(s, rb.short))]
             E == {stripe[b] : b \in S}
             of == [s \in E |-> Of(s)]
             All == {of[s] : s \in E}
  <1>1. StripeLegs(S, score, stripe, weight, next, rb)
            = {leg \in All : NoLeg \notin {leg.long, leg.short}}
    BY DEF StripeLegs
  <1>2. IsFiniteSet(S)
    BY SortAssumption, FS_Subset
  <1>3. IsFiniteSet(E)
    BY <1>2, ImageFinite
  <1>4. IsFiniteSet(All)
    <2> HIDE DEF of, E
    <2> QED BY <1>3, ImageFinite
  <1>5. ASSUME NEW s \in E, Of(s).long # NoLeg, Of(s).short # NoLeg
        PROVE  Of(s).long \in Fractions /\ Of(s).short \in Fractions
    <2> DEFINE L == Side(s, rb.long)
               R == Side(s, rb.short)
    <2>1. L \in SUBSET Bonds /\ R \in SUBSET Bonds
      OBVIOUS
    <2>2. Of(s).long = Leg(L, weight, next) /\ Of(s).short = Leg(R, weight, next)
      OBVIOUS
    <2> HIDE DEF L, R
    <2> QED BY ONLY <1>5, <2>1, <2>2, LegTyped, weight \in [Bonds -> Int], next \in [Bonds -> Int]
  <1>6. \A s \in E : of[s] = Of(s)
    OBVIOUS
  <1> HIDE DEF of, Of, E
  <1>7. \A leg \in All : NoLeg \notin {leg.long, leg.short} => leg.long \in Fractions /\ leg.short \in Fractions
    BY <1>5, <1>6
  <1>8. IsFiniteSet({leg \in All : NoLeg \notin {leg.long, leg.short}})
    BY <1>4, FS_Subset
  <1> HIDE DEF All
  <1> QED BY <1>1, <1>7, <1>8 DEF LegsOf

LEMMA MonthStepTyped ==
    ASSUME NEW p, NumberPanel(p), NEW rb, NumberTrim(rb), NEW t
    PROVE  LegsOf(MonthStep(p, rb, t)) /\ IsFiniteSet(MonthStep(p, rb, t))
  <1> DEFINE S == Universe(p, rb, t)
             weight == Weight(rb, Month(p, t, "size"))
             next == NextReturn(p, rb, t)
             legs == StripeLegs(S, ScoreGroups(p, rb, t, S), Stripes(p, rb, t, S), weight, next, rb)
  <1>1. S \in SUBSET Bonds /\ weight \in [Bonds -> Int] /\ next \in [Bonds -> Int]
    BY UniverseBonds, MonthTyped, WeightTyped, NextReturnTyped
  <1>2. MonthStep(p, rb, t) = MeanRow(t + 1, legs)
    BY DEF MonthStep
  <1>3. LegsOf(legs) /\ IsFiniteSet(legs)
    <2> HIDE DEF S, weight, next
    <2> QED BY <1>1, StripeLegsTyped
  <1> HIDE DEF legs
  <1> QED BY <1>2, <1>3, MeanRowTyped

\* Rows of many months.
LEMMA RowsTyped ==
    ASSUME NEW months, IsFiniteSet(months), NEW rows,
           \A m \in months : LegsOf(rows[m]) /\ IsFiniteSet(rows[m])
    PROVE  LegsOf(UNION {rows[m] : m \in months}) /\ IsFiniteSet(UNION {rows[m] : m \in months})
  <1>1. IsFiniteSet({rows[m] : m \in months})
    BY ImageFinite
  <1>2. IsFiniteSet(UNION {rows[m] : m \in months})
    BY <1>1, FS_UNION
  <1> QED BY <1>2 DEF LegsOf

\* A finite set of integers has a largest and a smallest member.
LEMMA Extremes ==
    ASSUME NEW S \in SUBSET Int, IsFiniteSet(S), S # {}
    PROVE  (\E x \in S : \A y \in S : x >= y) /\ (\E x \in S : \A y \in S : x <= y)
  <1> DEFINE Good(X) == X # {} => /\ \E x \in X : \A y \in X : x >= y
                                  /\ \E x \in X : \A y \in X : x <= y
             G == {X \in SUBSET S : Good(X)}
  <1>1. {} \in G
    OBVIOUS
  <1>2. ASSUME NEW X \in SUBSET S, NEW z \in S \ X, X \in G
        PROVE  X \cup {z} \in G
    <2>1. CASE X = {}
      BY <2>1
    <2>2. CASE X # {}
      <3>1. PICK x \in X : \A y \in X : x >= y
        BY <1>2, <2>2
      <3>2. PICK w \in X : \A y \in X : w <= y
        BY <1>2, <2>2
      <3>3. \A y \in X : (IF z >= x THEN z ELSE x) >= y
        BY <3>1
      <3>4. \A y \in X : (IF z <= w THEN z ELSE w) <= y
        BY <3>2
      <3>5. \E m \in X \cup {z} : \A y \in X \cup {z} : m >= y
        BY <3>3
      <3>6. \E m \in X \cup {z} : \A y \in X \cup {z} : m <= y
        BY <3>4
      <3> QED BY <3>5, <3>6
    <2> QED BY <2>1, <2>2
  <1> HIDE DEF G
  <1>3. S \in G
    BY <1>1, <1>2, GrowingSet
  <1> QED BY <1>3 DEF G

LEMMA MaxOf ==
    ASSUME NEW S \in SUBSET Int, IsFiniteSet(S), S # {}
    PROVE  Sets!Max(S) \in S /\ \A y \in S : y <= Sets!Max(S)
  <1>1. \E x \in S : \A y \in S : x >= y
    BY Extremes
  <1>2. Sets!Max(S) \in S /\ \A y \in S : Sets!Max(S) >= y
    BY <1>1 DEF Sets!Max
  <1> QED BY <1>2

\* The eligible next returns of all months, in place of their observations.
Observed(p, rb) == {o \in (DOMAIN p) \X Bonds : o[2] \in Eligible(p, rb, o[1])}
Earning(p, o) == Month(p, o[1] + 1, "ret")[o[2]]
Lowest(p, rb, rank) ==
    {Earning(p, o) : o \in {x \in Observed(p, rb) :
        Cardinality({y \in Observed(p, rb) : Earning(p, y) < Earning(p, x)}) <= rank}}
RankOf(p, rb, level) == (level * (Cardinality(Observed(p, rb)) - 1)) \div 100

LEMMA ObservedTyped ==
    ASSUME NEW p, NumberPanel(p), NEW rb
    PROVE  /\ IsFiniteSet(Observed(p, rb))
           /\ \A o \in Observed(p, rb) : Earning(p, o) \in Int \ {NaN}
  <1>1. IsFiniteSet((DOMAIN p) \X Bonds)
    BY SortAssumption, FS_Product DEF NumberPanel
  <1>2. IsFiniteSet(Observed(p, rb))
    BY <1>1, FS_Subset DEF Observed
  <1>3. ASSUME NEW o \in Observed(p, rb)
        PROVE  Earning(p, o) \in Int \ {NaN}
    <2>1. o[2] \in Bonds /\ o[2] \in Eligible(p, rb, o[1])
      BY DEF Observed
    <2>2. Month(p, o[1] + 1, "ret")[o[2]] # NaN
      BY <2>1 DEF Eligible
    <2>3. Month(p, o[1] + 1, "ret")[o[2]] \in Int
      BY <2>1, MonthTyped
    <2> QED BY <2>2, <2>3 DEF Earning
  <1> QED BY <1>2, <1>3

LEMMA LowestTyped ==
    ASSUME NEW p, NumberPanel(p), NEW rb, Observed(p, rb) # {}, NEW rank \in Nat
    PROVE  /\ Lowest(p, rb, rank) \in SUBSET (Int \ {NaN}) /\ Lowest(p, rb, rank) # {}
           /\ IsFiniteSet(Lowest(p, rb, rank))
  <1> DEFINE O == Observed(p, rb)
             earned == [o \in O |-> Earning(p, o)]
             All == {earned[o] : o \in O}
  <1>1. IsFiniteSet(O) /\ \A o \in O : earned[o] = Earning(p, o) /\ earned[o] \in Int \ {NaN}
    BY ObservedTyped
  <1>2. IsFiniteSet(All) /\ All \in SUBSET (Int \ {NaN}) /\ All # {}
    <2> HIDE DEF earned
    <2>1. IsFiniteSet(All)
      BY <1>1, ImageFinite
    <2> QED BY <1>1, <2>1
  <1>3. Lowest(p, rb, rank) \in SUBSET All
    BY <1>1 DEF Lowest
  <1>4. PICK r \in All : \A y \in All : r <= y
    <2> HIDE DEF All
    <2> QED BY <1>2, Extremes
  <1>5. PICK o \in O : earned[o] = r
    BY <1>4
  <1> DEFINE Less == {y \in O : Earning(p, y) < Earning(p, o)}
  <1>6. Less = {}
    <2> SUFFICES ASSUME NEW y \in O, Earning(p, y) < Earning(p, o) PROVE FALSE
      OBVIOUS
    <2>1. earned[y] \in All /\ earned[y] = Earning(p, y) /\ earned[o] = Earning(p, o)
          /\ earned[y] \in Int /\ earned[o] \in Int
      BY <1>1
    <2> HIDE DEF earned, All
    <2> QED BY <1>4, <1>5, <2>1
  <1>7. Cardinality(Less) <= rank
    BY <1>6, FS_EmptySet
  <1>8. Earning(p, o) \in Lowest(p, rb, rank)
    BY <1>7 DEF Lowest
  <1> QED BY <1>2, <1>3, <1>8, FS_Subset

LEMMA RankTyped ==
    ASSUME NEW p, NumberPanel(p), NEW rb, Observed(p, rb) # {}, NEW level \in 1 .. 99
    PROVE  /\ RankOf(p, rb, level) \in Nat
           /\ \A higher \in 1 .. 99 : level <= higher => RankOf(p, rb, level) <= RankOf(p, rb, higher)
  <1> DEFINE n == Cardinality(Observed(p, rb)) - 1
  <1>1. n \in Nat
    BY ObservedTyped, FS_CardinalityType, FS_EmptySet
  <1>2. \A l \in 1 .. 99 : RankOf(p, rb, l) = (l * n) \div 100
    BY DEF RankOf
  <1> HIDE DEF n
  <1>3. \A l \in 1 .. 99 : l * n \in Nat
    BY <1>1
  <1>4. \A x, y \in Nat : x <= y => x \div 100 \in Nat /\ x \div 100 <= y \div 100
    OBVIOUS
  <1>5. \A l \in 1 .. 99 : level <= l => level * n <= l * n
    BY <1>1
  <1> QED BY <1>2, <1>3, <1>4, <1>5

LEMMA QuantileTyped ==
    ASSUME NEW p, NumberPanel(p), NEW rb, Observed(p, rb) # {}, NEW level \in 1 .. 99
    PROVE  /\ Quantile(p, rb, level) \in Int \ {NaN}
           /\ \A higher \in 1 .. 99 :
                  level <= higher => Quantile(p, rb, level) <= Quantile(p, rb, higher)
  <1>1. \A l \in 1 .. 99 : Quantile(p, rb, l) = Sets!Max(Lowest(p, rb, RankOf(p, rb, l)))
    BY DEF Quantile, Lowest, RankOf, Observed, Earning
  <1>2. \A l \in 1 .. 99 : RankOf(p, rb, l) \in Nat
    BY RankTyped
  <1>3. \A l \in 1 .. 99 : /\ Quantile(p, rb, l) \in Lowest(p, rb, RankOf(p, rb, l))
                           /\ \A y \in Lowest(p, rb, RankOf(p, rb, l)) : y <= Quantile(p, rb, l)
                           /\ Lowest(p, rb, RankOf(p, rb, l)) \in SUBSET (Int \ {NaN})
    BY <1>1, <1>2, LowestTyped, MaxOf
  <1>4. ASSUME NEW higher \in 1 .. 99, level <= higher
        PROVE  Quantile(p, rb, level) <= Quantile(p, rb, higher)
    <2>1. RankOf(p, rb, level) <= RankOf(p, rb, higher)
      BY <1>4, RankTyped
    <2>2. \A x \in Observed(p, rb) :
              Cardinality({y \in Observed(p, rb) : Earning(p, y) < Earning(p, x)}) \in Nat
      BY ObservedTyped, FS_Subset, FS_CardinalityType
    <2>3. Lowest(p, rb, RankOf(p, rb, level)) \subseteq Lowest(p, rb, RankOf(p, rb, higher))
      BY <1>2, <2>1, <2>2 DEF Lowest
    <2> QED BY <1>3, <2>3
  <1> QED BY <1>3, <1>4

\* A bound, if there is one, and the bounds in order.
Ordered(trim) == trim.lo # NaN /\ trim.hi # NaN => trim.lo <= trim.hi

\* A resolved rule has numbers for bounds; all else is as it was.
LEMMA ResolveTyped ==
    ASSUME NEW p, NumberPanel(p), NEW rb \in ValidRulebooks
    PROVE  /\ \A f \in DOMAIN rb : f # "trim" => Resolve(p, rb)[f] = rb[f]
           /\ NumberTrim(Resolve(p, rb))
           /\ Resolve(p, rb).trim.method \in {"none", rb.trim.method}
           /\ Ordered(rb.trim) => Ordered(Resolve(p, rb).trim)
  <1> DEFINE Level(l) == IF l = NaN THEN NaN ELSE Quantile(p, rb, l)
             off == [rb EXCEPT !.trim.method = "none"]
             cut == [rb EXCEPT !.trim.type = "absolute", !.trim.lo = Level(@), !.trim.hi = Level(@)]
  <1>1. /\ rb \in [groups : Nat \ {0, 1}, long : Nat, short : Nat,
                    weighting : {"by_size", "equal"}, lag : Nat, minBonds : Nat \ {0},
                    control : STRING, controlGroups : Nat \ {0, 1}, trim : TrimRules]
        /\ rb.trim \in [method : {"none", "truncate", "winsorise"},
                         type : {"absolute", "percentile"}, lo : Int, hi : Int]
        /\ rb.trim.type = "percentile" => {rb.trim.lo, rb.trim.hi} \subseteq (1 .. 99) \cup {NaN}
    BY DEF ValidRulebooks, TrimRules
  <1>2. CASE Resolve(p, rb) = rb
    <2>1. NumberTrim(rb)
      BY <1>1 DEF NumberTrim
    <2> QED BY <1>2, <2>1
  <1>3. CASE Resolve(p, rb) = off
    <2>1. /\ off.trim.lo = rb.trim.lo /\ off.trim.hi = rb.trim.hi /\ off.trim.method = "none"
          /\ \A f \in DOMAIN rb : f # "trim" => off[f] = rb[f]
      BY <1>1
    <2> HIDE DEF off
    <2> QED BY <1>1, <1>3, <2>1 DEF NumberTrim, Ordered
  <1>4. ASSUME Resolve(p, rb) = cut, rb.trim.type = "percentile", Observed(p, rb) # {}
        PROVE  /\ NumberTrim(cut) /\ cut.trim.method = rb.trim.method
               /\ \A f \in DOMAIN rb : f # "trim" => cut[f] = rb[f]
               /\ Ordered(rb.trim) => Ordered(cut.trim)
    <2>1. /\ cut.trim.lo = Level(rb.trim.lo) /\ cut.trim.hi = Level(rb.trim.hi)
          /\ cut.trim.method = rb.trim.method
          /\ \A f \in DOMAIN rb : f # "trim" => cut[f] = rb[f]
      <3> HIDE DEF Level
      <3> QED BY <1>1
    <2>3. \A l \in (1 .. 99) \cup {NaN} : Level(l) \in Int /\ (l # NaN => Level(l) # NaN)
      BY <1>4, QuantileTyped, SortAssumption
    <2>4. \A l, h \in (1 .. 99) \cup {NaN} : l # NaN /\ h # NaN /\ l <= h => Level(l) <= Level(h)
      BY <1>4, QuantileTyped
    <2>5. Level(NaN) = NaN
      OBVIOUS
    <2> HIDE DEF cut, Level
    <2>6. rb.trim.lo \in (1 .. 99) \cup {NaN} /\ rb.trim.hi \in (1 .. 99) \cup {NaN}
      BY <1>1, <1>4
    <2>7. NumberTrim(cut)
      BY <2>1, <2>3, <2>6 DEF NumberTrim
    <2>8. ASSUME Ordered(rb.trim)
          PROVE  Ordered(cut.trim)
      <3>1. (rb.trim.lo # NaN /\ rb.trim.hi # NaN) \/ cut.trim.lo = NaN \/ cut.trim.hi = NaN
        BY <2>1, <2>5
      <3>2. rb.trim.lo # NaN /\ rb.trim.hi # NaN => cut.trim.lo <= cut.trim.hi
        BY <2>1, <2>4, <2>6, <2>8 DEF Ordered
      <3> QED BY <3>1, <3>2 DEF Ordered
    <2> QED BY <2>1, <2>7, <2>8
  <1>5. \/ Resolve(p, rb) = rb \/ Resolve(p, rb) = off
        \/ /\ Resolve(p, rb) = cut /\ rb.trim.type = "percentile"
           /\ \E t \in DOMAIN p : Eligible(p, rb, t) # {}
    BY <1>1 DEF Resolve
  <1>6. (\E t \in DOMAIN p : Eligible(p, rb, t) # {}) => Observed(p, rb) # {}
    <2> SUFFICES ASSUME NEW t \in DOMAIN p, NEW b \in Eligible(p, rb, t)
                 PROVE  Observed(p, rb) # {}
      OBVIOUS
    <2>1. b \in Bonds
      BY DEF Eligible
    <2>2. <<t, b>> \in Observed(p, rb)
      BY <2>1 DEF Observed
    <2> QED BY <2>2
  <1> QED BY <1>2, <1>3, <1>4, <1>5, <1>6

LEMMA SortTyped ==
    ASSUME NEW p, NumberPanel(p), NEW rb \in ValidRulebooks
    PROVE  LegsOf(RunCharacteristicSort(p, rb)) /\ IsFiniteSet(RunCharacteristicSort(p, rb))
  <1> DEFINE resolved == Resolve(p, rb)
             rows == [t \in DOMAIN p |-> MonthStep(p, resolved, t)]
  <1>1. RunCharacteristicSort(p, rb) = UNION {rows[t] : t \in DOMAIN p}
    BY DEF RunCharacteristicSort
  <1>2. NumberTrim(resolved)
    BY ResolveTyped
  <1>3. \A t \in DOMAIN p : LegsOf(rows[t]) /\ IsFiniteSet(rows[t])
    <2> HIDE DEF resolved
    <2> QED BY <1>2, MonthStepTyped
  <1> HIDE DEF rows
  <1> QED BY <1>1, <1>3, RowsTyped DEF NumberPanel

LEMMA SelectionBonds ==
    ASSUME NEW p, NEW rb, NEW t
    PROVE  Selection(p, rb, t).long \in SUBSET Bonds /\ Selection(p, rb, t).short \in SUBSET Bonds
  <1> DEFINE score == ScoreGroups(p, rb, t, Universe(p, rb, t))
  <1>1. DOMAIN score = Universe(p, rb, t)
    BY DEF ScoreGroups, Group
  <1>2. /\ Selection(p, rb, t).long = {b \in DOMAIN score : score[b] = rb.long}
        /\ Selection(p, rb, t).short = {b \in DOMAIN score : score[b] = rb.short}
    BY DEF Selection
  <1> QED BY <1>1, <1>2, UniverseBonds

LEMMA LegReturnTyped ==
    ASSUME NEW p, NumberPanel(p), NEW rb, NumberTrim(rb),
           rb.trim.method \in {"none", "truncate", "winsorise"},
           NEW t, NEW m, NEW leg \in SUBSET Bonds, LegReturnAt(p, rb, t, leg, m) # NoLeg
    PROVE  LegReturnAt(p, rb, t, leg, m) \in Fractions
  <1> DEFINE S == Survivors(p, rb, leg, m)
             weight == Weight(rb, Month(p, t, "size"))
             ret == [b \in Bonds |-> TrimmedReturn(rb, Month(p, m, "ret")[b])]
  <1>1. LegReturnAt(p, rb, t, leg, m) = Leg(S, weight, ret)
    BY DEF LegReturnAt
  <1>2. S \in SUBSET Bonds
    BY DEF Survivors
  <1>3. weight \in [Bonds -> Int]
    BY MonthTyped, WeightTyped
  <1>4. ret \in [Bonds -> Int]
    <2>1. \A b \in Bonds : Month(p, m, "ret")[b] \in Int
      BY MonthTyped
    <2> QED BY <2>1, TrimmedReturnTyped
  <1> HIDE DEF S, weight, ret
  <1> QED BY <1>1, <1>2, <1>3, <1>4, LegTyped

LEMMA ContributionTyped ==
    ASSUME NEW p, NumberPanel(p), NEW rb, NumberTrim(rb),
           rb.trim.method \in {"none", "truncate", "winsorise"}, NEW t, NEW m
    PROVE  LegsOf(Contribution(p, rb, t, m)) /\ IsFiniteSet(Contribution(p, rb, t, m))
  <1> DEFINE Held1(sel) == [from |-> t, long |-> LegReturnAt(p, rb, t, sel.long, m),
                            short |-> LegReturnAt(p, rb, t, sel.short, m),
                            bonds |-> Cardinality(Survivors(p, rb, sel.long \cup sel.short, m))]
             sel == Selection(p, rb, t)
             Kept == {x \in {sel} : Forms(x) /\ NoLeg \notin {Held1(x).long, Held1(x).short}}
  <1>1. Contribution(p, rb, t, m) = {Held1(x) : x \in Kept}
    BY DEF Contribution
  <1>2. \A x \in Kept : Held1(x).long \in Fractions /\ Held1(x).short \in Fractions
    <2> HIDE DEF sel
    <2> TAKE x \in Kept
    <2>1. x = sel /\ Held1(x).long # NoLeg /\ Held1(x).short # NoLeg
      OBVIOUS
    <2>2. Held1(x).long = LegReturnAt(p, rb, t, x.long, m)
          /\ Held1(x).short = LegReturnAt(p, rb, t, x.short, m)
      OBVIOUS
    <2>3. x.long \in SUBSET Bonds /\ x.short \in SUBSET Bonds
      BY <2>1, SelectionBonds DEF sel
    <2> HIDE DEF Held1, Kept
    <2> QED BY <2>1, <2>2, <2>3, LegReturnTyped
  <1> HIDE DEF sel, Held1
  <1>3. IsFiniteSet({Held1(x) : x \in Kept})
    <2>1. {Held1(x) : x \in Kept} \in SUBSET {Held1(sel)}
      OBVIOUS
    <2>2. IsFiniteSet({Held1(sel)})
      BY FS_Singleton
    <2> QED BY <2>1, <2>2, FS_Subset
  <1> HIDE DEF Kept
  <1> QED BY <1>1, <1>2, <1>3 DEF LegsOf

LEMMA HeldTyped ==
    ASSUME NEW p, NumberPanel(p), DOMAIN p \in SUBSET Int, NEW rb \in ValidRulebooks
    PROVE  LegsOf(RunWithHoldingPeriod(p, rb)) /\ IsFiniteSet(RunWithHoldingPeriod(p, rb))
  <1>1. CASE rb.control # "none"
    <2>1. RunWithHoldingPeriod(p, rb) = {}
      BY <1>1 DEF RunWithHoldingPeriod
    <2> QED BY <2>1, FS_EmptySet DEF LegsOf
  <1>2. CASE rb.control = "none"
    <2> DEFINE resolved == Resolve(p, rb)
               rows == [m \in DOMAIN p |-> MeanRow(m, Contributions(p, resolved, m))]
    <2>1. RunWithHoldingPeriod(p, rb) = UNION {rows[m] : m \in DOMAIN p}
      BY <1>2 DEF RunWithHoldingPeriod
    <2>2. NumberTrim(resolved) /\ resolved.trim.method \in {"none", "truncate", "winsorise"}
      <3>1. rb.trim.method \in {"none", "truncate", "winsorise"}
        BY DEF ValidRulebooks, TrimRules
      <3> QED BY <3>1, ResolveTyped
    <2> HIDE DEF resolved
    <2>3. ASSUME NEW m \in DOMAIN p
          PROVE  LegsOf(Contributions(p, resolved, m)) /\ IsFiniteSet(Contributions(p, resolved, m))
      <3> DEFINE of == [t \in Cohorts(m) |-> Contribution(p, resolved, t, m)]
      <3>1. Contributions(p, resolved, m) = UNION {of[t] : t \in Cohorts(m)}
        BY DEF Contributions
      <3>2. IsFiniteSet(Cohorts(m))
        <4>1. m \in Int
          OBVIOUS
        <4>2. Cohorts(m) \in SUBSET (1 .. m - 1) /\ IsFiniteSet(1 .. m - 1)
          BY <4>1, FS_Interval DEF Cohorts
        <4> QED BY <4>2, FS_Subset
      <3>3. \A t \in Cohorts(m) : LegsOf(of[t]) /\ IsFiniteSet(of[t])
        BY <2>2, ContributionTyped
      <3> HIDE DEF of
      <3>4. LegsOf(UNION {of[t] : t \in Cohorts(m)}) /\ IsFiniteSet(UNION {of[t] : t \in Cohorts(m)})
        BY ONLY <3>2, <3>3, RowsTyped
      <3> QED BY <3>1, <3>4
    <2>4. \A m \in DOMAIN p : LegsOf(rows[m]) /\ IsFiniteSet(rows[m])
      BY <2>3, MeanRowTyped
    <2> HIDE DEF rows
    <2> QED BY <2>1, <2>4, RowsTyped DEF NumberPanel
  <1> QED BY <1>1, <1>2

-----------------------------------------------------------------------------
(* The metrics of a lattice are integers.                                  *)

LEMMA ViewTyped ==
    ASSUME NEW p \in Seq([Bonds -> AnyRow]), NEW rc
    PROVE  NumberPanel(View(p, rc)) /\ DOMAIN View(p, rc) = 1 .. Len(p)
  <1>1. IsFiniteSet(1 .. Len(p)) /\ DOMAIN p = 1 .. Len(p)
    BY FS_Interval
  <1>2. \A t \in 1 .. Len(p) : \A b \in Bonds :
            \A x \in {p[t][b], p[t][b].published} : x.score \in Int /\ x.ret \in Int
    <2> TAKE t \in 1 .. Len(p)
    <2> TAKE b \in Bonds
    <2>1. PICK c \in Bonds : p[t][b] \in Cells[c]
      BY DEF AnyRow
    <2>2. p[t][b].score \in Int /\ p[t][b].ret \in Int
      BY <2>1, SortAssumption
    <2>3. p[t][b].published.score \in Int /\ p[t][b].published.ret \in Int
      BY <2>1, AuditAssumption
    <2> QED BY <2>2, <2>3
  <1>3. \A t \in 1 .. Len(p) : \A b \in Bonds : p[t][b].size \in Int
    <2> TAKE t \in 1 .. Len(p)
    <2> TAKE b \in Bonds
    <2>1. PICK c \in Bonds : p[t][b] \in Cells[c]
      BY DEF AnyRow
    <2> QED BY <2>1, SortAssumption
  <1>4. NoRow.score \in Int /\ NoRow.size \in Int /\ NoRow.ret \in Int
    BY SortAssumption DEF NoRow
  <1> DEFINE Stale(t, b) == t \in DOMAIN p /\ OfFamily(p[t][b], rc).stale
             Masked(t, b) == rc.stale_mask /\ (Stale(t, b) \/ Stale(t - 1, b))
             Row(t, b) == [score |-> OfFamily(p[t][b], rc).score,
                           size |-> p[t][b].size,
                           ret |-> IF Masked(t, b) THEN NaN ELSE OfFamily(p[t][b], rc).ret]
  <1>5. View(p, rc) = [t \in DOMAIN p |-> [b \in Bonds |->
                          IF p[t][b].distress /\ ~rc.include_terminal_rows THEN NoRow ELSE Row(t, b)]]
    BY DEF View
  <1> HIDE DEF Masked
  <1>6. \A t \in 1 .. Len(p) : \A b \in Bonds :
            Row(t, b).score \in Int /\ Row(t, b).size \in Int /\ Row(t, b).ret \in Int
    BY <1>2, <1>3, SortAssumption DEF OfFamily
  <1> HIDE DEF Row
  <1> QED BY <1>1, <1>4, <1>5, <1>6 DEF NumberPanel

LEMMA OverrideTyped ==
    ASSUME NEW rb \in ValidRulebooks, NEW on, NEW offTrim \in TrimRules
    PROVE  OverrideConstruction(rb, BuildRunConfig(on), offTrim) \in ValidRulebooks
  <1> DEFINE rc == BuildRunConfig(on)
             trim == IF rc.expost_trim = "none" THEN [rb.trim EXCEPT !.method = "none"]
                     ELSE IF offTrim.method # "none" THEN offTrim ELSE rb.trim
  <1>1. rc.signal_lag \in Nat
    BY AuditAssumption DEF BuildRunConfig
  <1>2. rb.trim \in TrimRules
    BY DEF ValidRulebooks
  <1>3. [rb.trim EXCEPT !.method = "none"] \in TrimRules
    BY <1>2 DEF TrimRules
  <1> HIDE DEF rc
  <1>4. trim \in TrimRules
    BY <1>2, <1>3
  <1>5. OverrideConstruction(rb, rc, offTrim) = [rb EXCEPT !.lag = rc.signal_lag, !.trim = trim]
    BY DEF ValidRulebooks, OverrideConstruction
  <1> HIDE DEF trim
  <1>6. [rb EXCEPT !.lag = rc.signal_lag, !.trim = trim] \in ValidRulebooks
    BY <1>1, <1>4 DEF ValidRulebooks
  <1> QED BY <1>5, <1>6 DEF rc

\* A finite series of fractions, with one row for a month.
SeriesTyped(series) ==
    /\ IsFiniteSet(series) /\ \A r \in series : r.ret \in Fractions
    /\ \A r, q \in series : r.date = q.date => r = q

LEMMA LongShortTyped ==
    ASSUME NEW row, row.long \in Fractions, row.short \in Fractions
    PROVE  LongShort(row) \in Fractions
  <1>1. <<-row.short[1], row.short[2]>> \in Fractions
    BY DEF Fractions
  <1> QED BY <1>1, PlusTyped DEF LongShort

LEMMA CombinedTyped ==
    ASSUME NEW rows, IsFiniteSet(rows),
           \A x \in rows : x.row.long \in Fractions /\ x.row.short \in Fractions
    PROVE  SeriesTyped({[date |-> m,
                         ret |-> Average({x \in rows : x.row.date = m}, LAMBDA x : LongShort(x.row)),
                         bonds |-> Sum({x \in rows : x.row.date = m}, LAMBDA x : x.row.bonds)] :
                            m \in {x.row.date : x \in rows}})
  <1> DEFINE At(m) == {x \in rows : x.row.date = m}
             date == [x \in rows |-> x.row.date]
             months == {date[x] : x \in rows}
             of == [m \in months |->
                       [date |-> m, ret |-> Average(At(m), LAMBDA x : LongShort(x.row)),
                        bonds |-> Sum(At(m), LAMBDA x : x.row.bonds)]]
             series == {of[m] : m \in months}
  <1>1. IsFiniteSet(months)
    BY ImageFinite
  <1>2. ASSUME NEW m \in months
        PROVE  of[m].ret \in Fractions
    <2> DEFINE f == [x \in At(m) |-> LongShort(x.row)]
    <2>1. IsFiniteSet(At(m)) /\ At(m) # {}
      BY FS_Subset
    <2>2. \A x \in At(m) : f[x] \in Fractions
      BY LongShortTyped
    <2>3. Average(At(m), LAMBDA x : LongShort(x.row)) = Mean(At(m), f)
      BY DEF Average, Mean, Added
    <2>4. Mean(At(m), f) \in Fractions
      <3> HIDE DEF f
      <3> QED BY <2>1, <2>2, MeanTyped
    <2> QED BY <2>3, <2>4
  <1>5. \A m \in months : of[m].date = m
    OBVIOUS
  <1> HIDE DEF of
  <1>3. IsFiniteSet(series)
    <2> HIDE DEF months
    <2> QED BY <1>1, ImageFinite
  <1> HIDE DEF months
  <1>4. SeriesTyped(series)
    BY <1>2, <1>3, <1>5 DEF SeriesTyped
  <1> QED BY <1>4 DEF of, months

LEMMA StrategyTyped ==
    ASSUME NEW a, IsFiniteSet(DOMAIN a.legs), a.offTrim \in TrimRules,
           \A i \in DOMAIN a.legs : a.legs[i].rulebook \in ValidRulebooks,
           NEW on, NEW view, NumberPanel(view), DOMAIN view \in SUBSET Int
    PROVE  SeriesTyped(RunStrategy(a, BuildRunConfig(on), view))
  <1> DEFINE rc == BuildRunConfig(on)
             run == [i \in DOMAIN a.legs |-> RunLeg(a.legs[i], rc, a.offTrim, view)]
             Tagged(i) == {[leg |-> i, row |-> r] : r \in run[i]}
             tagged == [i \in DOMAIN a.legs |-> Tagged(i)]
             rows == UNION {tagged[i] : i \in DOMAIN a.legs}
  <1>1. ASSUME NEW i \in DOMAIN a.legs
        PROVE  LegsOf(run[i]) /\ IsFiniteSet(run[i])
    <2> DEFINE rb == OverrideConstruction(a.legs[i].rulebook, rc, a.offTrim)
    <2>1. rb \in ValidRulebooks
      BY OverrideTyped
    <2>2. run[i] = RunCharacteristicSort(view, rb) \/ run[i] = RunWithHoldingPeriod(view, rb)
      BY DEF RunLeg
    <2> HIDE DEF rb, run
    <2>3. /\ LegsOf(RunCharacteristicSort(view, rb)) /\ IsFiniteSet(RunCharacteristicSort(view, rb))
          /\ LegsOf(RunWithHoldingPeriod(view, rb)) /\ IsFiniteSet(RunWithHoldingPeriod(view, rb))
      BY ONLY <2>1, NumberPanel(view), DOMAIN view \in SUBSET Int, SortTyped, HeldTyped
    <2> QED BY <2>2, <2>3
  <1> HIDE DEF run
  <1>2. ASSUME NEW i \in DOMAIN a.legs
        PROVE  IsFiniteSet(tagged[i])
    <2> DEFINE tag == [r \in run[i] |-> [leg |-> i, row |-> r]]
    <2>1. tagged[i] = {tag[r] : r \in run[i]}
      OBVIOUS
    <2> HIDE DEF tag
    <2>2. IsFiniteSet({tag[r] : r \in run[i]})
      BY <1>1, ImageFinite
    <2> QED BY <2>1, <2>2
  <1>3. IsFiniteSet(rows)
    <2> HIDE DEF tagged
    <2>1. IsFiniteSet({tagged[i] : i \in DOMAIN a.legs})
      BY ImageFinite
    <2> QED BY <1>2, <2>1, FS_UNION
  <1>4. \A x \in rows : x.row.long \in Fractions /\ x.row.short \in Fractions
    <2> TAKE x \in rows
    <2>1. PICK i \in DOMAIN a.legs : x \in tagged[i]
      OBVIOUS
    <2>2. PICK r \in run[i] : x = [leg |-> i, row |-> r]
      BY <2>1
    <2>3. x.row = r /\ r.long \in Fractions /\ r.short \in Fractions
      BY <1>1, <2>2 DEF LegsOf
    <2> QED BY <2>3
  <1> DEFINE Combined(X) ==
                 {[date |-> m,
                   ret |-> Average({x \in X : x.row.date = m}, LAMBDA x : LongShort(x.row)),
                   bonds |-> Sum({x \in X : x.row.date = m}, LAMBDA x : x.row.bonds)] :
                      m \in {x.row.date : x \in X}}
  <1>5. rows = UNION {{[leg |-> i, row |-> r] : r \in RunLeg(a.legs[i], rc, a.offTrim, view)} :
                          i \in DOMAIN a.legs}
    <2> DEFINE Legs(i) == {[leg |-> i, row |-> r] : r \in RunLeg(a.legs[i], rc, a.offTrim, view)}
    <2>1. \A i \in DOMAIN a.legs : tagged[i] = Legs(i)
      BY DEF run
    <2> HIDE DEF tagged, Legs
    <2>2. rows = UNION {Legs(i) : i \in DOMAIN a.legs}
      BY <2>1
    <2> QED BY <2>2 DEF Legs
  <1>6. RunStrategy(a, rc, view)
            = Combined(UNION {{[leg |-> i, row |-> r] : r \in RunLeg(a.legs[i], rc, a.offTrim, view)} :
                                  i \in DOMAIN a.legs})
    BY DEF RunStrategy
  <1>7. RunStrategy(a, rc, view) = Combined(rows)
    <2> HIDE DEF Combined, rows, rc
    <2> QED BY <1>5, <1>6
  <1> HIDE DEF rows
  <1>8. SeriesTyped(Combined(rows))
    BY <1>3, <1>4, CombinedTyped
  <1> HIDE DEF Combined
  <1> QED BY <1>7, <1>8

LEMMA MetricTyped ==
    ASSUME NEW series, SeriesTyped(series), NEW months, IsFiniteSet(months), months # {}
    PROVE  Metric(series, months) \in Int
  <1> DEFINE R == {row \in series : row.date \in months}
             f == [row \in R |-> Earned(row)]
  <1>1. IsFiniteSet(R)
    BY FS_Subset DEF SeriesTyped
  <1>2. \A row \in R : f[row] \in Int
    <2> TAKE row \in R
    <2>1. row.ret[1] \in Int /\ row.ret[2] \in Nat \ {0} /\ Scale \in Int
      BY AuditAssumption DEF SeriesTyped, Fractions
    <2>2. (row.ret[1] * Scale) \in Int
      BY <2>1
    <2>3. (row.ret[1] * Scale) \div row.ret[2] \in Int
      BY <2>1, <2>2
    <2> QED BY <2>3 DEF Earned
  <1>3. Sum(R, Earned) = Total(R, f)
    BY DEF Sum, Total
  <1> HIDE DEF f
  <1>4. Total(R, f) \in Int
    BY <1>1, <1>2, TotalTyped
  <1>5. Cardinality(months) \in Nat \ {0}
    BY FS_CardinalityType, FS_EmptySet
  <1>6. Metric(series, months) = Total(R, f) \div Cardinality(months)
    BY <1>3 DEF Metric
  <1> QED BY <1>4, <1>5, <1>6

-----------------------------------------------------------------------------
(* The readings of a surface over the subsets of D add up.                 *)

LEMMA Coalitions ==
    ASSUME NEW D \in SUBSET Toggles
    PROVE  /\ IsFiniteSet(D) /\ IsFiniteSet(SUBSET D)
           /\ \A T \in SUBSET D : IsFiniteSet(T) /\ (T # {} => Cardinality(T) \in 1 .. 5)
  <1>1. \A T \in SUBSET Toggles : IsFiniteSet(T) /\ Cardinality(T) \in Nat /\ Cardinality(T) <= 5
    <2> TAKE T \in SUBSET Toggles
    <2>1. IsFiniteSet(T) /\ Cardinality(T) <= Cardinality(Toggles)
      BY FiveToggles, FS_Subset
    <2>2. Cardinality(T) \in Nat /\ Cardinality(Toggles) \in Nat
      BY <2>1, FiveToggles, FS_CardinalityType
    <2> QED BY <2>1, <2>2, FiveToggles
  <1>2. IsFiniteSet(SUBSET D)
    BY <1>1, FS_SUBSET
  <1>3. \A T \in SUBSET D : T # {} => Cardinality(T) # 0
    BY <1>1, FS_EmptySet
  <1> QED BY <1>1, <1>2, <1>3

LEMMA HarsanyiIs ==
    ASSUME NEW D, NEW Y \in [SUBSET D -> Int]
    PROVE  /\ Harsanyi(Y) = [T \in SUBSET D |-> Dividend(Y, T)]
           /\ Full(Y) = D /\ Full(Harsanyi(Y)) = D
  <1>1. DOMAIN Y = SUBSET D
    OBVIOUS
  <1>2. ASSUME NEW T
        PROVE  Sum(SUBSET T, LAMBDA U : Sign(Cardinality(T) - Cardinality(U)) * Y[U]) = Dividend(Y, T)
    BY DEF Sum, Dividend, Total
  <1>3. Harsanyi(Y) = [T \in SUBSET D |-> Dividend(Y, T)]
    BY <1>1, <1>2 DEF Harsanyi
  <1> QED BY <1>1, <1>3 DEF Full

LEMMA WalshIs ==
    ASSUME NEW D, NEW Y \in [SUBSET D -> Int]
    PROVE  Walsh(Y) = [T \in SUBSET D |-> Contrast(D, Y, T)]
  <1>1. DOMAIN Y = SUBSET D
    OBVIOUS
  <1>2. ASSUME NEW T
        PROVE  Sum(SUBSET D, LAMBDA S : Sign(Cardinality(T \ S)) * Y[S]) = Contrast(D, Y, T)
    BY DEF Sum, Contrast, Total
  <1> QED BY <1>1, <1>2 DEF Walsh

\* The dividends h of the subsets of each cell make up its metric, and those of
\* the coalitions that are not empty make up the gap.
Shares(D, Y, h) ==
    /\ \A T \in SUBSET D : h[T] \in Int
    /\ \A S \in SUBSET D : Y[S] = Total(SUBSET S, h)
    /\ Total((SUBSET D) \ {{}}, h) = Y[D] - Y[{}]

LEMMA GapIsShared ==
    ASSUME NEW D \in SUBSET Toggles, NEW Y \in [SUBSET D -> Int],
           NEW h, h = [T \in SUBSET D |-> Dividend(Y, T)]
    PROVE  Shares(D, Y, h)
  <1>1. IsFiniteSet(D) /\ IsFiniteSet(SUBSET D)
    BY Coalitions
  <1>2. \A T \in SUBSET D : h[T] \in Int
    BY <1>1, DividendTyped
  <1>3. ASSUME NEW S \in SUBSET D
        PROVE  Y[S] = Total(SUBSET S, h)
    <2> DEFINE part == [T \in SUBSET S |-> Dividend(Y, T)]
    <2>1. Total(SUBSET S, part) = Y[S]
      BY <1>1, DividendsAddUp
    <2>2. \A T \in SUBSET S : h[T] = part[T]
      OBVIOUS
    <2> HIDE DEF part
    <2>3. Total(SUBSET S, h) = Total(SUBSET S, part)
      BY <2>2, TotalSame
    <2> QED BY <2>1, <2>3
  <1>4. Y[D] = Total(SUBSET D, h) /\ Y[{}] = Total(SUBSET {}, h)
    BY <1>3
  <1>5. SUBSET {} = {{}} /\ h[{}] \in Int
    BY <1>2
  <1>6. Y[{}] = h[{}]
    BY <1>4, <1>5, TotalOne
  <1>7. Total(SUBSET D, h) = h[{}] + Total((SUBSET D) \ {{}}, h)
    <2>1. {} \in SUBSET D
      OBVIOUS
    <2> DEFINE P == SUBSET D
    <2>2. IsFiniteSet(P) /\ {} \in P /\ \A x \in P : h[x] \in Int
      BY <1>1, <1>2
    <2> HIDE DEF P
    <2>3. Total(P, h) = h[{}] + Total(P \ {{}}, h)
      BY ONLY <2>2, TotalTyped
    <2> QED BY <2>3 DEF P
  <1>8. Total((SUBSET D) \ {{}}, h) \in Int
    <2>1. IsFiniteSet((SUBSET D) \ {{}})
      BY <1>1, FS_Subset
    <2> DEFINE P == (SUBSET D) \ {{}}
    <2>2. IsFiniteSet(P) /\ \A x \in P : h[x] \in Int
      BY <1>2, <2>1
    <2> HIDE DEF P
    <2>3. Total(P, h) \in Int
      BY ONLY <2>2, TotalTyped
    <2> QED BY <2>3 DEF P
  <1> HIDE DEF Dividend
  <1>9. Total((SUBSET D) \ {{}}, h) = Y[D] - Y[{}]
    BY <1>4, <1>5, <1>6, <1>7, <1>8
  <1> QED BY <1>2, <1>3, <1>9 DEF Shares

\* The toggles' values add up to the gap, in units of ShareUnit.
LEMMA ValuesAddUp ==
    ASSUME NEW D \in SUBSET Toggles, NEW h, DOMAIN h = SUBSET D, Full(h) = D,
           \A T \in SUBSET D : h[T] \in Int
    PROVE  Total(D, Shapley(h)) = ShareUnit * Total((SUBSET D) \ {{}}, h)
  <1> DEFINE P == (SUBSET D) \ {{}}
             R == {o \in D \X P : o[1] \in o[2]}
             g == [T \in P |-> h[T] * (ShareUnit \div Cardinality(T))]
             w == [T \in P |-> ShareUnit * h[T]]
             v == Shapley(h)
  <1>1. IsFiniteSet(D) /\ IsFiniteSet(P)
    <2>1. IsFiniteSet(D) /\ IsFiniteSet(SUBSET D)
      BY Coalitions
    <2>2. P \in SUBSET (SUBSET D)
      OBVIOUS
    <2> QED BY <2>1, <2>2, FS_Subset
  <1>2. ASSUME NEW T \in P
        PROVE  /\ Cardinality(T) \in 1 .. 5 /\ g[T] \in Int
               /\ Cardinality(ColumnOf(R, T, D)) * g[T] = w[T]
               /\ h[T] \in Int
    <2> DEFINE n == Cardinality(T)
               u == ShareUnit \div n
    <2>1. n \in 1 .. 5
      BY Coalitions
    <2>2. ShareUnit \in Nat /\ ShareUnit % n = 0
      BY <2>1, AuditAssumption
    <2>3. u \in Int /\ n * u = ShareUnit
      <3> HIDE DEF n
      <3> QED BY <2>1, <2>2
    <2>4. ColumnOf(R, T, D) = T
      BY DEF ColumnOf
    <2>5. h[T] \in Int /\ g[T] = h[T] * u /\ w[T] = ShareUnit * h[T]
      OBVIOUS
    <2>6. Cardinality(ColumnOf(R, T, D)) = n
      BY <2>4
    <2> HIDE DEF n, u, g, w
    <2>7. n * (h[T] * u) = (n * u) * h[T]
      BY <2>1, <2>3, <2>5
    <2>8. g[T] \in Int
      BY <2>3, <2>5
    <2>9. n * g[T] = w[T]
      BY <2>3, <2>5, <2>7
    <2> QED BY <2>1, <2>5, <2>6, <2>8, <2>9 DEF n
  <1>3. ASSUME NEW i \in D
        PROVE  v[i] = Total(RowOf(R, i, P), g)
    <2> DEFINE with == {T \in SUBSET D : i \in T}
    <2>1. v[i] = Sum(with, LAMBDA T : h[T] * (ShareUnit \div Cardinality(T)))
      BY DEF Shapley
    <2>2. RowOf(R, i, P) = with
      BY DEF RowOf
    <2>3. \A T \in with : g[T] = h[T] * (ShareUnit \div Cardinality(T))
      OBVIOUS
    <2> HIDE DEF with, g, R
    <2>4. v[i] = Total(with, g)
      BY <2>1, <2>3 DEF Sum, Total
    <2> QED BY <2>2, <2>4
  <1> HIDE DEF R, g, v, P
  <1>4. \A T \in P : w[T] = Cardinality(ColumnOf(R, T, D)) * g[T]
    BY <1>2
  <1>5. \A T \in P : g[T] \in Int /\ h[T] \in Int
    BY <1>2
  <1>6. \A T \in P : w[T] = ShareUnit * h[T]
    OBVIOUS
  <1> HIDE DEF w
  <1>7. Total(D, v) = Total(P, w)
    <2>1. \A T \in P : g[T] \in Int
      BY <1>5
    <2>2. \A i \in D : v[i] = Total(RowOf(R, i, P), g)
      BY <1>3
    <2>3. SameTotal(D, v, P, w)
      BY ONLY <1>1, <2>1, <2>2, <1>4, TotalIncidence, Zenon
    <2> QED BY <2>3 DEF SameTotal
  <1>8. Total(P, w) = ShareUnit * Total(P, h)
    <2>1. ShareUnit \in Int
      BY AuditAssumption
    <2> QED BY ONLY <1>1, <1>5, <1>6, <2>1, TotalTimes
  <1> QED BY <1>7, <1>8 DEF v, P

\* So do the classes' components.
LEMMA ClassesAddUp ==
    ASSUME NEW D \in SUBSET Toggles, NEW h, DOMAIN h = SUBSET D,
           \A T \in SUBSET D : h[T] \in Int
    PROVE  Total(DOMAIN BiasClassPartition(h), BiasClassPartition(h)) = Total((SUBSET D) \ {{}}, h)
  <1> DEFINE P == (SUBSET D) \ {{}}
             class == [T \in P |-> BiasClass(T)]
             C == {class[T] : T \in P}
             R == {o \in C \X P : class[o[2]] = o[1]}
             parts == BiasClassPartition(h)
  <1>1. IsFiniteSet(P)
    <2>1. IsFiniteSet(SUBSET D)
      BY Coalitions
    <2>2. P \in SUBSET (SUBSET D)
      OBVIOUS
    <2> QED BY <2>1, <2>2, FS_Subset
  <1>2. IsFiniteSet(C)
    <2> HIDE DEF class, P
    <2> QED BY <1>1, ImageFinite
  <1>3. DOMAIN parts = C
    BY DEF BiasClassPartition
  <1>4. ASSUME NEW c \in C
        PROVE  parts[c] = Total(RowOf(R, c, P), h)
    <2>1. RowOf(R, c, P) = {T \in P : BiasClass(T) = c}
      BY DEF RowOf
    <2>2. parts[c] = Sum({T \in P : BiasClass(T) = c}, LAMBDA T : h[T])
      BY DEF BiasClassPartition
    <2> DEFINE members == {T \in P : BiasClass(T) = c}
    <2>3. Sum(members, LAMBDA T : h[T]) = Total(members, h)
      BY DEF Sum, Total
    <2> HIDE DEF R, parts, class
    <2> QED BY <2>1, <2>2, <2>3
  <1>5. ASSUME NEW T \in P
        PROVE  h[T] = Cardinality(ColumnOf(R, T, C)) * h[T] /\ h[T] \in Int
    <2>1. ColumnOf(R, T, C) = {class[T]}
      BY DEF ColumnOf
    <2>2. Cardinality({class[T]}) = 1
      BY FS_Singleton
    <2>3. h[T] \in Int
      OBVIOUS
    <2>4. Cardinality(ColumnOf(R, T, C)) = 1
      BY <2>1, <2>2
    <2> HIDE DEF R, C, P
    <2> QED BY <2>3, <2>4
  <1> HIDE DEF R, parts, C, P
  <1>6. Total(C, parts) = Total(P, h)
    <2>1. \A T \in P : h[T] \in Int
      BY <1>5
    <2>2. \A T \in P : h[T] = Cardinality(ColumnOf(R, T, C)) * h[T]
      BY <1>5
    <2>3. \A c \in C : parts[c] = Total(RowOf(R, c, P), h)
      BY <1>4
    <2>4. SameTotal(C, parts, P, h)
      BY ONLY <1>1, <1>2, <2>1, <2>2, <2>3, TotalIncidence, Zenon
    <2> QED BY <2>4 DEF SameTotal
  <1> QED BY <1>3, <1>6 DEF parts, P

\* What is reported of an audit that has run is computed from its cells.
AnchorInv ==
    /\ audit.outcome \in {"running", "audited"} =>
           audit.anchor \in Anchors /\ Scope(audit.anchor) # "REFUSED"
    /\ Audited => /\ audit.common = CommonSupport(audit.cells) /\ audit.common # {}
                  /\ audit.metric = PrimaryMetricVector(audit.cells, audit.common)
                  /\ audit.harsanyi = Harsanyi(audit.metric)
                  /\ audit.walsh = Walsh(audit.metric)
                  /\ audit.shapley = Shapley(audit.harsanyi)
                  /\ audit.noOps = {i \in Runnable(audit.anchor) \cap audit.anchor.expected :
                                        IsNoOp(audit.cells, i)}
                  /\ audit.coreSync = CoreSync1(audit.anchor, audit.walsh)

AuditedInv == PanelType /\ ViewsInv /\ AnchorInv

LEMMA InitAnchor == AuditInit => AnchorInv
  BY DEF AuditInit, NoAudit, AnchorInv, Audited

LEMMA AnchorStep ==
    ASSUME AnchorInv, [AuditNext]_auditVars
    PROVE  AnchorInv'
  <1>1. CASE Grow
    BY <1>1 DEF Grow, NoAudit, AnchorInv, Audited
  <1>2. CASE StartAnchor
    BY <1>2 DEF StartAnchor, AnchorInv, Audited, vars
  <1>3. CASE FinishAnchor
    <2> DEFINE a == audit.anchor
               cells == RunCells(a, views)
               common == CommonSupport(cells)
               Y == PrimaryMetricVector(cells, common)
    <2>1. /\ audit' = AuditCore(a, cells) /\ panel' = panel
          /\ a \in Anchors /\ Scope(a) # "REFUSED"
      BY <1>3 DEF FinishAnchor, AnchorInv, vars
    <2>2. CASE common = {}
      BY <2>1, <2>2 DEF AuditCore, AnchorInv, Audited
    <2>3. CASE common # {}
      <3>1. /\ audit'.outcome = "audited" /\ audit'.anchor = a /\ audit'.cells = cells
            /\ audit'.common = common /\ audit'.metric = Y /\ audit'.harsanyi = Harsanyi(Y)
            /\ audit'.walsh = Walsh(Y) /\ audit'.shapley = Shapley(Harsanyi(Y))
            /\ audit'.noOps = {i \in Runnable(a) \cap a.expected : IsNoOp(cells, i)}
            /\ audit'.coreSync = CoreSync1(a, Walsh(Y))
        BY <2>1, <2>3 DEF AuditCore
      <3>2. common = {m \in DOMAIN panel : \A S \in DOMAIN cells : m \in Dates(cells[S].series)}
        BY DEF CommonSupport
      <3> HIDE DEF cells, common, Y
      <3>3. Y = PrimaryMetricVector(cells, common)
        BY DEF Y
      <3>4. audit'.common = {m \in DOMAIN panel' :
                                \A S \in DOMAIN audit'.cells : m \in Dates(audit'.cells[S].series)}
        BY <2>1, <3>1, <3>2
      <3> QED BY <2>1, <2>3, <3>1, <3>3, <3>4 DEF AnchorInv, Audited, CommonSupport
    <2> QED BY <2>2, <2>3
  <1>4. CASE UNCHANGED auditVars
    BY <1>4 DEF auditVars, vars, AnchorInv, Audited, CommonSupport
  <1> QED BY <1>1, <1>2, <1>3, <1>4 DEF AuditNext

LEMMA AuditedInvariant == AuditSpec => []AuditedInv
  <1>1. AuditInit => AuditedInv
    BY InitEngines, InitViews, InitAnchor DEF AuditInit, AuditedInv
  <1>2. AuditedInv /\ [AuditNext]_auditVars => AuditedInv'
    <2> SUFFICES ASSUME AuditedInv, [AuditNext]_auditVars PROVE AuditedInv'
      OBVIOUS
    <2>1. ViewsInv' /\ AnchorInv'
      BY ViewsStep, AnchorStep DEF AuditedInv
    <2>2. PanelType'
      <3>1. [AppendMonth]_vars
        BY AuditMoves
      <3>2. CASE AppendMonth
        BY <3>2, Appended DEF AuditedInv
      <3>3. CASE UNCHANGED vars
        BY <3>3 DEF vars, PanelType, AuditedInv
      <3> QED BY <3>1, <3>2, <3>3
    <2> QED BY <2>1, <2>2 DEF AuditedInv
  <1> QED BY <1>1, <1>2, PTL DEF AuditSpec

\* Every cell is a typed series, that of the view its configuration has alone.
LatticeTyped ==
    LET a == audit.anchor
        configs == BuildLatticeConfigs(a)
    IN /\ a \in Anchors /\ Runnable(a) \in SUBSET Toggles
       /\ IsFiniteSet(audit.common) /\ audit.common # {}
       /\ audit.common \in SUBSET DOMAIN panel
       /\ \A m \in audit.common : \A S \in SUBSET Runnable(a) : m \in Dates(audit.cells[S].series)
       /\ DOMAIN audit.cells = SUBSET Runnable(a)
       /\ \A S \in SUBSET Runnable(a) :
              /\ configs[S] = BuildRunConfig(S \cup With(a, {"ON", "not_applicable"}))
              /\ audit.cells[S].config = configs[S]
              /\ audit.cells[S].series = RunStrategy(a, configs[S], View(panel, configs[S]))
              /\ SeriesTyped(audit.cells[S].series)
       /\ audit.metric = [S \in SUBSET Runnable(a) |-> Metric(audit.cells[S].series, audit.common)]
       /\ audit.metric \in [SUBSET Runnable(a) -> Int]

LEMMA CellsTyped ==
    ASSUME AuditedInv, Audited PROVE LatticeTyped
  <1> DEFINE a == audit.anchor
             configs == BuildLatticeConfigs(a)
             cells == audit.cells
  <1>1. a \in Anchors /\ audit.common = CommonSupport(cells) /\ audit.common # {}
        /\ audit.metric = PrimaryMetricVector(cells, audit.common)
        /\ cells = RunCells(a, views) /\ views = ViewCache(a, panel)
        /\ panel \in Seq([Bonds -> AnyRow])
    BY DEF AuditedInv, AnchorInv, ViewsInv, PanelType, Audited
  <1>2. DOMAIN configs = SUBSET Runnable(a) /\ Runnable(a) \in SUBSET Toggles
    BY DEF BuildLatticeConfigs, Runnable, With
  <1>3. \A S \in SUBSET Runnable(a) : configs[S] = BuildRunConfig(S \cup With(a, {"ON", "not_applicable"}))
    BY DEF BuildLatticeConfigs
  <1>4. /\ IsFiniteSet(audit.common) /\ audit.common \in SUBSET DOMAIN panel
        /\ \A m \in audit.common : \A S \in DOMAIN cells : m \in Dates(cells[S].series)
    <2>0. DOMAIN panel = 1 .. Len(panel) /\ Len(panel) \in Int
      BY <1>1
    <2>1. /\ audit.common \in SUBSET (1 .. Len(panel))
          /\ \A m \in audit.common : \A S \in DOMAIN cells : m \in Dates(cells[S].series)
      BY <1>1, <2>0 DEF CommonSupport
    <2>2. IsFiniteSet(1 .. Len(panel))
      BY <2>0, FS_Interval
    <2>3. IsFiniteSet(audit.common)
      BY <2>1, <2>2, FS_Subset
    <2> QED BY <2>0, <2>1, <2>3
  <1>5. /\ DOMAIN cells = SUBSET Runnable(a)
        /\ \A S \in SUBSET Runnable(a) :
               /\ cells[S].config = configs[S]
               /\ cells[S].series = RunStrategy(a, configs[S], views[PanelViewHash(configs[S])])
    <2> HIDE DEF configs, a
    <2>1. RunCells(a, views) = [S \in DOMAIN configs |->
              [config |-> configs[S],
               series |-> RunStrategy(a, configs[S], views[PanelViewHash(configs[S])])]]
      BY DEF RunCells, configs
    <2> QED BY <1>1, <1>2, <2>1
  <1>6. ASSUME NEW S \in SUBSET Runnable(a)
        PROVE  /\ cells[S].series = RunStrategy(a, configs[S], View(panel, configs[S]))
               /\ SeriesTyped(cells[S].series)
               /\ Metric(cells[S].series, audit.common) \in Int
    <2> DEFINE view == View(panel, configs[S])
               on == S \cup With(a, {"ON", "not_applicable"})
    <2>1. views[PanelViewHash(configs[S])] = view
      BY <1>1, CachedView
    <2>2. NumberPanel(view) /\ DOMAIN view \in SUBSET Int
      <3>1. NumberPanel(view) /\ DOMAIN view = 1 .. Len(panel)
        BY <1>1, ViewTyped
      <3> QED BY <3>1
    <2>3. /\ IsFiniteSet(DOMAIN a.legs) /\ a.offTrim \in TrimRules
          /\ \A i \in DOMAIN a.legs : a.legs[i].rulebook \in ValidRulebooks
      BY <1>1, AuditAssumption
    <2>4. cells[S].series = RunStrategy(a, configs[S], view)
      BY <1>5, <2>1
    <2>5. configs[S] = BuildRunConfig(on)
      BY <1>3
    <2> HIDE DEF view, on, a, configs
    <2>6. SeriesTyped(RunStrategy(a, BuildRunConfig(on), view))
      BY ONLY <2>2, <2>3, StrategyTyped
    <2>7. SeriesTyped(cells[S].series)
      BY <2>4, <2>5, <2>6
    <2>8. Metric(cells[S].series, audit.common) \in Int
      BY <1>1, <1>4, <2>7, MetricTyped
    <2> QED BY <2>4, <2>7, <2>8 DEF view
  <1> HIDE DEF configs, cells, a
  <1>7. PrimaryMetricVector(cells, audit.common) = [S \in DOMAIN cells |-> Metric(cells[S].series, audit.common)]
    BY DEF PrimaryMetricVector
  <1>8. /\ audit.metric = [S \in SUBSET Runnable(a) |-> Metric(cells[S].series, audit.common)]
        /\ audit.metric \in [SUBSET Runnable(a) -> Int]
    BY <1>1, <1>5, <1>6, <1>7
  <1> QED BY <1>1, <1>2, <1>3, <1>4, <1>5, <1>6, <1>8 DEF LatticeTyped, a, cells, configs

(* The attribution adds up, for every panel, strategy and set of toggles   *)
(* that can be run: the toggles' values and the classes' components make   *)
(* up the gap, and dividends and contrasts give every cell's metric back.  *)
THEOREM TheAttributionAddsUp == AuditSpec => []AttributionAddsUp
  <1>1. AuditedInv => AttributionAddsUp
    <2> SUFFICES ASSUME AuditedInv, Audited
                 PROVE  AttributionAddsUp
      BY DEF AttributionAddsUp
    <2> DEFINE D == Runnable(audit.anchor)
               Y == audit.metric
               h == audit.harsanyi
               w == audit.walsh
               v == audit.shapley
               classes == BiasClassPartition(h)
               gap == Y[D] - Y[{}]
    <2>1. D \in SUBSET Toggles /\ Y \in [SUBSET D -> Int]
      BY CellsTyped DEF LatticeTyped
    <2>2. h = Harsanyi(Y) /\ w = Walsh(Y) /\ v = Shapley(h)
      BY DEF AuditedInv, AnchorInv
    <2> HIDE DEF D, Y, h, w, v
    <2>3. /\ h = [T \in SUBSET D |-> Dividend(Y, T)] /\ Full(Y) = D /\ Full(h) = D
          /\ w = [T \in SUBSET D |-> Contrast(D, Y, T)]
      BY <2>1, <2>2, HarsanyiIs, WalshIs
    <2>4. /\ \A T \in SUBSET D : h[T] \in Int
          /\ \A S \in SUBSET D : Y[S] = Total(SUBSET S, h)
          /\ Total((SUBSET D) \ {{}}, h) = gap
      <3>1. h = [T \in SUBSET D |-> Dividend(Y, T)]
        BY <2>3
      <3>2. Shares(D, Y, h)
        BY ONLY <2>1, <3>1, GapIsShared, Zenon
      <3> QED BY <3>2 DEF Shares
    <2>5. Total(D, v) = ShareUnit * gap
      <3>1. DOMAIN h = SUBSET D
        BY <2>3
      <3>2. Total(D, Shapley(h)) = ShareUnit * Total((SUBSET D) \ {{}}, h)
        BY ONLY <2>1, <2>3, <2>4, <3>1, ValuesAddUp
      <3> QED BY <2>2, <2>4, <3>2
    <2>6. Total(DOMAIN classes, classes) = gap
      <3>1. DOMAIN h = SUBSET D
        BY <2>3
      <3>2. Total(DOMAIN classes, classes) = Total((SUBSET D) \ {{}}, h)
        BY ONLY <2>1, <2>4, <3>1, ClassesAddUp
      <3> QED BY <2>4, <3>2
    <2>7. ASSUME NEW S \in SUBSET D
          PROVE  Cardinality(SUBSET D) * Y[S]
                     = Sum(SUBSET D, LAMBDA T : Sign(Cardinality(T \ S)) * w[T])
      <3> DEFINE back == [T \in SUBSET D |-> Sign(Cardinality(T \ S)) * Contrast(D, Y, T)]
      <3>1. IsFiniteSet(D)
        BY <2>1, Coalitions
      <3>2. Total(SUBSET D, back) = Cardinality(SUBSET D) * Y[S]
        BY <2>1, <3>1, ContrastsInvert
      <3>3. Sum(SUBSET D, LAMBDA T : Sign(Cardinality(T \ S)) * w[T]) = Total(SUBSET D, back)
        BY <2>3 DEF Sum, Total
      <3> QED BY <3>2, <3>3
    <2>8. /\ DOMAIN Y = SUBSET D
          /\ Sum(Full(Y), LAMBDA i : v[i]) = Total(D, v)
          /\ Sum(DOMAIN classes, LAMBDA c : classes[c]) = Total(DOMAIN classes, classes)
          /\ \A S : Sum(SUBSET S, LAMBDA T : h[T]) = Total(SUBSET S, h)
      BY <2>1, <2>3 DEF Sum, Total
    <2>9. Sum(Full(Y), LAMBDA i : v[i]) = ShareUnit * gap
      BY <2>5, <2>8
    <2> HIDE DEF classes
    <2>10. Sum(DOMAIN classes, LAMBDA c : classes[c]) = gap
      BY <2>6, <2>8
    <2>11. \A S \in SUBSET D : /\ Y[S] = Sum(SUBSET S, LAMBDA T : h[T])
                              /\ Cardinality(SUBSET D) * Y[S]
                                     = Sum(SUBSET D, LAMBDA T : Sign(Cardinality(T \ S)) * w[T])
      BY <2>4, <2>7, <2>8
    <2> QED BY <2>3, <2>8, <2>9, <2>10, <2>11 DEF AttributionAddsUp, D, Y, h, w, v, classes
  <1> QED BY <1>1, AuditedInvariant, PTL

-----------------------------------------------------------------------------
(* What is tested is what is reported.                                     *)

\* A sum of sums, in either order.
AlongRow(f, a, B) == [b \in B |-> f[<<a, b>>]]
AlongColumn(f, b, A) == [a \in A |-> f[<<a, b>>]]

LEMMA TotalSwap ==
    ASSUME NEW A, IsFiniteSet(A), NEW B, IsFiniteSet(B),
           NEW f, \A a \in A : \A b \in B : f[<<a, b>>] \in Int,
           NEW byA, \A a \in A : byA[a] = Total(B, AlongRow(f, a, B)),
           NEW byB, \A b \in B : byB[b] = Total(A, AlongColumn(f, b, A))
    PROVE  SameTotal(A, byA, B, byB)
  <1> USE DEF AlongRow, AlongColumn
  <1> DEFINE Col(X) == [b \in B |-> Total(X, [a \in A |-> f[<<a, b>>]])]
             G == {X \in SUBSET A : Total(X, byA) = Total(B, Col(X))}
  <1>0. \A a \in A : byA[a] \in Int
    <2> TAKE a \in A
    <2> DEFINE row == [b \in B |-> f[<<a, b>>]]
    <2>1. \A b \in B : row[b] \in Int
      OBVIOUS
    <2> HIDE DEF row
    <2>2. Total(B, row) \in Int
      BY <2>1, TotalTyped
    <2> QED BY <2>2 DEF row
  <1>1. {} \in G
    <2> DEFINE h == Col({})
    <2>1. \A b \in B : h[b] = IF b \in {} THEN 0 ELSE 0
      BY TotalEmpty
    <2> HIDE DEF h
    <2>2. Total(B, h) = Cardinality({}) * 0
      BY <2>1, TotalWhere
    <2> QED BY <2>2, TotalEmpty, FS_EmptySet DEF h
  <1>2. ASSUME NEW X \in SUBSET A, NEW x \in A \ X, X \in G
        PROVE  X \cup {x} \in G
    <2> DEFINE old == Col(X)
               new == Col(X \cup {x})
               row == [b \in B |-> f[<<x, b>>]]
    <2>1. IsFiniteSet(X)
      BY FS_Subset
    <2>2. ASSUME NEW b \in B
          PROVE  old[b] \in Int /\ row[b] \in Int /\ new[b] = row[b] + old[b]
      <3> DEFINE col == [a \in A |-> f[<<a, b>>]]
      <3>1. old[b] = Total(X, col) /\ new[b] = Total(X \cup {x}, col) /\ row[b] = col[x]
        OBVIOUS
      <3>2. \A a \in X \cup {x} : col[a] \in Int
        OBVIOUS
      <3> HIDE DEF col, old, new, row
      <3>3. Total(X \cup {x}, col) = col[x] + Total(X, col)
        BY ONLY <2>1, <3>2, x \in A \ X, TotalAdd
      <3>4. Total(X, col) \in Int
        BY <2>1, <3>2, TotalTyped
      <3> QED BY <3>1, <3>2, <3>3, <3>4
    <2>3. byA[x] = Total(B, row)
      OBVIOUS
    <2>4. Total(X \cup {x}, byA) = byA[x] + Total(X, byA)
      BY ONLY <1>0, <2>1, X \in SUBSET A, x \in A \ X, TotalAdd
    <2>5. Total(X, byA) = Total(B, old)
      BY <1>2
    <2> HIDE DEF old, new, row
    <2>6. Total(B, new) = Total(B, row) + Total(B, old)
      BY ONLY IsFiniteSet(B), <2>2, TotalPlus
    <2>7. Total(X \cup {x}, byA) = Total(B, new)
      BY <2>3, <2>4, <2>5, <2>6
    <2> QED BY <2>7 DEF new
  <1>3. A \in G
    <2> HIDE DEF G
    <2> QED BY <1>1, <1>2, GrowingSet
  <1>4. Total(B, Col(A)) = Total(B, byB)
    <2> DEFINE s == Col(A)
    <2>1. \A b \in B : s[b] = byB[b]
      OBVIOUS
    <2> HIDE DEF s
    <2> QED BY <2>1, TotalSame
  <1> QED BY <1>3, <1>4 DEF SameTotal

\* Before the division: what a series earned in some months.
Gain(series, months) == Total({row \in series : row.date \in months}, [row \in series |-> Earned(row)])

LEMMA EarnedTyped ==
    ASSUME NEW series, SeriesTyped(series), NEW row \in series
    PROVE  Earned(row) \in Int
  <1>1. row.ret[1] \in Int /\ row.ret[2] \in Nat \ {0} /\ Scale \in Int
    BY AuditAssumption DEF SeriesTyped, Fractions
  <1>2. (row.ret[1] * Scale) \in Int
    BY <1>1
  <1>3. (row.ret[1] * Scale) \div row.ret[2] \in Int
    BY <1>1, <1>2
  <1> QED BY <1>3 DEF Earned

LEMMA GainIs ==
    ASSUME NEW series, SeriesTyped(series), NEW months
    PROVE  /\ Gain(series, months) \in Int
           /\ Metric(series, months) = Gain(series, months) \div Cardinality(months)
  <1> DEFINE R == {row \in series : row.date \in months}
             f == [row \in series |-> Earned(row)]
  <1>1. IsFiniteSet(R)
    BY FS_Subset DEF SeriesTyped
  <1>2. \A row \in R : f[row] \in Int
    BY EarnedTyped
  <1>3. Sum(R, Earned) = Total(R, f)
    BY DEF Sum, Total
  <1> HIDE DEF f
  <1>4. Total(R, f) \in Int
    BY <1>1, <1>2, TotalTyped
  <1> QED BY <1>3, <1>4 DEF Metric, Gain, f

LEMMA OneMonth ==
    ASSUME NEW series, SeriesTyped(series), NEW m
    PROVE  Metric(series, {m}) = Gain(series, {m})
  <1>1. Cardinality({m}) = 1
    BY FS_Singleton
  <1>2. \A n \in Int : n \div 1 = n
    OBVIOUS
  <1> QED BY <1>1, <1>2, GainIs

\* What is earned in some months is earned month by month.
LEMMA GainByMonth ==
    ASSUME NEW series, SeriesTyped(series), NEW months, IsFiniteSet(months)
    PROVE  Total(months, [m \in months |-> Gain(series, {m})]) = Gain(series, months)
  <1> DEFINE S == {row \in series : row.date \in months}
             R == {o \in months \X S : o[2].date = o[1]}
             g == [row \in series |-> Earned(row)]
             inner == [m \in months |-> Gain(series, {m})]
  <1>1. IsFiniteSet(S)
    BY FS_Subset DEF SeriesTyped
  <1>2. \A row \in S : g[row] \in Int
    BY EarnedTyped
  <1>3. \A m \in months : inner[m] = Total(RowOf(R, m, S), g)
    <2> TAKE m \in months
    <2>1. RowOf(R, m, S) = {row \in series : row.date \in {m}}
      BY DEF RowOf
    <2> HIDE DEF R, S, g
    <2> QED BY <2>1 DEF Gain, g
  <1>4. \A row \in S : g[row] = Cardinality(ColumnOf(R, row, months)) * g[row]
    <2> TAKE row \in S
    <2>1. ColumnOf(R, row, months) = {row.date}
      BY DEF ColumnOf
    <2>2. Cardinality({row.date}) = 1
      BY FS_Singleton
    <2>3. Cardinality(ColumnOf(R, row, months)) = 1
      BY <2>1, <2>2
    <2>4. g[row] \in Int
      BY <1>2
    <2> HIDE DEF R, S, g
    <2> QED BY <2>3, <2>4
  <1> HIDE DEF R, S, g, inner
  <1>5. Total(months, inner) = Total(S, g)
    <2>1. SameTotal(months, inner, S, g)
      BY ONLY IsFiniteSet(months), <1>1, <1>2, <1>3, <1>4, TotalIncidence, Zenon
    <2> QED BY <2>1 DEF SameTotal
  <1> QED BY <1>5 DEF Gain, S, g, inner

\* The contrast of what is earned in all the months is the sum of the months'
\* contrasts, of series by the subsets of D.
MonthsAddUp(D, series, months, byMonth, T) ==
    Total(months, byMonth) = Contrast(D, [S \in SUBSET D |-> Gain(series[S], months)], T)

LEMMA ContrastByMonth ==
    ASSUME NEW D, IsFiniteSet(D), NEW series, \A S \in SUBSET D : SeriesTyped(series[S]),
           NEW months, IsFiniteSet(months), NEW T \in SUBSET D,
           NEW byMonth,
           \A m \in months : byMonth[m] = Contrast(D, [S \in SUBSET D |-> Gain(series[S], {m})], T)
    PROVE  MonthsAddUp(D, series, months, byMonth, T)
  <1> DEFINE P == SUBSET D
             sign == [S \in P |-> Sign(Cardinality(T \ S))]
             f == [o \in months \X P |-> sign[o[2]] * Gain(series[o[2]], {o[1]})]
             byCell == [S \in P |-> sign[S] * Gain(series[S], months)]
  <1>1. IsFiniteSet(P)
    BY FS_SUBSET
  <1>2. \A S \in P : sign[S] \in Int
    <2> TAKE S \in P
    <2>1. T \ S \in SUBSET D
      OBVIOUS
    <2>2. Cardinality(T \ S) \in Nat
      BY <2>1, FS_Subset, FS_CardinalityType
    <2> QED BY <2>2, SignFlips
  <1>3. \A S \in P : \A M : Gain(series[S], M) \in Int
    BY GainIs
  <1>4. \A m \in months : \A S \in P : f[<<m, S>>] = sign[S] * Gain(series[S], {m})
    OBVIOUS
  <1> HIDE DEF f
  <1>5. \A m \in months : \A S \in P : f[<<m, S>>] \in Int
    <2> TAKE m \in months
    <2> TAKE S \in P
    <2>1. f[<<m, S>>] = sign[S] * Gain(series[S], {m})
      BY <1>4
    <2>2. sign[S] \in Int /\ Gain(series[S], {m}) \in Int
      BY <1>2, <1>3
    <2> HIDE DEF sign, P
    <2> QED BY <2>1, <2>2
  <1>6. \A m \in months : byMonth[m] = Total(P, AlongRow(f, m, P))
    <2> TAKE m \in months
    <2> DEFINE gain == [S \in P |-> Gain(series[S], {m})]
               a == [S \in P |-> Sign(Cardinality(T \ S)) * gain[S]]
               b == [S \in P |-> f[<<m, S>>]]
    <2>1. byMonth[m] = Total(P, a)
      BY DEF Contrast
    <2>2. \A S \in P : a[S] = b[S]
      BY <1>4
    <2> HIDE DEF a, b
    <2>3. Total(P, a) = Total(P, b)
      BY <2>2, TotalSame
    <2> QED BY <2>1, <2>3 DEF b, AlongRow
  <1>7. \A S \in P : byCell[S] = Total(months, AlongColumn(f, S, months))
    <2> TAKE S \in P
    <2> DEFINE gain == [m \in months |-> Gain(series[S], {m})]
               b == [m \in months |-> f[<<m, S>>]]
    <2>1. Total(months, gain) = Gain(series[S], months)
      BY GainByMonth
    <2>2. \A m \in months : gain[m] \in Int /\ b[m] = sign[S] * gain[m]
      BY <1>3, <1>4
    <2>3. byCell[S] = sign[S] * Gain(series[S], months) /\ sign[S] \in Int
      BY <1>2
    <2> HIDE DEF gain, b, sign, byCell
    <2>4. Total(months, b) = sign[S] * Total(months, gain)
      BY ONLY IsFiniteSet(months), <2>2, <2>3, TotalTimes
    <2> QED BY <2>1, <2>3, <2>4 DEF b, AlongColumn
  <1>8. Total(months, byMonth) = Total(P, byCell)
    <2> HIDE DEF P, byCell
    <2>1. SameTotal(months, byMonth, P, byCell)
      BY ONLY <1>1, <1>5, <1>6, <1>7, IsFiniteSet(months), TotalSwap, Zenon
    <2> QED BY <2>1 DEF SameTotal
  <1>9. Contrast(D, [S \in SUBSET D |-> Gain(series[S], months)], T) = Total(P, byCell)
    <2> DEFINE all == [S \in SUBSET D |-> Gain(series[S], months)]
               c == [S \in P |-> Sign(Cardinality(T \ S)) * all[S]]
    <2>1. \A S \in P : c[S] = byCell[S]
      OBVIOUS
    <2>2. Contrast(D, all, T) = Total(P, c)
      BY DEF Contrast
    <2> HIDE DEF c, byCell, P
    <2>3. Total(P, c) = Total(P, byCell)
      BY <2>1, TotalSame
    <2> QED BY <2>2, <2>3
  <1> QED BY <1>8, <1>9 DEF MonthsAddUp

\* The mean over the months is not rounded.
Exact ==
    Audited => \A S \in DOMAIN audit.cells :
                   Gain(audit.cells[S].series, audit.common) % Cardinality(audit.common) = 0

(* What the bootstrap tests is what is reported, wherever Scale holds the   *)
(* denominators of the means: over the common support the mean of every     *)
(* coordinate's monthly contrast is its coefficient.                        *)
THEOREM TheTestedIsTheReported == AuditSpec /\ []Exact => []TestedIsReported
  <1>1. AuditedInv /\ Exact => TestedIsReported
    <2> SUFFICES ASSUME AuditedInv, Exact, Audited, NEW T \in DOMAIN audit.walsh
                 PROVE  Sum(audit.common, LAMBDA m : MonthlyWalsh(audit.cells, m)[T])
                            = Cardinality(audit.common) * audit.walsh[T]
      BY DEF TestedIsReported
    <2> DEFINE D == Runnable(audit.anchor)
               Y == audit.metric
               M == audit.common
               n == Cardinality(M)
               series == [S \in SUBSET D |-> audit.cells[S].series]
               gain == [S \in SUBSET D |-> Gain(series[S], M)]
               byMonth == [m \in M |-> MonthlyWalsh(audit.cells, m)[T]]
    <2>1. /\ D \in SUBSET Toggles /\ Y \in [SUBSET D -> Int] /\ IsFiniteSet(M) /\ M # {}
          /\ DOMAIN audit.cells = SUBSET D
          /\ \A S \in SUBSET D : SeriesTyped(series[S]) /\ Y[S] = Metric(series[S], M)
      BY CellsTyped DEF LatticeTyped
    <2>2. IsFiniteSet(D) /\ n \in Nat \ {0}
      BY <2>1, Coalitions, FS_CardinalityType, FS_EmptySet
    <2>3. audit.walsh = Walsh(Y)
      BY DEF AuditedInv, AnchorInv
    <2>4. /\ T \in SUBSET D /\ audit.walsh[T] = Contrast(D, Y, T)
      <3> HIDE DEF D, Y
      <3>1. audit.walsh = [X \in SUBSET D |-> Contrast(D, Y, X)]
        BY <2>1, <2>3, WalshIs
      <3> QED BY <3>1
    <2>5. ASSUME NEW S \in SUBSET D
          PROVE  gain[S] \in Int /\ gain[S] = n * Y[S]
      <3>1. gain[S] = Gain(series[S], M) /\ gain[S] \in Int /\ Y[S] = gain[S] \div n
        BY <2>1, GainIs
      <3>2. gain[S] % n = 0
        BY <2>1 DEF Exact
      <3> HIDE DEF gain, n
      <3> QED BY <2>2, <3>1, <3>2
    <2>6. ASSUME NEW m \in M
          PROVE  byMonth[m] = Contrast(D, [S \in SUBSET D |-> Gain(series[S], {m})], T)
      <3> DEFINE Ym == [S \in DOMAIN audit.cells |-> Metric(audit.cells[S].series, {m})]
                 gm == [S \in SUBSET D |-> Gain(series[S], {m})]
      <3>1. \A S \in SUBSET D : Metric(series[S], {m}) = Gain(series[S], {m}) /\ Gain(series[S], {m}) \in Int
        BY <2>1, OneMonth, GainIs
      <3>2. Ym = gm /\ gm \in [SUBSET D -> Int]
        BY <2>1, <3>1
      <3>3. byMonth[m] = Walsh(Ym)[T]
        BY DEF MonthlyWalsh
      <3> HIDE DEF Ym, gm, D, byMonth
      <3>4. Walsh(gm) = [X \in SUBSET D |-> Contrast(D, gm, X)]
        BY <3>2, WalshIs
      <3>5. byMonth[m] = Contrast(D, gm, T)
        BY <2>4, <3>2, <3>3, <3>4
      <3> QED BY <3>5 DEF gm
    <2>7. Total(M, byMonth) = Contrast(D, gain, T)
      <3>1. MonthsAddUp(D, series, M, byMonth, T)
        <4> HIDE DEF D, series, M, byMonth
        <4> QED BY ONLY <2>1, <2>2, <2>4, <2>6, ContrastByMonth, Zenon
      <3> QED BY <3>1 DEF MonthsAddUp
    <2>8. Contrast(D, gain, T) = n * Contrast(D, Y, T)
      <3> DEFINE P == SUBSET D
                 f == [S \in P |-> Sign(Cardinality(T \ S)) * Y[S]]
                 g == [S \in P |-> Sign(Cardinality(T \ S)) * gain[S]]
      <3>1. Contrast(D, gain, T) = Total(P, g) /\ Contrast(D, Y, T) = Total(P, f)
        BY DEF Contrast
      <3>2. \A S \in P : f[S] \in Int /\ g[S] = n * f[S]
        <4> TAKE S \in P
        <4> DEFINE s == Sign(Cardinality(T \ S))
        <4>1. T \ S \in SUBSET D
          BY <2>4
        <4>2. Cardinality(T \ S) \in Nat
          BY <2>2, <4>1, FS_Subset, FS_CardinalityType
        <4>3. s \in Int
          BY <4>2, SignFlips
        <4>4. f[S] = s * Y[S] /\ g[S] = s * gain[S] /\ gain[S] = n * Y[S] /\ Y[S] \in Int
          BY <2>1, <2>5
        <4> HIDE DEF s, f, g, gain, n, Y
        <4> QED BY <2>2, <4>3, <4>4
      <3>3. IsFiniteSet(P) /\ n \in Int
        BY <2>2, FS_SUBSET
      <3> HIDE DEF P, f, g, n
      <3>4. Total(P, g) = n * Total(P, f)
        BY ONLY <3>2, <3>3, TotalTimes
      <3> QED BY <3>1, <3>4
    <2>9. Sum(M, LAMBDA m : MonthlyWalsh(audit.cells, m)[T]) = Total(M, byMonth)
      BY DEF Sum, Total
    <2> QED BY <2>4, <2>7, <2>8, <2>9
  <1> QED BY <1>1, AuditedInvariant, PTL

-----------------------------------------------------------------------------
(* A toggle that is inert.                                                 *)

LEMMA SameQuotient ==
    ASSUME NEW a \in Int, NEW b \in Nat \ {0}, NEW c \in Int, NEW d \in Nat \ {0}, a * d = c * b
    PROVE  a \div b = c \div d
  <1> DEFINE q == a \div b
  <1>1. q \in Int /\ q * b <= a /\ a < (q + 1) * b
    OBVIOUS
  <1> HIDE DEF q
  <1>2. \A x, y \in Int : \A k \in Nat \ {0} : x * k <= y * k => x <= y
    OBVIOUS
  <1>3. \A x, y \in Int : \A k \in Nat \ {0} : x <= y => x * k <= y * k
    OBVIOUS
  <1>4. \A x, y \in Int : \A k \in Nat \ {0} : x < y => x * k < y * k
    OBVIOUS
  <1>5. \A x, y \in Int : \A k \in Nat \ {0} : x * k < y * k => x < y
    OBVIOUS
  <1>6. (q * b) * d <= a * d /\ a * d < ((q + 1) * b) * d
    <2>1. q * b \in Int /\ (q + 1) * b \in Int
      BY <1>1
    <2> QED BY <1>1, <1>3, <1>4, <2>1
  <1>7. (q * b) * d = (q * d) * b /\ ((q + 1) * b) * d = ((q + 1) * d) * b
    BY <1>1
  <1>8. q * d <= c /\ c < (q + 1) * d
    <2>1. q * d \in Int /\ (q + 1) * d \in Int
      BY <1>1
    <2>2. (q * d) * b <= c * b /\ c * b < ((q + 1) * d) * b
      BY <1>6, <1>7
    <2> QED BY <1>2, <1>5, <2>1, <2>2
  <1>9. c \div d = q
    BY <1>1, <1>8
  <1> QED BY <1>9 DEF q

LEMMA SameEarned ==
    ASSUME NEW r, NEW q, r.ret \in Fractions, q.ret \in Fractions, Same(r.ret, q.ret)
    PROVE  Earned(r) = Earned(q)
  <1> DEFINE a == r.ret[1]
             b == r.ret[2]
             c == q.ret[1]
             d == q.ret[2]
  <1>1. a \in Int /\ b \in Nat \ {0} /\ c \in Int /\ d \in Nat \ {0} /\ a * d = c * b
    BY DEF Fractions, Same
  <1>2. Scale \in Int
    BY AuditAssumption
  <1>3. Earned(r) = (a * Scale) \div b /\ Earned(q) = (c * Scale) \div d
    BY DEF Earned
  <1> HIDE DEF a, b, c, d
  <1>4. a * Scale \in Int /\ c * Scale \in Int
    BY <1>1, <1>2
  <1>5. (a * Scale) * d = (c * Scale) * b
    <2>1. (a * Scale) * d = Scale * (a * d) /\ (c * Scale) * b = Scale * (c * b)
      BY <1>1, <1>2
    <2> QED BY <1>1, <2>1
  <1>6. (a * Scale) \div b = (c * Scale) \div d
    <2> DEFINE x == a * Scale
               y == c * Scale
    <2>1. x \in Int /\ y \in Int /\ x * d = y * b
      BY <1>4, <1>5
    <2> HIDE DEF x, y
    <2>2. x \div b = y \div d
      BY <1>1, <2>1, SameQuotient
    <2> QED BY <2>2 DEF x, y
  <1> QED BY <1>3, <1>6

\* Identical series have the same metric.
LEMMA SameMetric ==
    ASSUME NEW x, SeriesTyped(x), NEW y, SeriesTyped(y), Identical(x, y), NEW months
    PROVE  Metric(x, months) = Metric(y, months)
  <1> DEFINE X == {r \in x : r.date \in months}
             Y == {r \in y : r.date \in months}
             e == [r \in X |-> CHOOSE q \in y : q.date = r.date]
             g == [q \in Y |-> Earned(q)]
             h == [r \in X |-> Earned(r)]
  <1>1. ASSUME NEW r \in X
        PROVE  e[r] \in y /\ e[r].date = r.date
    <2>1. r.date \in Dates(y)
      BY DEF Identical, Dates
    <2>2. \E q \in y : q.date = r.date
      BY <2>1 DEF Dates
    <2> QED BY <2>2
  <1> HIDE DEF e
  <1>2. \A r \in X : e[r] \in Y
    BY <1>1
  <1>3. \A r, q \in X : e[r] = e[q] => r = q
    BY <1>1 DEF SeriesTyped
  <1>4. ASSUME NEW q \in Y PROVE q \in {e[r] : r \in X}
    <2>1. q.date \in Dates(x)
      BY DEF Identical, Dates
    <2>2. PICK r \in x : r.date = q.date
      BY <2>1 DEF Dates
    <2>3. r \in X /\ e[r] = q
      BY <1>1, <2>2 DEF SeriesTyped
    <2> QED BY <2>3
  <1>5. {e[r] : r \in X} = Y
    BY <1>2, <1>4
  <1>6. ASSUME NEW r \in X
        PROVE  g[e[r]] \in Int /\ h[r] = g[e[r]]
    <2>1. r \in x /\ e[r] \in y /\ e[r] \in Y /\ e[r].date = r.date
      BY <1>1, <1>2
    <2>2. Same(r.ret, e[r].ret)
      BY <2>1 DEF Identical
    <2>3. Earned(r) = Earned(e[r])
      BY <2>1, <2>2, SameEarned DEF SeriesTyped
    <2>4. Earned(e[r]) \in Int
      BY <2>1, EarnedTyped
    <2> QED BY <2>1, <2>3, <2>4
  <1>7. IsFiniteSet(X)
    BY FS_Subset DEF SeriesTyped
  <1>8. Sum(X, Earned) = Total(X, h) /\ Sum(Y, Earned) = Total(Y, g)
    BY DEF Sum, Total
  <1> HIDE DEF X, Y, g, h
  <1>9. Total({e[r] : r \in X}, g) = Total(X, h)
    BY <1>3, <1>6, <1>7, TotalImage
  <1> QED BY <1>5, <1>8, <1>9 DEF Metric, X, Y

\* A surface that is the same with i as without it, and its readings at i.
Flat(D, Y, i) == \A U \in SUBSET D : i \notin U => Y[U \cup {i}] = Y[U]

LEMMA FlatDividend ==
    ASSUME NEW D, IsFiniteSet(D), NEW Y \in [SUBSET D -> Int], NEW i \in D, Flat(D, Y, i),
           NEW T \in SUBSET D, i \in T
    PROVE  Dividend(Y, T) = 0
  <1> DEFINE R == T \ {i}
             Yi == WithOn(D, Y, i)
             a == [U \in SUBSET R |-> Sign(Cardinality(R) - Cardinality(U)) * Y[U]]
             b == [U \in SUBSET R |-> Sign(Cardinality(R) - Cardinality(U)) * Yi[U]]
  <1>1. R \in SUBSET D /\ i \in D \ R /\ R \cup {i} = T
    OBVIOUS
  <1>2. DividendsSplit(D, Y, i, R)
    BY ONLY <1>1, IsFiniteSet(D), Y \in [SUBSET D -> Int], DividendSplit, Zenon
  <1>3. Dividend(Y, R) \in Int
    BY <1>1, DividendTyped
  <1>4. Dividend(Yi, R) = Dividend(Y, R)
    <2>1. \A U \in SUBSET R : Yi[U] = Y[U]
      BY <1>1 DEF Flat, WithOn
    <2>2. \A U \in SUBSET R : b[U] = a[U]
      BY <2>1
    <2>3. Dividend(Yi, R) = Total(SUBSET R, b) /\ Dividend(Y, R) = Total(SUBSET R, a)
      BY DEF Dividend
    <2> HIDE DEF a, b
    <2> QED BY <2>2, <2>3, TotalSame
  <1>5. Dividend(Y, T) = Dividend(Yi, R) - Dividend(Y, R)
    BY <1>1, <1>2 DEF DividendsSplit
  <1> HIDE DEF R, Yi
  <1> QED BY <1>3, <1>4, <1>5

LEMMA FlatContrast ==
    ASSUME NEW D, IsFiniteSet(D), NEW Y \in [SUBSET D -> Int], NEW i \in D, Flat(D, Y, i),
           NEW T \in SUBSET D, i \in T
    PROVE  Contrast(D, Y, T) = 0
  <1> DEFINE X == D \ {i}
             R == T \ {i}
             Yi == WithOn(D, Y, i)
             a == [U \in SUBSET X |-> Sign(Cardinality(R \ U)) * Y[U]]
             b == [U \in SUBSET X |-> Sign(Cardinality(R \ U)) * Yi[U]]
  <1>1. X \in SUBSET D /\ i \in D \ X /\ R \in SUBSET X /\ R \cup {i} = T /\ X \cup {i} = D
    OBVIOUS
  <1>2. SplitsAt(D, Y, X, i, R)
    BY ONLY <1>1, IsFiniteSet(D), Y \in [SUBSET D -> Int], ContrastSplit, Zenon
  <1>3. Contrast(X, Y, R) \in Int
    BY <1>1, ContrastTyped
  <1>4. Contrast(X, Yi, R) = Contrast(X, Y, R)
    <2>1. \A U \in SUBSET X : Yi[U] = Y[U]
      BY <1>1 DEF Flat, WithOn
    <2>2. \A U \in SUBSET X : b[U] = a[U]
      BY <2>1
    <2>3. Contrast(X, Yi, R) = Total(SUBSET X, b) /\ Contrast(X, Y, R) = Total(SUBSET X, a)
      BY DEF Contrast
    <2> HIDE DEF a, b
    <2> QED BY <2>2, <2>3, TotalSame
  <1>5. Contrast(D, Y, T) = Contrast(X, Yi, R) - Contrast(X, Y, R)
    BY <1>1, <1>2 DEF SplitsAt
  <1> HIDE DEF R, Yi, X
  <1> QED BY <1>3, <1>4, <1>5

\* A toggle whose coalitions have no dividend has no value.
LEMMA NoValue ==
    ASSUME NEW D \in SUBSET Toggles, NEW h, DOMAIN h = SUBSET D, Full(h) = D,
           NEW i \in D, \A T \in SUBSET D : i \in T => h[T] = 0
    PROVE  Shapley(h)[i] = 0
  <1> DEFINE W == {T \in SUBSET D : i \in T}
             f == [T \in W |-> h[T] * (ShareUnit \div Cardinality(T))]
  <1>1. Shapley(h)[i] = Sum(W, LAMBDA T : h[T] * (ShareUnit \div Cardinality(T)))
    BY DEF Shapley
  <1>2. Sum(W, LAMBDA T : h[T] * (ShareUnit \div Cardinality(T))) = Total(W, f)
    BY DEF Sum, Total
  <1>3. IsFiniteSet(W)
    <2>1. IsFiniteSet(SUBSET D)
      BY Coalitions
    <2> QED BY <2>1, FS_Subset
  <1>4. \A T \in W : f[T] = IF T \in {} THEN 0 ELSE 0
    <2> TAKE T \in W
    <2> DEFINE u == ShareUnit \div Cardinality(T)
    <2>1. Cardinality(T) \in 1 .. 5
      BY Coalitions
    <2>2. u \in Int
      BY <2>1, AuditAssumption
    <2>3. f[T] = 0 * u
      OBVIOUS
    <2> HIDE DEF u
    <2>4. 0 * u = 0
      BY <2>2
    <2> QED BY <2>3, <2>4
  <1> HIDE DEF W, f
  <1>5. Total(W, f) = Cardinality({}) * 0
    BY <1>3, <1>4, TotalWhere
  <1>6. Cardinality({}) = 0
    BY FS_EmptySet
  <1>7. Total(W, f) = 0
    BY <1>5, <1>6
  <1> QED BY <1>1, <1>2, <1>7

\* A strategy's run depends on its view and the legs' rulebooks.
LEMMA SameStrategy ==
    ASSUME NEW a, NEW rc, NEW other, NEW view,
           \A j \in DOMAIN a.legs :
               OverrideConstruction(a.legs[j].rulebook, rc, a.offTrim)
                   = OverrideConstruction(a.legs[j].rulebook, other, a.offTrim)
    PROVE  RunStrategy(a, rc, view) = RunStrategy(a, other, view)
  <1> DEFINE Rows(c) == UNION {{[leg |-> j, row |-> r] : r \in RunLeg(a.legs[j], c, a.offTrim, view)} :
                                  j \in DOMAIN a.legs}
             Combined(X) ==
                 {[date |-> m,
                   ret |-> Average({x \in X : x.row.date = m}, LAMBDA x : LongShort(x.row)),
                   bonds |-> Sum({x \in X : x.row.date = m}, LAMBDA x : x.row.bonds)] :
                      m \in {x.row.date : x \in X}}
  <1>1. \A j \in DOMAIN a.legs :
            RunLeg(a.legs[j], rc, a.offTrim, view) = RunLeg(a.legs[j], other, a.offTrim, view)
    BY DEF RunLeg
  <1>2. Rows(rc) = Rows(other)
    BY <1>1
  <1>3. RunStrategy(a, rc, view) = Combined(Rows(rc)) /\ RunStrategy(a, other, view) = Combined(Rows(other))
    BY DEF RunStrategy
  <1> HIDE DEF Rows, Combined
  <1> QED BY <1>2, <1>3

LEMMA SameSeries == ASSUME NEW x, SeriesTyped(x) PROVE Identical(x, x)
  BY DEF SeriesTyped, Identical, Same

\* The configurations of an edge differ.
LEMMA EdgeConfigs ==
    ASSUME NEW S, NEW i \in Toggles \ {"lib_gap"}, i \notin S
    PROVE  BuildRunConfig(S) # BuildRunConfig(S \cup {i})
  <1> DEFINE off == BuildRunConfig(S)
             on == BuildRunConfig(S \cup {i})
  <1>1. CASE i = "meas_err"
    <2>1. off.price_family = "published" /\ on.price_family = "corr"
      BY <1>1 DEF BuildRunConfig
    <2> HIDE DEF off, on
    <2>3. off # on
      BY <2>1
    <2> QED BY <2>3 DEF off, on
  <1>2. CASE i = "stale_price"
    <2>1. /\ off.stale_mask = ("stale_price" \in S)
          /\ on.stale_mask = ("stale_price" \in S \cup {i})
      BY DEF BuildRunConfig
    <2>2. "stale_price" \notin S /\ "stale_price" \in S \cup {i}
      BY <1>2
    <2> HIDE DEF off, on
    <2>3. off # on
      BY <2>1, <2>2, Zenon
    <2> QED BY <2>3 DEF off, on
  <1>3. CASE i = "survivorship"
    <2>1. /\ off.include_terminal_rows = ("survivorship" \in S)
          /\ on.include_terminal_rows = ("survivorship" \in S \cup {i})
      BY DEF BuildRunConfig
    <2>2. "survivorship" \notin S /\ "survivorship" \in S \cup {i}
      BY <1>3
    <2> HIDE DEF off, on
    <2>3. off # on
      BY <2>1, <2>2, Zenon
    <2> QED BY <2>3 DEF off, on
  <1>4. CASE i = "lab_trim"
    <2>1. off.expost_trim = "as_published" /\ on.expost_trim = "none"
      BY <1>4 DEF BuildRunConfig
    <2> HIDE DEF off, on
    <2>3. off # on
      BY <2>1
    <2> QED BY <2>3 DEF off, on
  <1> QED BY <1>1, <1>2, <1>3, <1>4 DEF Toggles

\* Without a case of a toggle of the panel, the views of an edge are the same.
LEMMA SameViews ==
    ASSUME NEW a, NEW i \in Toggles \ {"lib_gap"}, NoCase(a, i), NEW S
    PROVE  View(panel, BuildRunConfig(S)) = View(panel, BuildRunConfig(S \cup {i}))
  <1> DEFINE off == BuildRunConfig(S)
             on == BuildRunConfig(S \cup {i})
             Stale(rc, t, b) == t \in DOMAIN panel /\ OfFamily(panel[t][b], rc).stale
             Masked(rc, t, b) == rc.stale_mask /\ (Stale(rc, t, b) \/ Stale(rc, t - 1, b))
             Row(rc, t, b) == [score |-> OfFamily(panel[t][b], rc).score,
                               size |-> panel[t][b].size,
                               ret |-> IF Masked(rc, t, b) THEN NaN
                                       ELSE OfFamily(panel[t][b], rc).ret]
             Cell(rc, t, b) == IF panel[t][b].distress /\ ~rc.include_terminal_rows THEN NoRow
                               ELSE Row(rc, t, b)
             rows == UNION {{panel[t][b] : b \in Bonds} : t \in DOMAIN panel}
  <1>1. \A rc : View(panel, rc) = [t \in DOMAIN panel |-> [b \in Bonds |-> Cell(rc, t, b)]]
    BY DEF View
  <1>2. /\ off.price_family = (IF "meas_err" \in S THEN "corr" ELSE "published")
        /\ on.price_family = (IF "meas_err" \in S \cup {i} THEN "corr" ELSE "published")
        /\ off.stale_mask = ("stale_price" \in S) /\ on.stale_mask = ("stale_price" \in S \cup {i})
        /\ off.include_terminal_rows = ("survivorship" \in S)
        /\ on.include_terminal_rows = ("survivorship" \in S \cup {i})
    BY DEF BuildRunConfig
  <1> SUFFICES \A t \in DOMAIN panel : \A b \in Bonds : Cell(off, t, b) = Cell(on, t, b)
    <2> HIDE DEF Cell, off, on
    <2>1. \A t \in DOMAIN panel :
              [b \in Bonds |-> Cell(off, t, b)] = [b \in Bonds |-> Cell(on, t, b)]
      OBVIOUS
    <2>2. View(panel, off) = [t \in DOMAIN panel |-> [b \in Bonds |-> Cell(off, t, b)]]
      BY <1>1
    <2>3. View(panel, on) = [t \in DOMAIN panel |-> [b \in Bonds |-> Cell(on, t, b)]]
      BY <1>1
    <2>4. View(panel, off) = View(panel, on)
      BY <2>1, <2>2, <2>3
    <2> QED BY <2>4 DEF off, on
  <1> HIDE DEF off, on
  <1>3. \A t \in DOMAIN panel : \A b \in Bonds : panel[t][b] \in rows
    OBVIOUS
  <1>4. ASSUME \A t \in DOMAIN panel : \A b \in Bonds :
                   /\ OfFamily(panel[t][b], off).score = OfFamily(panel[t][b], on).score
                   /\ OfFamily(panel[t][b], off).ret = OfFamily(panel[t][b], on).ret
                   /\ Masked(off, t, b) <=> Masked(on, t, b)
                   /\ (panel[t][b].distress /\ ~off.include_terminal_rows)
                          <=> (panel[t][b].distress /\ ~on.include_terminal_rows)
        PROVE  \A t \in DOMAIN panel : \A b \in Bonds : Cell(off, t, b) = Cell(on, t, b)
    <2> TAKE t \in DOMAIN panel
    <2> TAKE b \in Bonds
    <2> HIDE DEF Masked
    <2>1. Row(off, t, b) = Row(on, t, b)
      BY <1>4
    <2> HIDE DEF Row
    <2> QED BY <1>4, <2>1
  <1>5. CASE i = "meas_err"
    <2>1. \A r \in rows : r.score = r.published.score /\ r.ret = r.published.ret
                          /\ r.stale = r.published.stale
      BY <1>5 DEF NoCase
    <2>2. \A t \in DOMAIN panel : \A b \in Bonds :
              /\ OfFamily(panel[t][b], off).score = OfFamily(panel[t][b], on).score
              /\ OfFamily(panel[t][b], off).ret = OfFamily(panel[t][b], on).ret
              /\ OfFamily(panel[t][b], off).stale = OfFamily(panel[t][b], on).stale
      BY <1>3, <2>1 DEF OfFamily
    <2>3. off.stale_mask = on.stale_mask /\ off.include_terminal_rows = on.include_terminal_rows
      BY <1>2, <1>5
    <2>4. \A b \in Bonds : \A t : Stale(off, t, b) <=> Stale(on, t, b)
      BY <2>2
    <2> HIDE DEF Stale, rows
    <2> QED BY <1>4, <2>2, <2>3, <2>4
  <1>6. CASE i = "stale_price"
    <2>1. \A r \in rows : ~r.stale /\ ~r.published.stale
      BY <1>6 DEF NoCase
    <2>2. \A b \in Bonds : \A t, rc : ~Stale(rc, t, b)
      BY <1>3, <2>1 DEF OfFamily
    <2>3. off.price_family = on.price_family /\ off.include_terminal_rows = on.include_terminal_rows
      BY <1>2, <1>6
    <2> HIDE DEF Stale, rows
    <2> QED BY <1>4, <2>2, <2>3 DEF OfFamily
  <1>7. CASE i = "survivorship"
    <2>1. \A r \in rows : ~r.distress
      BY <1>7 DEF NoCase
    <2>2. off.price_family = on.price_family /\ off.stale_mask = on.stale_mask
      BY <1>2, <1>7
    <2>3. \A t, b : Stale(off, t, b) <=> Stale(on, t, b)
      BY <2>2 DEF OfFamily
    <2>4. \A t \in DOMAIN panel : \A b \in Bonds : ~panel[t][b].distress
      BY <1>3, <2>1
    <2> HIDE DEF Stale, rows
    <2> QED BY <1>4, <2>2, <2>3, <2>4 DEF OfFamily
  <1>8. CASE i = "lab_trim"
    <2>2. /\ off.price_family = on.price_family /\ off.stale_mask = on.stale_mask
          /\ off.include_terminal_rows = on.include_terminal_rows
      BY <1>2, <1>8
    <2>3. \A t, b : Stale(off, t, b) <=> Stale(on, t, b)
      BY <2>2 DEF OfFamily
    <2> HIDE DEF Stale, rows
    <2> QED BY <1>4, <2>2, <2>3 DEF OfFamily
  <1> QED BY <1>5, <1>6, <1>7, <1>8 DEF Toggles

\* Nor do its legs differ.
LEMMA SameConstruction ==
    ASSUME NEW a, NEW i \in Toggles \ {"lib_gap"}, NoCase(a, i), NEW S,
           NEW j \in DOMAIN a.legs, a.legs[j].rulebook \in ValidRulebooks
    PROVE  OverrideConstruction(a.legs[j].rulebook, BuildRunConfig(S), a.offTrim)
               = OverrideConstruction(a.legs[j].rulebook, BuildRunConfig(S \cup {i}), a.offTrim)
  <1> DEFINE off == BuildRunConfig(S)
             on == BuildRunConfig(S \cup {i})
             rb == a.legs[j].rulebook
             TrimOf(rc) == IF rc.expost_trim = "none" THEN [rb.trim EXCEPT !.method = "none"]
                           ELSE IF a.offTrim.method # "none" THEN a.offTrim ELSE rb.trim
  <1>1. \A rc : OverrideConstruction(rb, rc, a.offTrim)
                    = [rb EXCEPT !.lag = rc.signal_lag, !.trim = TrimOf(rc)]
    BY DEF ValidRulebooks, OverrideConstruction
  <1>2. off.signal_lag = on.signal_lag
    BY DEF BuildRunConfig
  <1>3. TrimOf(off) = TrimOf(on)
    <2>1. CASE i = "lab_trim"
      <3>1. rb.trim.method = "none" /\ a.offTrim.method = "none"
        BY <2>1 DEF NoCase
      <3>2. rb.trim \in TrimRules
        BY DEF ValidRulebooks
      <3> HIDE DEF rb
      <3>3. [rb.trim EXCEPT !.method = "none"] = rb.trim
        BY <3>1, <3>2 DEF TrimRules
      <3> HIDE DEF off, on
      <3> QED BY <3>1, <3>3
    <2>2. CASE i # "lab_trim"
      <3>1. off.expost_trim = on.expost_trim
        BY <2>2 DEF BuildRunConfig
      <3> HIDE DEF off, on
      <3> QED BY <3>1
    <2> QED BY <2>1, <2>2
  <1> HIDE DEF off, on, TrimOf, rb
  <1> QED BY <1>1, <1>2, <1>3 DEF off, on, rb

LEMMA NoCaseIsNoOp ==
    ASSUME LatticeTyped, NEW i \in Runnable(audit.anchor), NoCase(audit.anchor, i)
    PROVE  IsNoOp(audit.cells, i)
  <1> DEFINE a == audit.anchor
             cells == audit.cells
             configs == BuildLatticeConfigs(a)
             always == With(a, {"ON", "not_applicable"})
  <1>1. i \in Toggles \ {"lib_gap"} /\ i \notin always
    BY DEF NoCase, Runnable, With
  <1> SUFFICES ASSUME NEW S \in SUBSET Runnable(a), i \notin S
               PROVE  Inert(cells[S], cells[S \cup {i}])
    BY DEF LatticeTyped, IsNoOp
  <1> DEFINE off == BuildRunConfig(S \cup always)
             on == BuildRunConfig((S \cup always) \cup {i})
  <1>2. S \cup {i} \in SUBSET Runnable(a) /\ (S \cup {i}) \cup always = (S \cup always) \cup {i}
    OBVIOUS
  <1>3. /\ cells[S].config = off /\ cells[S \cup {i}].config = on
        /\ cells[S].series = RunStrategy(a, off, View(panel, off))
        /\ cells[S \cup {i}].series = RunStrategy(a, on, View(panel, on))
        /\ SeriesTyped(cells[S].series) /\ a \in Anchors
    BY <1>2 DEF LatticeTyped
  <1>4. off # on
    <2>1. i \notin S \cup always
      BY <1>1
    <2> HIDE DEF always
    <2> QED BY <1>1, <2>1, EdgeConfigs
  <1>5. View(panel, off) = View(panel, on)
    <2> HIDE DEF always
    <2> QED BY <1>1, SameViews
  <1>6. \A j \in DOMAIN a.legs :
            OverrideConstruction(a.legs[j].rulebook, off, a.offTrim)
                = OverrideConstruction(a.legs[j].rulebook, on, a.offTrim)
    <2>1. \A j \in DOMAIN a.legs : a.legs[j].rulebook \in ValidRulebooks
      BY <1>3, AuditAssumption
    <2> HIDE DEF always
    <2> QED BY <1>1, <2>1, SameConstruction
  <1> HIDE DEF off, on, cells
  <1>7. RunStrategy(a, off, View(panel, on)) = RunStrategy(a, on, View(panel, on))
    BY <1>6, SameStrategy
  <1>8. Identical(cells[S].series, cells[S \cup {i}].series)
    BY <1>3, <1>5, <1>7, SameSeries
  <1> QED BY <1>3, <1>4, <1>8 DEF Inert

(* A toggle certified inert gets nothing in any reading and satisfies       *)
(* CORE-SYNC-1, and one that no row of the panel is a case of is certified, *)
(* whatever the strategy's legs, holds and sorts.                           *)
THEOREM TheNoOpIsMeasured == AuditSpec => []NoOpIsMeasured
  <1>1. AuditedInv => NoOpIsMeasured
    <2> SUFFICES ASSUME AuditedInv, Audited
                 PROVE  NoOpIsMeasured
      BY DEF NoOpIsMeasured
    <2> DEFINE a == audit.anchor
               D == Runnable(a)
               Y == audit.metric
    <2>1. LatticeTyped
      BY CellsTyped
    <2>2. /\ D \in SUBSET Toggles /\ Y \in [SUBSET D -> Int] /\ DOMAIN audit.cells = SUBSET D
          /\ a \in Anchors /\ IsFiniteSet(D) /\ IsFiniteSet(SUBSET D)
      BY <2>1, Coalitions DEF LatticeTyped
    <2>3. /\ audit.harsanyi = Harsanyi(Y) /\ audit.walsh = Walsh(Y)
          /\ audit.shapley = Shapley(audit.harsanyi) /\ Scope(a) # "REFUSED"
          /\ audit.noOps = {i \in D \cap a.expected : IsNoOp(audit.cells, i)}
          /\ audit.coreSync = CoreSync1(a, audit.walsh)
      BY DEF AuditedInv, AnchorInv, Audited
    <2>4. /\ audit.harsanyi = [T \in SUBSET D |-> Dividend(Y, T)]
          /\ audit.walsh = [T \in SUBSET D |-> Contrast(D, Y, T)]
          /\ Full(Y) = D /\ Full(audit.harsanyi) = D
      <3> HIDE DEF D, Y
      <3>1. Harsanyi(Y) = [T \in SUBSET D |-> Dividend(Y, T)] /\ Full(Y) = D /\ Full(Harsanyi(Y)) = D
        BY ONLY <2>2, HarsanyiIs
      <3>2. Walsh(Y) = [T \in SUBSET D |-> Contrast(D, Y, T)]
        BY ONLY <2>2, WalshIs
      <3> QED BY <2>3, <3>1, <3>2
    <2>5. ASSUME NEW i \in audit.noOps
          PROVE  i \in D /\ Flat(D, Y, i)
      <3>1. i \in D /\ IsNoOp(audit.cells, i)
        BY <2>3
      <3>2. ASSUME NEW S \in SUBSET D, i \notin S
            PROVE  Y[S \cup {i}] = Y[S]
        <4>1. S \cup {i} \in SUBSET D
          BY <3>1
        <4>2. Identical(audit.cells[S].series, audit.cells[S \cup {i}].series)
          BY <2>2, <3>1, <3>2 DEF IsNoOp, Inert
        <4>3. /\ Y[S] = Metric(audit.cells[S].series, audit.common)
              /\ Y[S \cup {i}] = Metric(audit.cells[S \cup {i}].series, audit.common)
              /\ SeriesTyped(audit.cells[S].series) /\ SeriesTyped(audit.cells[S \cup {i}].series)
          BY <2>1, <4>1 DEF LatticeTyped
        <4> HIDE DEF Y
        <4> QED BY <4>2, <4>3, SameMetric
      <3> QED BY <3>1, <3>2 DEF Flat
    <2> HIDE DEF D, Y
    <2>6. ASSUME NEW i \in audit.noOps, NEW T \in SUBSET D, i \in T
          PROVE  audit.harsanyi[T] = 0 /\ audit.walsh[T] = 0
      <3>1. Dividend(Y, T) = 0 /\ Contrast(D, Y, T) = 0
        BY <2>2, <2>5, <2>6, FlatDividend, FlatContrast
      <3> QED BY <2>4, <3>1
    <2>7. ASSUME NEW i \in audit.noOps
          PROVE  /\ audit.shapley[i] = 0
                 /\ AddIn(Y)[i] = 0 /\ LeaveOut(Y)[i] = 0
      <3>1. Shapley(audit.harsanyi)[i] = 0
        <4> DEFINE h == audit.harsanyi
        <4>1. DOMAIN h = SUBSET D /\ Full(h) = D /\ i \in D
          BY <2>4, <2>5
        <4>2. \A T \in SUBSET D : i \in T => h[T] = 0
          BY <2>6
        <4> HIDE DEF h
        <4>3. Shapley(h)[i] = 0
          BY <2>2, <4>1, <4>2, NoValue
        <4> QED BY <4>3 DEF h
      <3>2. AddIn(Y)[i] = Y[{i}] - Y[{}] /\ LeaveOut(Y)[i] = Y[D] - Y[D \ {i}]
        BY <2>4, <2>5 DEF AddIn, LeaveOut
      <3>3. Y[{} \cup {i}] = Y[{}] /\ Y[(D \ {i}) \cup {i}] = Y[D \ {i}]
        BY <2>5 DEF Flat
      <3>4. {} \cup {i} = {i} /\ (D \ {i}) \cup {i} = D
        BY <2>5
      <3>5. Y[{}] \in Int /\ Y[D] \in Int
        BY <2>2
      <3>6. Y[{i}] = Y[{}] /\ Y[D] = Y[D \ {i}]
        BY <3>3, <3>4
      <3>7. AddIn(Y)[i] = 0 /\ LeaveOut(Y)[i] = 0
        BY <3>2, <3>5, <3>6
      <3> QED BY <2>3, <3>1, <3>7
    <2>8. ASSUME "stale_price" \in audit.noOps, "meas_err" \notin Held(a)
          PROVE  audit.coreSync
      <3>1. a.facts["meas_err"] \in Dispositions /\ "meas_err" \in Toggles
        BY <2>2, AuditAssumption DEF Toggles
      <3>2. a.facts["meas_err"] # "unavailable"
        BY <2>3, <3>1 DEF Scope, With
      <3>3. a.facts["meas_err"] \notin {"OFF", "ON"}
        BY <2>8, <3>1 DEF Held, With
      <3>4. a.facts["meas_err"] \in {"runnable", "not_applicable"}
        BY <3>1, <3>2, <3>3 DEF Dispositions
      <3>5. CASE a.facts["meas_err"] = "not_applicable"
        BY <2>3, <3>5 DEF CoreSync1
      <3>6. CASE a.facts["meas_err"] = "runnable"
        <4>1. "meas_err" \in D /\ "stale_price" \in D
          BY <2>5, <2>8, <3>1, <3>6 DEF D, Runnable, With
        <4>2. {"stale_price"} \in SUBSET D /\ {"meas_err", "stale_price"} \in SUBSET D
          BY <4>1
        <4>3. audit.walsh[{"stale_price"}] = 0 /\ audit.walsh[{"meas_err", "stale_price"}] = 0
          BY <2>6, <2>8, <4>2
        <4>4. DOMAIN audit.walsh = SUBSET D
          BY <2>4
        <4> QED BY <2>3, <4>2, <4>3, <4>4 DEF CoreSync1
      <3> QED BY <3>4, <3>5, <3>6
    <2>9. \A i \in D \cap a.expected : NoCase(a, i) => i \in audit.noOps
      BY <2>1, <2>3, NoCaseIsNoOp DEF D
    <2>10. DOMAIN Y = SUBSET D
      BY <2>2
    <2> QED BY <2>6, <2>7, <2>8, <2>9, <2>10 DEF NoOpIsMeasured, Y, D
  <1> QED BY <1>1, AuditedInvariant, PTL

-----------------------------------------------------------------------------
(* The first month of a cohort.                                            *)

LEMMA PanelNumbers ==
    ASSUME NEW p \in Seq([Bonds -> AnyRow])
    PROVE  NumberPanel(p) /\ DOMAIN p \in SUBSET Nat
  <1>1. IsFiniteSet(1 .. Len(p)) /\ DOMAIN p = 1 .. Len(p)
    BY FS_Interval
  <1>2. ASSUME NEW t \in 1 .. Len(p), NEW b \in Bonds
        PROVE  p[t][b].score \in Int /\ p[t][b].size \in Int /\ p[t][b].ret \in Int
    <2>1. PICK c \in Bonds : p[t][b] \in Cells[c]
      BY DEF AnyRow
    <2> QED BY <2>1, SortAssumption
  <1> QED BY <1>1, <1>2 DEF NumberPanel

\* The average of one fraction, and the sum of one number.
LEMMA MeanOfOne ==
    ASSUME NEW x, NEW f, f[x] \in Fractions
    PROVE  Same(Mean({x}, f), f[x])
  <1> DEFINE g == [y \in {x} |-> f[y]]
  <1>1. DOMAIN g = {x} /\ IsFiniteSet({x}) /\ Cardinality({x}) = 1 /\ g[x] = f[x]
    BY FS_Singleton
  <1>2. PICK sum : IsPart("fractions", g, {x}, sum) /\ FoldFunction(Plus, <<0, 1>>, g) = sum[{x}]
    <2> HIDE DEF g
    <2> QED BY <1>1, AddedIsPart, Zenon
  <1> HIDE DEF g
  <1>3. AnyOf({x}) = x /\ {x} \ {x} = {} /\ {x} # {} /\ {x} \in SUBSET {x} /\ {} \in SUBSET {x}
    BY DEF AnyOf
  <1>4. sum[{x}] = PartAt("fractions", g, {x}, sum) /\ sum[{}] = PartAt("fractions", g, {}, sum)
    BY <1>2, <1>3 DEF IsPart
  <1>5. sum[{}] = <<0, 1>> /\ sum[{x}] = Plus(g[x], sum[{}])
    BY <1>3, <1>4 DEF PartAt
  <1>6. f[x][1] \in Int /\ f[x][2] \in Nat \ {0}
    BY DEF Fractions
  <1>7. Added({x}, f) = Plus(f[x], <<0, 1>>)
    BY <1>1, <1>2, <1>5 DEF Added, g
  <1>8. Added({x}, f)[1] = f[x][1] /\ Added({x}, f)[2] = f[x][2]
    BY <1>6, <1>7 DEF Plus
  <1>9. Mean({x}, f)[1] = f[x][1] /\ Mean({x}, f)[2] = f[x][2]
    BY <1>1, <1>6, <1>8 DEF Mean
  <1> QED BY <1>6, <1>9 DEF Same

\* The row of one pair of legs.
LEMMA RowOfOne ==
    ASSUME NEW month, NEW x, x.long \in Fractions, x.short \in Fractions, x.bonds \in Int
    PROVE  \E r : /\ MeanRow(month, {x}) = {r}
                  /\ Same(r.long, x.long) /\ Same(r.short, x.short) /\ r.bonds = x.bonds
  <1> DEFINE long == [y \in {x} |-> y.long]
             short == [y \in {x} |-> y.short]
             bonds == [y \in {x} |-> y.bonds]
             r == [date |-> month, long |-> Mean({x}, long), short |-> Mean({x}, short),
                   bonds |-> Total({x}, bonds)]
  <1>1. /\ Average({x}, LAMBDA y : y.long) = Mean({x}, long)
        /\ Average({x}, LAMBDA y : y.short) = Mean({x}, short)
        /\ Sum({x}, LAMBDA y : y.bonds) = Total({x}, bonds)
    BY DEF Average, Mean, Added, Sum, Total
  <1>2. MeanRow(month, {x}) = {r}
    BY <1>1 DEF MeanRow
  <1>3. long[x] = x.long /\ short[x] = x.short /\ bonds[x] = x.bonds
    OBVIOUS
  <1> HIDE DEF long, short, bonds
  <1>4. Same(Mean({x}, long), x.long)
    BY <1>3, MeanOfOne
  <1>5. Same(Mean({x}, short), x.short)
    BY <1>3, MeanOfOne
  <1>6. Total({x}, bonds) = x.bonds
    BY <1>3, TotalOne
  <1>7. Same(r.long, x.long) /\ Same(r.short, x.short) /\ r.bonds = x.bonds
    BY <1>4, <1>5, <1>6
  <1> QED BY <1>2, <1>7

\* A leg depends on the returns of its bonds.
LEMMA LegOnBonds ==
    ASSUME NEW S, NEW weight, NEW x, NEW y, \A b \in S : x[b] = y[b]
    PROVE  Leg(S, weight, x) = Leg(S, weight, y)
  <1> DEFINE f == [b \in S |-> weight[b] * x[b]]
             g == [b \in S |-> weight[b] * y[b]]
  <1>1. f = g
    OBVIOUS
  <1>2. Sum(S, LAMBDA b : weight[b] * x[b]) = SumFunction(f)
        /\ Sum(S, LAMBDA b : weight[b] * y[b]) = SumFunction(g)
    BY DEF Sum
  <1> DEFINE total == Sum(S, LAMBDA b : weight[b])
             u == Sum(S, LAMBDA b : weight[b] * x[b])
             v == Sum(S, LAMBDA b : weight[b] * y[b])
  <1>3. /\ Leg(S, weight, x) = IF S = {} \/ total <= 0 THEN NoLeg ELSE <<u, total>>
        /\ Leg(S, weight, y) = IF S = {} \/ total <= 0 THEN NoLeg ELSE <<v, total>>
    BY DEF Leg
  <1>4. u = v
    BY <1>1, <1>2
  <1> HIDE DEF total, u, v
  <1> QED BY <1>3, <1>4

LEMMA UniverseIs ==
    ASSUME NEW p, NEW rb, NEW t, NEW b \in Universe(p, rb, t)
    PROVE  /\ b \in Bonds /\ Month(p, t + 1, "ret")[b] # NaN /\ Month(p, t, "size")[b] # NaN
           /\ rb.trim.method = "truncate" =>
                  /\ Above(Month(p, t + 1, "ret")[b], rb.trim.lo)
                  /\ Below(Month(p, t + 1, "ret")[b], rb.trim.hi)
  BY DEF Universe, Trimmed, Eligible

\* In the month after formation the cohort earns what the engine counts.
LEMMA FirstReturn ==
    ASSUME NEW p, NEW rb, rb.trim.method \in {"none", "truncate", "winsorise"},
           NEW t, NEW b \in Universe(p, rb, t)
    PROVE  /\ TrimmedReturn(rb, Month(p, t + 1, "ret")[b]) = NextReturn(p, rb, t)[b]
           /\ TrimmedReturn(rb, Month(p, t + 1, "ret")[b]) # NaN
  <1> DEFINE r == Month(p, t + 1, "ret")[b]
  <1>1. /\ b \in Bonds /\ r # NaN
        /\ rb.trim.method = "truncate" => Above(r, rb.trim.lo) /\ Below(r, rb.trim.hi)
    BY UniverseIs
  <1>2. NextReturn(p, rb, t)[b] = IF rb.trim.method = "winsorise" THEN Clip(r, rb.trim) ELSE r
    BY <1>1 DEF NextReturn
  <1> HIDE DEF r
  <1>3. Clip(r, rb.trim) # NaN
    BY <1>1 DEF Clip, Above, Below
  <1>4. TrimmedReturn(rb, r) = IF rb.trim.method = "winsorise" THEN Clip(r, rb.trim) ELSE r
    BY <1>1 DEF TrimmedReturn
  <1> QED BY <1>1, <1>2, <1>3, <1>4 DEF r

\* The pair of legs of a formation month without a control.
PairAt(p, rb, t) ==
    [long |-> Leg(Selection(p, rb, t).long, Weight(rb, Month(p, t, "size")), NextReturn(p, rb, t)),
     short |-> Leg(Selection(p, rb, t).short, Weight(rb, Month(p, t, "size")), NextReturn(p, rb, t)),
     stripe |-> 0,
     bonds |-> Cardinality(Selection(p, rb, t).long \cup Selection(p, rb, t).short)]
Paired(p, rb, t) == NoLeg \notin {PairAt(p, rb, t).long, PairAt(p, rb, t).short}

LEMMA SelectionIs ==
    ASSUME NEW p, NEW rb, NEW t
    PROVE  LET score == ScoreGroups(p, rb, t, Universe(p, rb, t))
           IN /\ Selection(p, rb, t).long = {b \in Universe(p, rb, t) : score[b] = rb.long}
              /\ Selection(p, rb, t).short = {b \in Universe(p, rb, t) : score[b] = rb.short}
  <1> DEFINE score == ScoreGroups(p, rb, t, Universe(p, rb, t))
  <1>1. DOMAIN score = Universe(p, rb, t)
    BY DEF ScoreGroups, Group
  <1>2. /\ Selection(p, rb, t).long = {b \in DOMAIN score : score[b] = rb.long}
        /\ Selection(p, rb, t).short = {b \in DOMAIN score : score[b] = rb.short}
    BY DEF Selection
  <1> QED BY <1>1, <1>2

LEMMA EngineMonth ==
    ASSUME NEW p, NEW rb, rb.control = "none", NEW t
    PROVE  MonthStep(p, rb, t)
               = IF Paired(p, rb, t) THEN MeanRow(t + 1, {PairAt(p, rb, t)}) ELSE {}
  <1> DEFINE S == Universe(p, rb, t)
             score == ScoreGroups(p, rb, t, S)
             weight == Weight(rb, Month(p, t, "size"))
             next == NextReturn(p, rb, t)
             stripe == Stripes(p, rb, t, S)
             Side(s, g) == {b \in S : stripe[b] = s /\ score[b] = g}
             Pair(s) == [long |-> Leg(Side(s, rb.long), weight, next),
                         short |-> Leg(Side(s, rb.short), weight, next),
                         stripe |-> s,
                         bonds |-> Cardinality(Side(s, rb.long) \cup Side(s, rb.short))]
             E == {stripe[b] : b \in S}
             legs == StripeLegs(S, score, stripe, weight, next, rb)
             pair == PairAt(p, rb, t)
  <1>1. MonthStep(p, rb, t) = MeanRow(t + 1, legs)
    BY DEF MonthStep
  <1>2. legs = {leg \in {Pair(s) : s \in E} : NoLeg \notin {leg.long, leg.short}}
    BY DEF StripeLegs
  <1>3. stripe = [b \in S |-> 0]
    BY DEF Stripes
  <1>4. \A g : Side(0, g) = {b \in S : score[b] = g}
    BY <1>3
  <1>5. /\ Selection(p, rb, t).long = Side(0, rb.long)
        /\ Selection(p, rb, t).short = Side(0, rb.short)
    BY <1>4, SelectionIs
  <1>6. Pair(0) = pair
    <2> HIDE DEF Side, weight, next
    <2> QED BY <1>5 DEF PairAt, weight, next
  <1>7. E = IF S = {} THEN {} ELSE {0}
    BY <1>3
  <1>8. S = {} => pair.long = NoLeg
    <2>1. S = {} => Selection(p, rb, t).long = {}
      BY SelectionIs
    <2> QED BY <2>1 DEF PairAt, Leg
  <1>9. {Pair(s) : s \in E} = IF S = {} THEN {} ELSE {pair}
    <2> HIDE DEF Pair, S, E, pair
    <2> QED BY <1>6, <1>7
  <1> HIDE DEF S, Pair, E, pair, legs, stripe, score, weight, next
  <1>10. legs = IF Paired(p, rb, t) THEN {pair} ELSE {}
    <2>1. Paired(p, rb, t) <=> NoLeg \notin {pair.long, pair.short}
      BY DEF Paired, pair
    <2> QED BY <1>2, <1>8, <1>9, <2>1
  <1> QED BY <1>1, <1>10 DEF MeanRow, pair

LEMMA OpeningMonth ==
    ASSUME NEW p, NEW rb, rb.trim.method \in {"none", "truncate", "winsorise"}, NEW t
    PROVE  IF Paired(p, rb, t)
           THEN \E c : /\ Contribution(p, rb, t, t + 1) = {c}
                       /\ c.long = PairAt(p, rb, t).long /\ c.short = PairAt(p, rb, t).short
                       /\ c.bonds = PairAt(p, rb, t).bonds
           ELSE Contribution(p, rb, t, t + 1) = {}
  <1> DEFINE sel == Selection(p, rb, t)
             m == t + 1
             weight == Weight(rb, Month(p, t, "size"))
             next == NextReturn(p, rb, t)
             trimmed == [b \in Bonds |-> TrimmedReturn(rb, Month(p, m, "ret")[b])]
             Held1(x) == [from |-> t, long |-> LegReturnAt(p, rb, t, x.long, m),
                          short |-> LegReturnAt(p, rb, t, x.short, m),
                          bonds |-> Cardinality(Survivors(p, rb, x.long \cup x.short, m))]
             c == Held1(sel)
             pair == PairAt(p, rb, t)
  <1>1. Contribution(p, rb, t, m)
            = {Held1(x) : x \in {x \in {sel} : Forms(x) /\ NoLeg \notin {Held1(x).long, Held1(x).short}}}
    BY DEF Contribution
  <1>2. ASSUME NEW leg, leg \subseteq Universe(p, rb, t)
        PROVE  /\ Survivors(p, rb, leg, m) = leg
               /\ LegReturnAt(p, rb, t, leg, m) = Leg(leg, weight, next)
    <2>1. \A b \in leg : /\ b \in Bonds
                         /\ TrimmedReturn(rb, Month(p, m, "ret")[b]) = next[b]
                         /\ TrimmedReturn(rb, Month(p, m, "ret")[b]) # NaN
      BY <1>2, FirstReturn, UniverseIs
    <2>2. Survivors(p, rb, leg, m) = leg
      BY <2>1 DEF Survivors
    <2>3. LegReturnAt(p, rb, t, leg, m) = Leg(leg, weight, trimmed)
      BY <2>2 DEF LegReturnAt
    <2>4. \A b \in leg : trimmed[b] = next[b]
      BY <2>1
    <2> HIDE DEF trimmed, next, weight
    <2>5. Leg(leg, weight, trimmed) = Leg(leg, weight, next)
      BY <2>4, LegOnBonds
    <2> QED BY <2>2, <2>3, <2>5
  <1>3. /\ sel.long \subseteq Universe(p, rb, t) /\ sel.short \subseteq Universe(p, rb, t)
        /\ sel.long \cup sel.short \subseteq Universe(p, rb, t)
    BY SelectionIs
  <1>4. /\ c.long = pair.long /\ c.short = pair.short /\ c.bonds = pair.bonds
    <2>1. /\ c.long = LegReturnAt(p, rb, t, sel.long, m)
          /\ c.short = LegReturnAt(p, rb, t, sel.short, m)
          /\ c.bonds = Cardinality(Survivors(p, rb, sel.long \cup sel.short, m))
      OBVIOUS
    <2>2. /\ pair.long = Leg(sel.long, weight, next) /\ pair.short = Leg(sel.short, weight, next)
          /\ pair.bonds = Cardinality(sel.long \cup sel.short)
      BY DEF PairAt
    <2> HIDE DEF c, pair, sel, weight, next
    <2> QED BY <1>2, <1>3, <2>1, <2>2
  <1>5. Paired(p, rb, t) <=> NoLeg \notin {pair.long, pair.short}
    BY DEF Paired
  <1>6. Paired(p, rb, t) => Forms(sel)
    BY <1>5 DEF PairAt, Forms, Leg
  <1> HIDE DEF pair
  <1>7. Paired(p, rb, t) <=> Forms(sel) /\ NoLeg \notin {c.long, c.short}
    <2> HIDE DEF c, sel
    <2> QED BY <1>4, <1>5, <1>6
  <1>8. Contribution(p, rb, t, m) = IF Paired(p, rb, t) THEN {c} ELSE {}
    <2> HIDE DEF Held1, sel
    <2> QED BY <1>1, <1>7
  <1> HIDE DEF c
  <1> QED BY <1>4, <1>8 DEF pair

(* The two paths that pick a month's bonds agree, for every panel and       *)
(* rulebook: what the engine reports for the month after a formation is     *)
(* what a cohort formed then earns in it.                                   *)
THEOREM TheCohortsOpenAsTheEngine == AuditSpec => []CohortsOpenAsTheEngine
  <1>1. PanelType /\ EnginesInv => CohortsOpenAsTheEngine
    <2> SUFFICES ASSUME PanelType, EnginesInv, rulebook.control = "none", NEW t \in DOMAIN panel
                 PROVE  LET engine == {r \in monthly : r.date = t + 1}
                            opening == Contribution(panel, Resolve(panel, rulebook), t, t + 1)
                        IN /\ Cardinality(engine) = Cardinality(opening)
                           /\ \A r \in engine, c \in opening :
                                  /\ Same(r.long, c.long) /\ Same(r.short, c.short)
                                  /\ r.bonds = c.bonds
      BY DEF CohortsOpenAsTheEngine
    <2> DEFINE rb == Resolve(panel, rulebook)
               engine == {r \in monthly : r.date = t + 1}
               opening == Contribution(panel, rb, t, t + 1)
               pair == PairAt(panel, rb, t)
    <2>1. NumberPanel(panel) /\ DOMAIN panel \in SUBSET Nat /\ rulebook \in ValidRulebooks
      BY PanelNumbers, SortAssumption DEF PanelType
    <2>2. /\ NumberTrim(rb) /\ rb.control = "none"
          /\ rb.trim.method \in {"none", "truncate", "winsorise"}
      <3>1. rulebook.trim.method \in {"none", "truncate", "winsorise"} /\ "control" \in DOMAIN rulebook
        BY <2>1 DEF ValidRulebooks, TrimRules
      <3> QED BY <2>1, <3>1, ResolveTyped
    <2>3. engine = MonthStep(panel, rb, t)
      <3>1. monthly = UNION {MonthStep(panel, rb, s) : s \in DOMAIN panel}
        BY DEF EnginesInv, RunCharacteristicSort
      <3>2. \A s \in DOMAIN panel : \A r \in MonthStep(panel, rb, s) : r.date = s + 1
        BY RowDate DEF MonthStep
      <3>3. \A s \in DOMAIN panel : s + 1 = t + 1 => s = t
        BY <2>1
      <3> HIDE DEF rb
      <3> QED BY <3>1, <3>2, <3>3
    <2> HIDE DEF rb
    <2>4. CASE ~Paired(panel, rb, t)
      <3>1. engine = {}
        BY <2>2, <2>3, <2>4, EngineMonth
      <3>2. opening = {}
        BY <2>2, <2>4, OpeningMonth
      <3> HIDE DEF engine, opening
      <3> QED BY <3>1, <3>2 DEF rb, engine, opening
    <2>5. CASE Paired(panel, rb, t)
      <3>1. pair.long \in Fractions /\ pair.short \in Fractions /\ pair.bonds \in Int
        <4> DEFINE sel == Selection(panel, rb, t)
                   weight == Weight(rb, Month(panel, t, "size"))
                   next == NextReturn(panel, rb, t)
        <4>1. /\ sel.long \in SUBSET Bonds /\ sel.short \in SUBSET Bonds
              /\ weight \in [Bonds -> Int] /\ next \in [Bonds -> Int]
          BY <2>1, <2>2, SelectionBonds, MonthTyped, WeightTyped, NextReturnTyped
        <4>2. /\ pair.long = Leg(sel.long, weight, next) /\ pair.short = Leg(sel.short, weight, next)
              /\ pair.bonds = Cardinality(sel.long \cup sel.short)
          BY DEF PairAt
        <4>3. pair.long # NoLeg /\ pair.short # NoLeg
          BY <2>5 DEF Paired
        <4> HIDE DEF sel, weight, next, pair
        <4>4. pair.long \in Fractions /\ pair.short \in Fractions
          BY <4>1, <4>2, <4>3, LegTyped
        <4>5. IsFiniteSet(sel.long \cup sel.short)
          BY <4>1, SortAssumption, FS_Subset
        <4> QED BY <4>2, <4>4, <4>5, FS_CardinalityType
      <3>2. engine = MeanRow(t + 1, {pair})
        BY <2>2, <2>3, <2>5, EngineMonth
      <3>3. PICK c : /\ opening = {c} /\ c.long = pair.long /\ c.short = pair.short
                     /\ c.bonds = pair.bonds
        BY <2>2, <2>5, OpeningMonth
      <3> HIDE DEF pair, engine, opening
      <3>4. PICK r : /\ engine = {r}
                     /\ Same(r.long, pair.long) /\ Same(r.short, pair.short) /\ r.bonds = pair.bonds
        BY <3>1, <3>2, RowOfOne
      <3>5. Cardinality(engine) = 1 /\ Cardinality(opening) = 1
        BY <3>3, <3>4, FS_Singleton
      <3> QED BY <3>3, <3>4, <3>5 DEF engine, opening, rb
    <2> QED BY <2>4, <2>5
  <1> QED BY <1>1, EnginesInvariant, PTL DEF AuditSpec

-----------------------------------------------------------------------------
(* Within the bounds of a trim.                                            *)

\* For s = 1 the fraction x is at least k; for s = -1 it is at most -k.
Beyond(s, k, x) == s * x[1] >= k * x[2]

\* A relation of a count and a fraction that adding keeps holds of the sum.
LEMMA AddedCounted ==
    ASSUME NEW S, IsFiniteSet(S), NEW f, NEW G, <<0, <<0, 1>>>> \in G,
           \A x \in S : \A n \in Nat : \A y : <<n, y>> \in G => <<n + 1, Plus(f[x], y)>> \in G
    PROVE  <<Cardinality(S), Added(S, f)>> \in G
  <1> DEFINE g == [x \in S |-> f[x]]
  <1>0. DOMAIN g = S /\ Added(S, f) = FoldFunction(Plus, <<0, 1>>, g)
    BY DEF Added
  <1>1. PICK sum : IsPart("fractions", g, S, sum) /\ Added(S, f) = sum[S]
    <2> HIDE DEF g
    <2> QED BY <1>0, AddedIsPart, Zenon
  <1> DEFINE H == {s \in SUBSET S : <<Cardinality(s), sum[s]>> \in G}
  <1>2. \A s \in SUBSET S : (\A x \in s : s \ {x} \in H) => s \in H
    <2> TAKE s \in SUBSET S
    <2> HAVE \A x \in s : s \ {x} \in H
    <2>1. sum[s] = PartAt("fractions", g, s, sum)
      BY <1>1 DEF IsPart
    <2>2. sum[s] = IF s = {} THEN <<0, 1>> ELSE Plus(g[AnyOf(s)], sum[s \ {AnyOf(s)}])
      BY <2>1 DEF PartAt
    <2>3. CASE s = {}
      BY <2>2, <2>3, FS_EmptySet
    <2>4. CASE s # {}
      <3> DEFINE c == AnyOf(s)
                 r == s \ {c}
      <3>1. c \in s /\ c \in S /\ g[c] = f[c]
        BY <2>4 DEF AnyOf
      <3>2. Cardinality(s) = Cardinality(r) + 1 /\ Cardinality(r) \in Nat
        BY <3>1, FinitePart
      <3>3. <<Cardinality(r), sum[r]>> \in G
        BY <3>1
      <3>4. sum[s] = Plus(f[c], sum[r])
        BY <2>2, <2>4, <3>1
      <3> HIDE DEF c, r, g
      <3>5. <<Cardinality(r) + 1, Plus(f[c], sum[r])>> \in G
        BY <3>1, <3>2, <3>3
      <3> QED BY <3>2, <3>4, <3>5
    <2> QED BY <2>3, <2>4
  <1>3. SUBSET S \subseteq H
    <2> HIDE DEF H
    <2> QED BY <1>2, FiniteInduction
  <1> QED BY <1>1, <1>3

LEMMA MeanBeyond ==
    ASSUME NEW S, IsFiniteSet(S), S # {}, NEW s \in {1, -1}, NEW k \in Int,
           NEW f, \A x \in S : f[x] \in Fractions /\ Beyond(s, k, f[x])
    PROVE  Beyond(s, k, Mean(S, f))
  <1> DEFINE G == {o \in Nat \X Fractions : s * o[2][1] >= (o[1] * k) * o[2][2]}
  <1>1. <<0, <<0, 1>>>> \in G
    BY DEF Fractions
  <1>2. ASSUME NEW x \in S, NEW n \in Nat, NEW y, <<n, y>> \in G
        PROVE  <<n + 1, Plus(f[x], y)>> \in G
    <2> DEFINE a == f[x][1]
               b == f[x][2]
               c == y[1]
               d == y[2]
    <2>1. a \in Int /\ b \in Nat \ {0} /\ s * a >= k * b /\ f[x] \in Fractions
      BY DEF Fractions, Beyond
    <2>2. c \in Int /\ d \in Nat \ {0} /\ s * c >= (n * k) * d /\ y \in Fractions
      BY <1>2 DEF Fractions
    <2>3. Plus(f[x], y)[1] = (a * d) + (c * b) /\ Plus(f[x], y)[2] = b * d
      BY DEF Plus
    <2> HIDE DEF a, b, c, d
    <2>4. \A u, v \in Int : \A w \in Nat \ {0} : u >= v => u * w >= v * w
      OBVIOUS
    <2>5. (s * a) * d >= (k * b) * d /\ (s * c) * b >= ((n * k) * d) * b
      <3>1. s * a \in Int /\ k * b \in Int /\ s * c \in Int /\ (n * k) * d \in Int
        BY <2>1, <2>2
      <3> QED BY <2>1, <2>2, <2>4, <3>1
    <2>6. /\ s * ((a * d) + (c * b)) = (s * a) * d + (s * c) * b
          /\ ((n + 1) * k) * (b * d) = (k * b) * d + ((n * k) * d) * b
      <3>1. /\ (s * a) * d = s * (a * d) /\ (s * c) * b = s * (c * b)
            /\ (k * b) * d = k * (b * d) /\ ((n * k) * d) * b = (n * k) * (b * d)
        BY <2>1, <2>2
      <3>2. a * d \in Int /\ c * b \in Int /\ b * d \in Int /\ n * k \in Int
        BY <2>1, <2>2
      <3>3. s * ((a * d) + (c * b)) = s * (a * d) + s * (c * b)
        BY <3>2
      <3>4. (n + 1) * k = n * k + k
        OBVIOUS
      <3>5. (n * k + k) * (b * d) = (n * k) * (b * d) + k * (b * d)
        BY <3>2
      <3>6. (n * k) * (b * d) \in Int /\ k * (b * d) \in Int
        BY <3>2
      <3> QED BY <3>1, <3>3, <3>4, <3>5, <3>6
    <2>7. s * ((a * d) + (c * b)) >= ((n + 1) * k) * (b * d)
      <3>1. (s * a) * d \in Int /\ (k * b) * d \in Int /\ (s * c) * b \in Int /\ ((n * k) * d) * b \in Int
        BY <2>1, <2>2
      <3> QED BY <2>5, <2>6, <3>1
    <2>8. Plus(f[x], y) \in Fractions
      BY <2>1, <2>2, PlusTyped
    <2> QED BY <2>3, <2>7, <2>8
  <1>3. <<Cardinality(S), Added(S, f)>> \in G
    <2> HIDE DEF G
    <2> QED BY <1>1, <1>2, AddedCounted
  <1> DEFINE n == Cardinality(S)
             c == Added(S, f)[1]
             d == Added(S, f)[2]
  <1>4. n \in Nat /\ c \in Int /\ d \in Int /\ s * c >= (n * k) * d
    BY <1>3 DEF Fractions
  <1>5. Mean(S, f)[1] = c /\ Mean(S, f)[2] = d * n
    BY DEF Mean
  <1> HIDE DEF n, c, d
  <1>6. (n * k) * d = k * (d * n)
    BY <1>4
  <1> QED BY <1>4, <1>5, <1>6 DEF Beyond

\* A weighted average of returns beyond a bound, with weights that are not
\* negative.
LEMMA LegBeyond ==
    ASSUME NEW S \in SUBSET Bonds, NEW weight, \A b \in S : weight[b] \in Nat,
           NEW s \in {1, -1}, NEW k \in Int,
           NEW ret, \A b \in S : ret[b] \in Int /\ s * ret[b] >= k,
           Leg(S, weight, ret) # NoLeg
    PROVE  Beyond(s, k, Leg(S, weight, ret))
  <1> DEFINE earned == [b \in S |-> weight[b] * ret[b]]
             G == {X \in SUBSET S : s * Total(X, earned) >= k * Total(X, weight)}
  <1>1. {} \in G
    BY TotalEmpty
  <1>2. IsFiniteSet(S)
    BY SortAssumption, FS_Subset
  <1>3. ASSUME NEW b \in S
        PROVE  weight[b] \in Int /\ earned[b] \in Int /\ s * earned[b] >= k * weight[b]
    <2> DEFINE w == weight[b]
               r == ret[b]
    <2>1. w \in Nat /\ r \in Int /\ s * r >= k /\ earned[b] = w * r
      OBVIOUS
    <2> HIDE DEF w, r, earned
    <2>2. \A u, v \in Int : u >= v => u * w >= v * w
      BY <2>1
    <2>3. (s * r) * w >= k * w
      BY <2>1, <2>2
    <2>4. s * (w * r) = (s * r) * w
      BY <2>1
    <2> QED BY <2>1, <2>3, <2>4 DEF w
  <1> HIDE DEF earned
  <1>4. ASSUME NEW X \in SUBSET S, NEW b \in S \ X, X \in G
        PROVE  X \cup {b} \in G
    <2>1. IsFiniteSet(X)
      BY <1>2, FS_Subset
    <2>2. \A x \in X \cup {b} : weight[x] \in Int /\ earned[x] \in Int
      BY <1>3
    <2>3. /\ Total(X \cup {b}, earned) = earned[b] + Total(X, earned)
          /\ Total(X \cup {b}, weight) = weight[b] + Total(X, weight)
      BY <2>1, <2>2, TotalAdd
    <2> DEFINE e == earned[b]
               w == weight[b]
               E == Total(X, earned)
               W == Total(X, weight)
    <2>4. e \in Int /\ w \in Int /\ E \in Int /\ W \in Int /\ s * E >= k * W /\ s * e >= k * w
      BY <1>3, <1>4, <2>1, <2>2, TotalTyped
    <2> HIDE DEF e, w, E, W
    <2>5. s * (e + E) = s * e + s * E /\ k * (w + W) = k * w + k * W
      BY <2>4
    <2>6. s * (e + E) >= k * (w + W)
      BY <2>4, <2>5
    <2> QED BY <2>3, <2>6 DEF e, w, E, W
  <1>5. S \in G
    <2> HIDE DEF G
    <2> QED BY <1>1, <1>2, <1>4, GrowingSet
  <1>6. /\ Sum(S, LAMBDA b : weight[b]) = Total(S, weight)
        /\ Sum(S, LAMBDA b : weight[b] * ret[b]) = Total(S, earned)
    BY DEF Sum, Total, earned
  <1> DEFINE total == Sum(S, LAMBDA b : weight[b])
             sum == Sum(S, LAMBDA b : weight[b] * ret[b])
  <1>7. Leg(S, weight, ret) = IF S = {} \/ total <= 0 THEN NoLeg ELSE <<sum, total>>
    BY DEF Leg
  <1> HIDE DEF total, sum
  <1>8. s * sum >= k * total
    BY <1>5, <1>6 DEF total, sum
  <1> QED BY <1>7, <1>8 DEF Beyond

\* A bound of the trim, as LegBeyond and MeanBeyond take it.
BoundOf(trim, s, k) ==
    \/ s = 1 /\ trim.lo # NaN /\ k = trim.lo
    \/ s = -1 /\ trim.hi # NaN /\ k = -trim.hi

\* A rule that trims, its bounds in order if it moves returns to them.
Trims(rb) ==
    /\ NumberTrim(rb)
    /\ rb.trim.method \in {"truncate", "winsorise"}
    /\ rb.trim.method = "winsorise" => Ordered(rb.trim)

RowsBeyond(rows, s, k) ==
    \A x \in rows : /\ x.long \in Fractions /\ x.short \in Fractions
                    /\ Beyond(s, k, x.long) /\ Beyond(s, k, x.short)

LEMMA BoundNumber ==
    ASSUME NEW rb, NumberTrim(rb), NEW s, NEW k, BoundOf(rb.trim, s, k)
    PROVE  s \in {1, -1} /\ k \in Int
  BY DEF BoundOf, NumberTrim

\* A return that the trim leaves is within it.
LEMMA KeptBeyond ==
    ASSUME NEW rb, Trims(rb), NEW s, NEW k, BoundOf(rb.trim, s, k),
           NEW r \in Int, TrimmedReturn(rb, r) # NaN
    PROVE  TrimmedReturn(rb, r) \in Int /\ s * TrimmedReturn(rb, r) >= k
  <1>1. rb.trim.lo \in Int /\ rb.trim.hi \in Int /\ NaN \in Int
    BY SortAssumption DEF Trims, NumberTrim
  <1>2. r # NaN
    BY DEF TrimmedReturn, Trims
  <1>3. CASE rb.trim.method = "truncate"
    <2>1. TrimmedReturn(rb, r) = IF Above(r, rb.trim.lo) /\ Below(r, rb.trim.hi) THEN r ELSE NaN
      BY <1>2, <1>3 DEF TrimmedReturn
    <2>2. TrimmedReturn(rb, r) = r /\ Above(r, rb.trim.lo) /\ Below(r, rb.trim.hi)
      BY <2>1
    <2> QED BY <1>1, <2>2 DEF BoundOf, Above, Below
  <1>4. CASE rb.trim.method = "winsorise"
    <2>1. TrimmedReturn(rb, r) = Clip(r, rb.trim)
      BY <1>2, <1>4 DEF TrimmedReturn
    <2>2. Clip(r, rb.trim) \in Int /\ s * Clip(r, rb.trim) >= k
      BY <1>1, <1>4 DEF Clip, Above, Below, BoundOf, Trims, Ordered
    <2> QED BY <2>1, <2>2
  <1> QED BY <1>3, <1>4 DEF Trims

LEMMA MeanRowBeyond ==
    ASSUME NEW month, NEW legs, IsFiniteSet(legs), NEW s \in {1, -1}, NEW k \in Int,
           RowsBeyond(legs, s, k)
    PROVE  RowsBeyond(MeanRow(month, legs), s, k)
  <1>1. CASE legs = {}
    BY <1>1 DEF MeanRow, RowsBeyond
  <1>2. CASE legs # {}
    <2> DEFINE long == [x \in legs |-> x.long]
               short == [x \in legs |-> x.short]
               row == [date |-> month, long |-> Mean(legs, long), short |-> Mean(legs, short),
                       bonds |-> Sum(legs, LAMBDA x : x.bonds)]
    <2>1. \A x \in legs : /\ long[x] \in Fractions /\ Beyond(s, k, long[x])
                          /\ short[x] \in Fractions /\ Beyond(s, k, short[x])
      BY DEF RowsBeyond
    <2>2. /\ Mean(legs, long) \in Fractions /\ Beyond(s, k, Mean(legs, long))
          /\ Mean(legs, short) \in Fractions /\ Beyond(s, k, Mean(legs, short))
      <3> HIDE DEF long, short
      <3> QED BY <1>2, <2>1, MeanTyped, MeanBeyond
    <2>3. /\ Average(legs, LAMBDA x : x.long) = Mean(legs, long)
          /\ Average(legs, LAMBDA x : x.short) = Mean(legs, short)
      BY DEF Average, Mean, Added
    <2>4. MeanRow(month, legs) = {row}
      BY <1>2, <2>3 DEF MeanRow
    <2>5. row.long = Mean(legs, long) /\ row.short = Mean(legs, short)
      OBVIOUS
    <2> HIDE DEF row
    <2> QED BY <2>2, <2>4, <2>5 DEF RowsBeyond
  <1> QED BY <1>1, <1>2

LEMMA StripeLegsBeyond ==
    ASSUME NEW S \in SUBSET Bonds, NEW score, NEW stripe, NEW weight \in [Bonds -> Int],
           NEW next \in [Bonds -> Int], NEW rb, NEW s \in {1, -1}, NEW k \in Int,
           \A b \in S : weight[b] \in Nat /\ s * next[b] >= k
    PROVE  RowsBeyond(StripeLegs(S, score, stripe, weight, next, rb), s, k)
  <1> DEFINE Side(e, g) == {b \in S : stripe[b] = e /\ score[b] = g}
             Of(e) == [long |-> Leg(Side(e, rb.long), weight, next),
                       short |-> Leg(Side(e, rb.short), weight, next),
                       stripe |-> e,
                       bonds |-> Cardinality(Side(e, rb.long) \cup Side(e, rb.short))]
             E == {stripe[b] : b \in S}
  <1>1. StripeLegs(S, score, stripe, weight, next, rb)
            = {leg \in {Of(e) : e \in E} : NoLeg \notin {leg.long, leg.short}}
    BY DEF StripeLegs
  <1>2. ASSUME NEW L \in SUBSET S, Leg(L, weight, next) # NoLeg
        PROVE  Leg(L, weight, next) \in Fractions /\ Beyond(s, k, Leg(L, weight, next))
    <2>1. L \in SUBSET Bonds /\ \A b \in L : weight[b] \in Nat /\ next[b] \in Int /\ s * next[b] >= k
      OBVIOUS
    <2> QED BY <1>2, <2>1, LegTyped, LegBeyond
  <1>3. ASSUME NEW e \in E, Of(e).long # NoLeg, Of(e).short # NoLeg
        PROVE  /\ Of(e).long \in Fractions /\ Beyond(s, k, Of(e).long)
               /\ Of(e).short \in Fractions /\ Beyond(s, k, Of(e).short)
    <2>1. Side(e, rb.long) \in SUBSET S /\ Side(e, rb.short) \in SUBSET S
      OBVIOUS
    <2>2. /\ Of(e).long = Leg(Side(e, rb.long), weight, next)
          /\ Of(e).short = Leg(Side(e, rb.short), weight, next)
      OBVIOUS
    <2> HIDE DEF Side, Of
    <2> QED BY ONLY <1>2, <1>3, <2>1, <2>2
  <1> HIDE DEF Of, E
  <1> QED BY <1>1, <1>3 DEF RowsBeyond

\* What a trimmed rule lets in, its size a number that is not negative.
NoNegative(p) ==
    \A t \in DOMAIN p : \A b \in Bonds : p[t][b].size = NaN \/ p[t][b].size \in Nat

LEMMA FormationWeights ==
    ASSUME NEW p, NoNegative(p), NEW rb, NEW t, NEW b \in Universe(p, rb, t)
    PROVE  Weight(rb, Month(p, t, "size"))[b] \in Nat
  <1>1. b \in Bonds /\ Month(p, t, "size")[b] # NaN
    BY UniverseIs
  <1>2. Month(p, t, "size")[b] \in Nat
    BY <1>1 DEF Month, NoNegative
  <1> QED BY <1>1, <1>2 DEF Weight

LEMMA MonthStepBeyond ==
    ASSUME NEW p, NumberPanel(p), NoNegative(p), NEW rb, Trims(rb), NEW t,
           NEW s, NEW k, BoundOf(rb.trim, s, k)
    PROVE  RowsBeyond(MonthStep(p, rb, t), s, k)
  <1> DEFINE S == Universe(p, rb, t)
             weight == Weight(rb, Month(p, t, "size"))
             next == NextReturn(p, rb, t)
             legs == StripeLegs(S, ScoreGroups(p, rb, t, S), Stripes(p, rb, t, S), weight, next, rb)
  <1>0. NumberTrim(rb) /\ rb.trim.method \in {"none", "truncate", "winsorise"}
    BY DEF Trims
  <1>1. S \in SUBSET Bonds /\ weight \in [Bonds -> Int] /\ next \in [Bonds -> Int]
    BY <1>0, UniverseBonds, MonthTyped, WeightTyped, NextReturnTyped
  <1>2. MonthStep(p, rb, t) = MeanRow(t + 1, legs)
    BY DEF MonthStep
  <1>3. s \in {1, -1} /\ k \in Int
    BY <1>0, BoundNumber
  <1>4. ASSUME NEW b \in S
        PROVE  weight[b] \in Nat /\ s * next[b] >= k
    <2>1. weight[b] \in Nat
      BY FormationWeights
    <2>2. b \in Bonds /\ Month(p, t + 1, "ret")[b] \in Int
      BY UniverseIs, MonthTyped
    <2>3. TrimmedReturn(rb, Month(p, t + 1, "ret")[b]) = next[b] /\ next[b] # NaN
      BY <1>0, FirstReturn
    <2> HIDE DEF next, weight
    <2>4. s * next[b] >= k
      BY <2>2, <2>3, KeptBeyond
    <2> QED BY <2>1, <2>4
  <1>5. RowsBeyond(legs, s, k) /\ IsFiniteSet(legs)
    <2> HIDE DEF S, weight, next
    <2> QED BY <1>1, <1>3, <1>4, StripeLegsBeyond, StripeLegsTyped
  <1> HIDE DEF legs
  <1> QED BY <1>2, <1>3, <1>5, MeanRowBeyond

LEMMA ContributionBeyond ==
    ASSUME NEW p, NumberPanel(p), NoNegative(p), NEW rb, Trims(rb), NEW t, NEW m,
           NEW s, NEW k, BoundOf(rb.trim, s, k)
    PROVE  RowsBeyond(Contribution(p, rb, t, m), s, k)
  <1> DEFINE weight == Weight(rb, Month(p, t, "size"))
             ret == [b \in Bonds |-> TrimmedReturn(rb, Month(p, m, "ret")[b])]
             sel == Selection(p, rb, t)
             Held1(x) == [from |-> t, long |-> LegReturnAt(p, rb, t, x.long, m),
                          short |-> LegReturnAt(p, rb, t, x.short, m),
                          bonds |-> Cardinality(Survivors(p, rb, x.long \cup x.short, m))]
             Kept == {x \in {sel} : Forms(x) /\ NoLeg \notin {Held1(x).long, Held1(x).short}}
  <1>0. NumberTrim(rb) /\ rb.trim.method \in {"none", "truncate", "winsorise"}
    BY DEF Trims
  <1>1. s \in {1, -1} /\ k \in Int
    BY <1>0, BoundNumber
  <1>2. Contribution(p, rb, t, m) = {Held1(x) : x \in Kept}
    BY DEF Contribution
  <1>3. ASSUME NEW leg \in SUBSET Universe(p, rb, t), LegReturnAt(p, rb, t, leg, m) # NoLeg
        PROVE  /\ LegReturnAt(p, rb, t, leg, m) \in Fractions
               /\ Beyond(s, k, LegReturnAt(p, rb, t, leg, m))
    <2> DEFINE S == Survivors(p, rb, leg, m)
    <2>1. LegReturnAt(p, rb, t, leg, m) = Leg(S, weight, ret)
      BY DEF LegReturnAt
    <2>2. leg \in SUBSET Bonds /\ S \in SUBSET leg
      BY UniverseBonds DEF Survivors
    <2>3. ASSUME NEW b \in S
          PROVE  weight[b] \in Nat /\ ret[b] \in Int /\ s * ret[b] >= k
      <3>1. weight[b] \in Nat
        BY <2>2, FormationWeights
      <3>2. b \in Bonds /\ Month(p, m, "ret")[b] \in Int
        BY <2>2, MonthTyped
      <3>3. ret[b] = TrimmedReturn(rb, Month(p, m, "ret")[b]) /\ ret[b] # NaN
        BY <3>2 DEF Survivors
      <3> HIDE DEF weight, ret
      <3>4. ret[b] \in Int /\ s * ret[b] >= k
        BY <3>2, <3>3, KeptBeyond
      <3> QED BY <3>1, <3>4
    <2>4. LegReturnAt(p, rb, t, leg, m) \in Fractions
      BY <1>0, <1>3, <2>2, LegReturnTyped
    <2> HIDE DEF S, weight, ret
    <2>5. S \in SUBSET Bonds
      BY <2>2
    <2>6. Leg(S, weight, ret) # NoLeg
      BY <1>3, <2>1
    <2>7. Beyond(s, k, Leg(S, weight, ret))
      BY <1>1, <2>3, <2>5, <2>6, LegBeyond
    <2> QED BY <2>1, <2>4, <2>7
  <1>4. sel.long \in SUBSET Universe(p, rb, t) /\ sel.short \in SUBSET Universe(p, rb, t)
    BY SelectionIs
  <1>5. \A x \in Kept : /\ x = sel /\ Held1(x).long # NoLeg /\ Held1(x).short # NoLeg
                        /\ Held1(x).long = LegReturnAt(p, rb, t, x.long, m)
                        /\ Held1(x).short = LegReturnAt(p, rb, t, x.short, m)
    <2> HIDE DEF sel
    <2> QED OBVIOUS
  <1> HIDE DEF Kept, Held1, sel
  <1>6. \A x \in Kept : /\ Held1(x).long \in Fractions /\ Beyond(s, k, Held1(x).long)
                        /\ Held1(x).short \in Fractions /\ Beyond(s, k, Held1(x).short)
    BY <1>3, <1>4, <1>5
  <1> QED BY <1>2, <1>6 DEF RowsBeyond

LEMMA HeldMonthBeyond ==
    ASSUME NEW p, NumberPanel(p), NoNegative(p), NEW rb, Trims(rb), NEW m \in Int,
           NEW s, NEW k, BoundOf(rb.trim, s, k)
    PROVE  RowsBeyond(MeanRow(m, Contributions(p, rb, m)), s, k)
  <1> DEFINE of == [t \in Cohorts(m) |-> Contribution(p, rb, t, m)]
             legs == Contributions(p, rb, m)
  <1>0. NumberTrim(rb) /\ rb.trim.method \in {"none", "truncate", "winsorise"}
    BY DEF Trims
  <1>1. s \in {1, -1} /\ k \in Int
    BY <1>0, BoundNumber
  <1>2. legs = UNION {of[t] : t \in Cohorts(m)}
    BY DEF Contributions
  <1>3. IsFiniteSet(Cohorts(m))
    <2>1. Cohorts(m) \in SUBSET (1 .. m - 1) /\ IsFiniteSet(1 .. m - 1)
      BY FS_Interval DEF Cohorts
    <2> QED BY <2>1, FS_Subset
  <1>4. \A t \in Cohorts(m) : of[t] = Contribution(p, rb, t, m)
    OBVIOUS
  <1>5. \A t \in Cohorts(m) : LegsOf(of[t]) /\ IsFiniteSet(of[t])
    BY <1>0, ContributionTyped
  <1>6. \A t \in Cohorts(m) : RowsBeyond(of[t], s, k)
    BY ContributionBeyond
  <1> HIDE DEF of, legs
  <1>7. IsFiniteSet(UNION {of[t] : t \in Cohorts(m)})
    BY ONLY <1>3, <1>5, RowsTyped
  <1>8. RowsBeyond(legs, s, k)
    BY <1>2, <1>6 DEF RowsBeyond
  <1> QED BY <1>1, <1>2, <1>7, <1>8, MeanRowBeyond DEF legs

\* What the trim theorem asks of the settings and of the data, neither of
\* which the engine checks: bounds to clip to are in order, and no size is
\* negative.
ClipsInOrder == \A rb \in Rulebooks : rb.trim.method = "winsorise" => Ordered(rb.trim)
NoNegativeSize == \A b \in Bonds : \A row \in Cells[b] : row.size = NaN \/ row.size >= 0

(* A trimmed strategy never earns a return beyond the trim's bounds, at     *)
(* formation or in a held month, whatever the holding period, the weights   *)
(* and the percentiles.                                                     *)
THEOREM TheTrimBoundsEveryMonth ==
    ASSUME ClipsInOrder, NoNegativeSize
    PROVE  AuditSpec => []TrimBoundsEveryMonth
  <1>1. PanelType /\ EnginesInv => TrimBoundsEveryMonth
    <2> SUFFICES ASSUME PanelType, EnginesInv, Resolve(panel, rulebook).trim.method # "none",
                        NEW r \in monthly \cup held
                 PROVE  LET trim == Resolve(panel, rulebook).trim
                        IN /\ trim.lo = NaN \/ r.long[1] >= trim.lo * r.long[2]
                           /\ trim.hi = NaN \/ r.long[1] <= trim.hi * r.long[2]
                           /\ trim.lo = NaN \/ r.short[1] >= trim.lo * r.short[2]
                           /\ trim.hi = NaN \/ r.short[1] <= trim.hi * r.short[2]
      BY DEF TrimBoundsEveryMonth
    <2> DEFINE rb == Resolve(panel, rulebook)
    <2>1. NumberPanel(panel) /\ DOMAIN panel \in SUBSET Nat /\ rulebook \in ValidRulebooks
      BY PanelNumbers, SortAssumption DEF PanelType
    <2>2. NoNegative(panel)
      <3> SUFFICES ASSUME NEW t \in DOMAIN panel, NEW b \in Bonds
                   PROVE  panel[t][b].size = NaN \/ panel[t][b].size \in Nat
        BY DEF NoNegative
      <3>1. panel[t] \in [Bonds -> AnyRow]
        BY DEF PanelType
      <3>2. PICK c \in Bonds : panel[t][b] \in Cells[c]
        BY <3>1 DEF AnyRow
      <3>3. panel[t][b].size \in Int
        BY <2>1 DEF NumberPanel
      <3> QED BY <3>2, <3>3 DEF NoNegativeSize
    <2>3. Trims(rb)
      <3>1. rulebook.trim.method \in {"none", "truncate", "winsorise"}
        BY <2>1 DEF ValidRulebooks, TrimRules
      <3>2. rulebook.trim.method = "winsorise" => Ordered(rulebook.trim)
        BY DEF PanelType, ClipsInOrder
      <3> QED BY <2>1, <3>1, <3>2, ResolveTyped DEF Trims
    <2>4. ASSUME NEW s, NEW k, BoundOf(rb.trim, s, k)
          PROVE  Beyond(s, k, r.long) /\ Beyond(s, k, r.short)
      <3>1. CASE r \in monthly
        <4>1. monthly = UNION {MonthStep(panel, rb, t) : t \in DOMAIN panel}
          BY DEF EnginesInv, RunCharacteristicSort
        <4> HIDE DEF rb
        <4>2. PICK t \in DOMAIN panel : r \in MonthStep(panel, rb, t)
          BY <3>1, <4>1
        <4> QED BY <2>1, <2>2, <2>3, <2>4, <4>2, MonthStepBeyond DEF RowsBeyond
      <3>2. CASE r \in held
        <4>1. \E m \in DOMAIN panel : r \in MeanRow(m, Contributions(panel, rb, m))
          BY <3>2 DEF EnginesInv, RunWithHoldingPeriod
        <4> HIDE DEF rb
        <4>2. PICK m \in DOMAIN panel : r \in MeanRow(m, Contributions(panel, rb, m))
          BY <4>1
        <4>3. m \in Int
          BY <2>1
        <4> QED BY <2>1, <2>2, <2>3, <2>4, <4>2, <4>3, HeldMonthBeyond DEF RowsBeyond
      <3> QED BY <3>1, <3>2
    <2>5. r.long \in Fractions /\ r.short \in Fractions
      BY <2>1, SortTyped, HeldTyped DEF EnginesInv, LegsOf
    <2>6. rb.trim.lo \in Int /\ rb.trim.hi \in Int
      BY <2>3 DEF Trims, NumberTrim
    <2> HIDE DEF rb
    <2>7. ASSUME NEW x, x \in Fractions,
                 \A s, k : BoundOf(rb.trim, s, k) => Beyond(s, k, x)
          PROVE  /\ rb.trim.lo = NaN \/ x[1] >= rb.trim.lo * x[2]
                 /\ rb.trim.hi = NaN \/ x[1] <= rb.trim.hi * x[2]
      <3>1. x[1] \in Int /\ x[2] \in Int
        BY <2>7 DEF Fractions
      <3>2. rb.trim.lo # NaN => 1 * x[1] >= rb.trim.lo * x[2]
        BY <2>7 DEF BoundOf, Beyond
      <3>3. rb.trim.hi # NaN => (-1) * x[1] >= (-rb.trim.hi) * x[2]
        BY <2>7 DEF BoundOf, Beyond
      <3>4. (-rb.trim.hi) * x[2] = -(rb.trim.hi * x[2]) /\ rb.trim.hi * x[2] \in Int
            /\ (-1) * x[1] = -x[1] /\ 1 * x[1] = x[1]
        BY <2>6, <3>1
      <3> QED BY <3>1, <3>2, <3>3, <3>4
    <2> QED BY <2>4, <2>5, <2>7 DEF rb
  <1> QED BY <1>1, EnginesInvariant, PTL DEF AuditSpec

=============================================================================
