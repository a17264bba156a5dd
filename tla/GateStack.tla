------------------------------- MODULE GateStack -------------------------------
(***************************************************************************)
(* run_experimentalist (agents/scientist/experimentalist/orchestrator.py): *)
(* one batch of extension proposals goes through the gates G0 to G5.  A    *)
(* failed gate stops a proposal.  G3 is joint: one Benjamini-Hochberg      *)
(* family over every proposal that is clean so far, so what one proposal   *)
(* came to depends on the whole batch.                                     *)
(*                                                                         *)
(* What a gate finds out about a proposal (its fields, its returns) is a   *)
(* choice of the environment, made when the gate runs.                     *)
(***************************************************************************)
EXTENDS BenjaminiHochberg, Sequences

CONSTANTS
    N,            \* proposals in the batch; they are 1 .. N in input order
    Keys,         \* equivalence keys: mechanism, template and config delta
    Strategies,   \* transform signatures: equal ones execute alike
    Compiled,     \* the signature a key compiles to, or None
    None,
    PValues,      \* the p-values tried, out of One
    Q, One,       \* the level q and 1.0
    Medians       \* median CPCV Sharpe ratios, by rank

Proposals == 1 .. N

\* The first stands for the five booleans of G0 before not_duplicate.
G0Fields == {"authorised", "not_duplicate"}

Fields == G0Fields \cup
    {"compiled", "execution_verified", "audit_clean", "bh_survived", "cpcv_qualified"}

G0Codes == {"G0_REFUSAL", "DUPLICATE_PROPOSAL"}
G1Codes == {"COMPILATION_FAILED", "EXECUTION_MISMATCH", "MISSING_INPUT"}
G2Codes == {"NEW_TIMING_VIOLATION", "PARAMETER_PROVENANCE_VIOLATION"}

ASSUME GateStackAssumption ==
    /\ N \in Nat
    /\ Compiled \in [Keys -> Strategies \cup {None}]
    /\ None \notin Strategies \cup G0Codes \cup G1Codes \cup G2Codes
    /\ One \in Nat /\ Q \in 1 .. One - 1 /\ PValues \subseteq 0 .. One
    /\ Medians \subseteq Nat

VARIABLES
    key,         \* key[p]: the equivalence key of proposal p
    phase,       \* "A", "B", "C", "D" as in the code, then "done"
    cursor,      \* the proposal (A), or the clean proposal (C), that is next
    seen,        \* the keys that have passed G0
    seenTransforms, \* the signatures that have compiled
    stored,      \* stored[p]: the booleans that hold and the refusal code
    auditClean,  \* the proposals that have passed G2, in order
    family,      \* the p-value of each audit-clean proposal
    rejected,    \* those that BH rejects
    right,       \* those whose alpha has the gating sign
    wrongSigned, \* the count of rejected ones whose alpha has not
    survivors,   \* proposal and median of those G4 has qualified, in order
    advanced     \* the proposals that G5 advances, best first

vars == <<key, phase, cursor, seen, seenTransforms, stored, auditClean, family,
          rejected, right, wrongSigned, survivors, advanced>>

downstream == <<family, rejected, right, wrongSigned, survivors, advanced>>

Unstored == [holds |-> {}, refusal |-> "unstored"]

Init ==
    /\ key \in [Proposals -> Keys]
    /\ phase = "A"
    /\ cursor = 1
    /\ seen = {} /\ seenTransforms = {}
    /\ stored = [p \in Proposals |-> Unstored]
    /\ auditClean = <<>>
    /\ family = <<>>
    /\ rejected = {} /\ right = {} /\ wrongSigned = 0
    /\ survivors = <<>> /\ advanced = <<>>

-------------------------------------------------------------------------------
(* Phase A: G0, G1a, G1b and G2, one proposal after the other.             *)

Signature(p) == Compiled[key[p]]

\* stored[p] = (_booleans(...), code), and on to the next proposal.
Stop(p, holds, code) ==
    /\ phase = "A" /\ cursor = p
    /\ stored' = [stored EXCEPT ![p] = [holds |-> holds, refusal |-> code]]
    /\ cursor' = cursor + 1
    /\ UNCHANGED <<key, phase, auditClean, downstream>>

PassesG0(p) == key[p] \notin seen

RefuseIntegrity(p) ==
    /\ Stop(p, {"not_duplicate"}, "G0_REFUSAL")
    /\ UNCHANGED <<seen, seenTransforms>>

RefuseDuplicate(p) ==
    /\ key[p] \in seen
    /\ Stop(p, {"authorised"}, "DUPLICATE_PROPOSAL")
    /\ UNCHANGED <<seen, seenTransforms>>

FailCompilation(p) ==
    /\ PassesG0(p)
    /\ Signature(p) = None
    /\ Stop(p, G0Fields, "COMPILATION_FAILED")
    /\ seen' = seen \cup {key[p]}
    /\ UNCHANGED seenTransforms

\* Wrong: every compiled proposal is taken for a strategy of its own.
DistinctByKey(p) == PassesG0(p) /\ Signature(p) # None

(* Compiled, and not the transform of an earlier proposal.                 *)
Distinct(p) ==
    /\ PassesG0(p)
    /\ Signature(p) # None
    /\ Signature(p) \notin seenTransforms

RefuseSameTransform(p) ==
    /\ PassesG0(p)
    /\ Signature(p) \in seenTransforms
    /\ Stop(p, G0Fields \cup {"compiled"}, "DUPLICATE_PROPOSAL")
    /\ seen' = seen \cup {key[p]}
    /\ UNCHANGED seenTransforms

NoteDistinct(p) ==
    /\ Distinct(p)
    /\ seen' = seen \cup {key[p]}
    /\ seenTransforms' = seenTransforms \cup {Signature(p)}

FailExecution(p) ==
    /\ NoteDistinct(p)
    /\ \E code \in {"EXECUTION_MISMATCH", "MISSING_INPUT"} :
         Stop(p, G0Fields \cup {"compiled"}, code)

FailAudit(p) ==
    /\ NoteDistinct(p)
    /\ \E code \in G2Codes :
         Stop(p, G0Fields \cup {"compiled", "execution_verified"}, code)

PassAudit(p) ==
    /\ phase = "A" /\ cursor = p
    /\ NoteDistinct(p)
    /\ auditClean' = Append(auditClean, p)
    /\ cursor' = cursor + 1
    /\ UNCHANGED <<key, phase, stored, downstream>>

EndPhaseA ==
    /\ phase = "A"
    /\ cursor > N
    /\ phase' = "B"
    /\ UNCHANGED <<key, cursor, seen, seenTransforms, stored, auditClean, downstream>>

-------------------------------------------------------------------------------
(* Phases B to D.                                                          *)

Clean == {auditClean[i] : i \in DOMAIN auditClean}

(* Phase B: the joint family and its decisions.                            *)
DecideFamily ==
    /\ phase = "B"
    /\ family' \in [Clean -> PValues]
    /\ rejected' = Rejected(family', Q, One)
    /\ right' \in SUBSET Clean
    /\ phase' = "C"
    /\ cursor' = 1
    /\ UNCHANGED <<key, seen, seenTransforms, stored, auditClean, wrongSigned,
                   survivors, advanced>>

CleanFields == G0Fields \cup {"compiled", "execution_verified", "audit_clean"}

StoreClean(p, holds) ==
    /\ phase = "C" /\ cursor \in DOMAIN auditClean /\ p = auditClean[cursor]
    /\ stored' = [stored EXCEPT ![p] = [holds |-> CleanFields \cup holds, refusal |-> None]]
    /\ cursor' = cursor + 1
    /\ UNCHANGED <<key, phase, seen, seenTransforms, auditClean, family, rejected,
                   right, advanced>>

\* Wrong: the sign of alpha is left out of the test.
SurvivedEitherSign(p) == p \in rejected

(* SC-SCI-8: rejected, and with alpha in the gating direction.             *)
Survived(p) == p \in rejected \cap right

NoEvidence(p) ==
    /\ ~Survived(p)
    /\ StoreClean(p, {})
    /\ wrongSigned' = IF p \in rejected THEN wrongSigned + 1 ELSE wrongSigned
    /\ UNCHANGED survivors

(* G4; an exception inside it counts as not qualified.                     *)
Robustness(p) ==
    /\ Survived(p)
    /\ \/ /\ StoreClean(p, {"bh_survived"})
          /\ UNCHANGED survivors
       \/ /\ StoreClean(p, {"bh_survived", "cpcv_qualified"})
          /\ \E median \in Medians :
               survivors' = Append(survivors, [id |-> p, median |-> median])
    /\ UNCHANGED wrongSigned

EndPhaseC ==
    /\ phase = "C"
    /\ cursor > Len(auditClean)
    /\ phase' = "D"
    /\ UNCHANGED <<key, cursor, seen, seenTransforms, stored, auditClean, downstream>>

(* select_g5 with no cap: higher median first, then the proposal id (every *)
(* survivor has one config change).                                        *)
Select(ss) ==
    LET before(s, t) == s.median > t.median \/ (s.median = t.median /\ s.id < t.id)
        place(s) == Cardinality({t \in ss : before(t, s)}) + 1
    IN [i \in 1 .. Cardinality(ss) |-> (CHOOSE s \in ss : place(s) = i).id]

Advance ==
    /\ phase = "D"
    /\ advanced' = Select({survivors[i] : i \in DOMAIN survivors})
    /\ phase' = "done"
    /\ UNCHANGED <<key, cursor, seen, seenTransforms, stored, auditClean, family,
                   rejected, right, wrongSigned, survivors>>

Next ==
    \/ \E p \in Proposals :
         \/ RefuseIntegrity(p) \/ RefuseDuplicate(p) \/ FailCompilation(p)
         \/ RefuseSameTransform(p) \/ FailExecution(p) \/ FailAudit(p) \/ PassAudit(p)
         \/ NoEvidence(p) \/ Robustness(p)
    \/ EndPhaseA \/ DecideFamily \/ EndPhaseC \/ Advance

Spec == Init /\ [][Next]_vars

-------------------------------------------------------------------------------
(* Outcomes.                                                               *)

\* Wrong: the audit is looked at before compilation and execution.
OutcomeAuditFirst(holds) ==
    IF ~(G0Fields \subseteq holds) THEN "INVALID_PROPOSAL"
    ELSE IF "audit_clean" \notin holds THEN "AUDIT_FAILURE"
    ELSE IF "bh_survived" \notin holds THEN "NO_DEVELOPMENT_EVIDENCE"
    ELSE IF "cpcv_qualified" \notin holds THEN "DEVELOPMENT_SURVIVOR_NOT_ADVANCED"
    ELSE "HOLDOUT_EVALUATED"

(* derive_outcome: the first boolean that does not hold names the outcome. *)
Outcome(holds) ==
    IF ~(G0Fields \subseteq holds) THEN "INVALID_PROPOSAL"
    ELSE IF ~({"compiled", "execution_verified"} \subseteq holds) THEN "EXECUTION_FAILURE"
    ELSE IF "audit_clean" \notin holds THEN "AUDIT_FAILURE"
    ELSE IF "bh_survived" \notin holds THEN "NO_DEVELOPMENT_EVIDENCE"
    ELSE IF "cpcv_qualified" \notin holds THEN "DEVELOPMENT_SURVIVOR_NOT_ADVANCED"
    ELSE "HOLDOUT_EVALUATED"

OutcomeOf(p) == Outcome(stored[p].holds)

-------------------------------------------------------------------------------
(* Properties.                                                             *)

(* The unit of the joint test is the strategy, not its rationale           *)
(* (_transform_signature): no two members of the BH family compile to the  *)
(* same transform, whatever the batch repeats.                             *)
OneHypothesisPerStrategy ==
    \A i, j \in DOMAIN auditClean :
        Signature(auditClean[i]) = Signature(auditClean[j]) => i = j

(* The running minimum of the code rejects what the step-up procedure      *)
(* rejects, for every family that a batch can come to.                     *)
RejectionIsStepUp == phase \in {"C", "D", "done"} => rejected = StepUp(family, Q)

(* A wrong-signed candidate is not advanced and is counted, so the two     *)
(* numbers that RQ4 reports and the family's rejections add up.            *)
SignAware ==
    phase = "done" =>
        /\ \A i \in DOMAIN advanced : advanced[i] \in rejected \cap right
        /\ Cardinality(rejected) = wrongSigned +
             Cardinality({p \in Clean : "bh_survived" \in stored[p].holds})

(* A proposal with the key of p passed the integrity checks before p.      *)
Repeats(p) == \E e \in 1 .. p - 1 : key[e] = key[p] /\ stored[e].refusal # "G0_REFUSAL"

(* An earlier proposal with the strategy of p that is no duplicate itself. *)
HasOriginal(p) ==
    \E e \in 1 .. p - 1 : /\ stored[e].refusal \notin G0Codes
                          /\ key[e] = key[p] \/ Signature(e) = Signature(p)

(* The label derived from the booleans and the refusal code tell of every  *)
(* proposal the same story, and the label goes with the list that goes on  *)
(* to the holdout, on which every qualified proposal stands (SC-SCI-14: no *)
(* cap).  Of DUPLICATE_PROPOSAL, which two places give, the label says     *)
(* which: a repeated key is INVALID_PROPOSAL, and another key with the     *)
(* transform of an earlier one is EXECUTION_FAILURE, although nothing was  *)
(* executed and the code is one of G0's (schemas/outcomes.py 38-39, 47-58).*)
(* Each of them has an original that no gate before G1 refused.            *)
(* Code: outcome.py 23-42 and orchestrator.py 122-160, 202-219.            *)
FunnelAgrees ==
    phase = "done" => \A p \in Proposals :
        LET code == stored[p].refusal
            duplicate == code = "DUPLICATE_PROPOSAL"
        IN /\ OutcomeOf(p) = "INVALID_PROPOSAL" <=>
                  code = "G0_REFUSAL" \/ (duplicate /\ Repeats(p))
           /\ OutcomeOf(p) = "EXECUTION_FAILURE" <=>
                  code \in G1Codes \/ (duplicate /\ ~Repeats(p))
           /\ OutcomeOf(p) = "AUDIT_FAILURE" <=> code \in G2Codes
           /\ code = None <=> p \in Clean
           /\ OutcomeOf(p) = "HOLDOUT_EVALUATED" <=>
                  \E i \in DOMAIN advanced : advanced[i] = p
           /\ duplicate => HasOriginal(p)

===============================================================================
