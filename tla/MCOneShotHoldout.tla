--------------------------- MODULE MCOneShotHoldout ---------------------------
(***************************************************************************)
(* Instances of OneShotHoldout for TLC.  Four invocations of the driver    *)
(* allow a fresh build, the documented restart, a resumed evaluation and   *)
(* one more launch that has to be refused; two suffice to put two live     *)
(* runs side by side.                                                      *)
(***************************************************************************)
EXTENDS OneShotHoldout, TLC

CONSTANTS r1, r2, r3, r4

FourRuns == {r1, r2, r3, r4}
TwoRuns == {r1, r2}
ThreeRuns == {r1, r2, r3}

\* Runs are interchangeable in every safety property.
RunSymmetry == Permutations(Runs)

===============================================================================
