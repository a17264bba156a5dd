-------------------------- MODULE MCProposalFunnel --------------------------
(* Two models with two seeds each; the first may answer in two ways that put  *)
(* another strategy under the same id.                                        *)
EXTENDS ProposalFunnel, TLC

CONSTANTS p1, p2, s1, s2, s3

MCArms == <<"claude", "gemini">>
MCResponses ==
    <<"claude", 0>> :> {<<s1, Invalid>>, <<s2, s2, s3>>} @@ <<"claude", 1>> :> {<<s3>>}
    @@ <<"gemini", 0>> :> {<<Invalid, s3>>} @@ <<"gemini", 1>> :> {<<Invalid, s1>>}
MCCached == <<"gemini", 1>> :> <<Invalid, s1>>
MCSurvives == [S \in SUBSET {s1, s2, s3} |-> IF Cardinality(S) > 2 THEN {} ELSE S]
Symmetry == Permutations({p1, p2})
=============================================================================
