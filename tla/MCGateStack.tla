------------------------------ MODULE MCGateStack ------------------------------
(***************************************************************************)
(* Instances of GateStack for TLC.  Keys a and b compile to one strategy,  *)
(* c and d to two others and e to none.  With q = 6/60 the p-values lie    *)
(* under, on and over the step-up line of families of one to three, and    *)
(* 60 stands for NaN as well.                                              *)
(***************************************************************************)
EXTENDS GateStack

FiveKeys == {"a", "b", "c", "d", "e"}
ThreeStrategies == {"s1", "s2", "s3"}
CompiledTo == [k \in FiveKeys |->
    CASE k \in {"a", "b"} -> "s1" [] k = "c" -> "s2" [] k = "d" -> "s3" [] OTHER -> None]

TriedPValues == {2, 3, 5, 60}
TwoMedians == {1, 2}

===============================================================================
