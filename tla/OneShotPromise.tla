---------------------------- MODULE OneShotPromise ----------------------------
(***************************************************************************)
(* What the one-shot holdout evaluation promises, whatever crashes,        *)
(* restarts and damaged marker files happen on the way                     *)
(* (agents/scientist/experimentalist/oneshot_holdout).                     *)
(*                                                                         *)
(* The protected holdout window may be read by several invocations while   *)
(* nothing has been evaluated (the documented restart re-reads it), but it *)
(* is evaluated by at most one invocation; after that evaluation nobody    *)
(* reads it again, and the verdict is recorded before it is reported.      *)
(***************************************************************************)
CONSTANT Runs      \* the invocations of the command-line driver

VARIABLES readers,     \* the invocations that have read the holdout window
          evaluators,  \* the invocations that have evaluated survivors on it
          verdict      \* how far the outcome has got

promiseVars == <<readers, evaluators, verdict>>

Init ==
    /\ readers = {}
    /\ evaluators = {}
    /\ verdict = "none"

Read(r) ==
    /\ evaluators = {}
    /\ r \notin readers
    /\ readers' = readers \cup {r}
    /\ UNCHANGED <<evaluators, verdict>>

Evaluate(r) ==
    /\ evaluators = {}
    /\ r \in readers
    /\ evaluators' = {r}
    /\ UNCHANGED <<readers, verdict>>

Record ==
    /\ evaluators # {}
    /\ verdict = "none"
    /\ verdict' = "recorded"
    /\ UNCHANGED <<readers, evaluators>>

Report ==
    /\ verdict = "recorded"
    /\ verdict' = "reported"
    /\ UNCHANGED <<readers, evaluators>>

Next ==
    \/ \E r \in Runs : Read(r) \/ Evaluate(r)
    \/ Record
    \/ Report

Spec == Init /\ [][Next]_promiseVars

===============================================================================
