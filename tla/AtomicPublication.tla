--------------------------- MODULE AtomicPublication ---------------------------
(***************************************************************************)
(* What publish promises (agents/reporter/registry.py): from the first     *)
(* publication on there always is one, and it is replaced by a whole one,  *)
(* in one step.                                                            *)
(***************************************************************************)
CONSTANTS Whole,   \* the publications that are complete
          None     \* nothing has been published

VARIABLE published

Init == published = None

Publish == published' \in Whole

Next == Publish

Spec == Init /\ [][Next]_published

===============================================================================
