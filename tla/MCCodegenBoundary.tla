-------------------------- MODULE MCCodegenBoundary --------------------------
(* Two members and two models.  A call is metered at the bound, so that the  *)
(* third one passes the process's cap.  A cap of nothing lets replays alone   *)
(* through, one of a call refuses a first run, one of two calls lets it pass. *)
(* An override is ignored above the floor, so the invocation that names one   *)
(* is also the plain one with that cap.                                       *)
EXTENDS CodegenBoundary

MCMembers == <<"refused", "compiled">>
MCModels == <<"m1", "m2">>
Given(override, refresh, cap) ==
    [override |-> override, refresh |-> refresh, cap |-> cap]
MCOptions == {Given(FALSE, FALSE, 2), Given(FALSE, TRUE, 0), Given(TRUE, FALSE, 4)}

=============================================================================
