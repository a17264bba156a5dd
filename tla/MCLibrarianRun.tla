--------------------------- MODULE MCLibrarianRun ---------------------------
(* Two constructions, a sort signal and a sort kind, three replies to each:  *)
(* a concept and an unrecognised signal, the latter quoted across a hyphen   *)
(* so that only level L2 finds it, and silence; two kinds and a garbled one. *)
EXTENDS LibrarianRun

MCValues == {"var_5pct", "unrecognised", "independent"}
MCToken == [v \in MCValues |-> v]
MCQuotes == {"plain", "hyphenated"}
MCSpanL1 == [q \in MCQuotes |-> IF q = "plain" THEN 2 ELSE 0]
MCSpanL2 == [q \in MCQuotes |-> IF q = "plain" THEN 2 ELSE 1]

MCFields == <<"sort_signal", "sort_kind">>
Says(value, quote) ==
    [json |-> TRUE, answered |-> TRUE, value |-> value, quote |-> quote]
MCFieldReplies == [f \in {"sort_signal", "sort_kind"} |->
    IF f = "sort_signal"
    THEN {Says("var_5pct", "plain"), Says("unrecognised", "hyphenated")}
    ELSE {Says("independent", "plain"), Garbled}]

Construct(name, cls) == [name |-> name, cls |-> cls]
MCGoldList == <<Construct("c1", "strategy"), Construct("c2", "strategy")>>
MCEnumReplies ==
    {<<>>, <<Construct("c1", "strategy"), Construct("c1", "strategy")>>,
     <<Construct("c1", "strategy"), Construct("c1", "auxiliary")>>}

\* Live or authored enumeration with the replay cache, and live without it.
MCOptions == {[live |-> l, cache |-> c] : l, c \in BOOLEAN}
             \ {[live |-> FALSE, cache |-> FALSE]}

=============================================================================
