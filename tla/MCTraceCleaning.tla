--------------------------- MODULE MCTraceCleaning ---------------------------
(* Three families of raw files: three rows of any kind and four of the kinds *)
(* that the matching can tell apart, all of one bond, and five sells of two  *)
(* bonds at prices that jump, revert and slip a decimal.                     *)
EXTENDS TraceCleaning

Trade(side, seq, pr) ==
    [bond |-> "b1", day |-> "post2012", seq |-> seq, orig |-> NoSeq,
     st |-> "T", asof |-> "", wis |-> FALSE, side |-> side, pr |-> pr,
     prday |-> "bad", screened |-> FALSE]

Matching ==
    {Trade("B", 1, 100), Trade("S", 2, 100),
     [Trade("S", 2, 100) EXCEPT !.asof = "A", !.screened = TRUE],
     [Trade("S", 5, 100) EXCEPT !.st = "X", !.orig = 2],
     [Trade("S", 6, 100) EXCEPT !.st = "C", !.orig = 2, !.day = "pre2012"],
     [Trade("S", 2, 100) EXCEPT !.day = "pre2012"],
     [Trade("B", 7, 100) EXCEPT !.asof = "R", !.prday = "post2012"]}
Kinds ==
    Matching \cup
    {Trade("S", 3, NonFinite), Trade("B", 4, NonFinite),
     [Trade("S", 2, 100) EXCEPT !.wis = TRUE],
     [Trade("B", 8, 100) EXCEPT !.day = "holdout"],
     [Trade("B", 8, 100) EXCEPT !.day = "beyond"],
     [Trade("S", 8, 100) EXCEPT !.day = "bad"]}

Prices ==
    {Trade("S", 1, p) : p \in {100, 150, 1010}}
    \cup {[Trade("S", 1, p) EXCEPT !.bond = "b2"] : p \in {40}}

MCFiles == [1..3 -> Kinds] \cup [1..4 -> Matching] \cup [1..5 -> Prices]
MCOldRow == Trade("S", 9, 70)

Raw == [id |-> "raw", keepC |-> FALSE, asofA |-> FALSE, asofDX |-> FALSE,
        net |-> FALSE, wis |-> TRUE, dedup |-> TRUE, screens |-> FALSE]
Bbw(dedup) ==
    [Raw EXCEPT !.id = "bbw_2019", !.keepC = TRUE, !.asofA = TRUE,
                !.net = TRUE, !.screens = TRUE, !.dedup = dedup]
Jostova(dedup) ==
    [Raw EXCEPT !.id = "jostova_2013", !.asofA = TRUE, !.net = TRUE,
                !.wis = FALSE, !.screens = TRUE, !.dedup = dedup]
MCProfiles == {Raw, Bbw(TRUE), Jostova(TRUE), Jostova(FALSE)}
=============================================================================
