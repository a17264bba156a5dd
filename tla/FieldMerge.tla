----------------------------- MODULE FieldMerge -----------------------------
(***************************************************************************)
(* The Librarian's dual-model merge (agents/librarian/pipeline): what two  *)
(* models' replies about one field of one paper become.  A reply is read   *)
(* defensively into an answer (real_client.py), two answers are merged     *)
(* under the D9 rule (form_filler.py), a signal is assembled from a merged *)
(* concept (signal_filler.py), and two construction lists are merged by    *)
(* the D20 rule (lister.py).  Everything here is a pure operator.          *)
(*                                                                         *)
(* Values and quotes are model values.  What the merge needs to know of a  *)
(* value is the token that it normalises to, and of a quote where it       *)
(* starts in the paper under either normalisation level, 0 when it is not  *)
(* found.  L2 de-hyphenates what L1 leaves alone, so a quote that is found *)
(* at L1 is found at L2 too.                                               *)
(***************************************************************************)
EXTENDS Naturals, Sequences, FiniteSets

CONSTANTS
    Values,       \* what a model may put in the value slot of a reply
    Token,        \* [Values -> token]: normalise(), the compared form
    Quotes,       \* what a model may put in the quote slot
    SpanL1,       \* [Quotes -> Nat]: start of the quote at level L1, 0 for none
    SpanL2,       \* [Quotes -> Nat]: the same at level L2, the ship gate's
    UNRECOGNISED, \* the token of the concept menu's escape
    NONE          \* an absent value, quote, signal or ship choice

ASSUME SpanAssumption ==
    /\ SpanL1 \in [Quotes -> Nat]
    /\ SpanL2 \in [Quotes -> Nat]
    /\ \A q \in Quotes : SpanL1[q] > 0 => SpanL2[q] > 0

ASSUME ValueAssumption ==
    /\ DOMAIN Token = Values
    /\ NONE \notin Values \cup Quotes

-----------------------------------------------------------------------------
(* Reading a reply.                                                        *)

\* A reply that is no JSON object, or one with the slots the prompt asks for.
Garbled == [json |-> FALSE, answered |-> FALSE, value |-> NONE, quote |-> NONE]
Replies == {Garbled} \cup
    [json : {TRUE}, answered : BOOLEAN,
     value : Values \cup {NONE}, quote : Quotes \cup {NONE}]

Silent(parseFailed) ==
    [answered |-> FALSE, raw |-> NONE, quote |-> NONE, parse_failed |-> parseFailed]

\* A value without its quote, or a quote without a value, is no answer; it and
\* a reply that cannot be read are told from the model's own "not stated".
AnswerFrom(reply) ==
    IF ~reply.json \/ (reply.answered /\ NONE \in {reply.value, reply.quote})
    THEN Silent(TRUE)
    ELSE IF ~reply.answered THEN Silent(FALSE)
    ELSE [answered |-> TRUE, raw |-> reply.value, quote |-> reply.quote,
          parse_failed |-> FALSE]

Answers == {AnswerFrom(r) : r \in Replies}

-----------------------------------------------------------------------------
(* The D9 merge.                                                           *)

Located(ans) == ans.answered /\ SpanL2[ans.quote] > 0

\* The earlier span ships; at the same place it is model_a's.
Earliest(a, b) ==
    IF SpanL2[b.quote] < SpanL2[a.quote] THEN "model_b" ELSE "model_a"

Unknown(reason) ==
    [tag |-> "UNKNOWN", value |-> NONE, reason |-> reason,
     quote |-> NONE, choice |-> NONE]

Stated(token, quote, choice) ==
    [tag |-> "STATED", value |-> token, reason |-> "quoted",
     quote |-> quote, choice |-> choice]

\* The early returns of fill_field in their order: silence, a quote that is
\* not in the paper, a lone answer, two values that differ.
FillField(a, b) ==
    CASE ~a.answered /\ ~b.answered -> Unknown("not_stated")
      [] \/ a.answered /\ ~Located(a)
         \/ b.answered /\ ~Located(b) -> Unknown("quote_match_failure")
      [] a.answered # b.answered /\ Located(IF a.answered THEN a ELSE b)
         -> Unknown("single_response")
      [] Located(a) /\ Located(b) /\ Token[a.raw] # Token[b.raw]
         -> Unknown("disagreement")
      [] OTHER -> LET choice == Earliest(a, b)
                  IN Stated(Token[a.raw],
                            IF choice = "model_b" THEN b.quote ELSE a.quote,
                            choice)

-----------------------------------------------------------------------------
(* The free-text fields: no equality gate, the earliest located summary.   *)

\* Quotes of a summary are located at the text's own level, L1.
LocatedSummary(ans) == ans.answered /\ SpanL1[ans.quote] > 0

FillSummary(a, b) ==
    IF ~LocatedSummary(a) /\ ~LocatedSummary(b) THEN Unknown("not_stated")
    ELSE LET choice == IF ~LocatedSummary(a) THEN "model_b"
                       ELSE IF ~LocatedSummary(b) THEN "model_a"
                       ELSE IF SpanL1[b.quote] < SpanL1[a.quote] THEN "model_b"
                       ELSE "model_a"
             chosen == IF choice = "model_b" THEN b ELSE a
         IN Stated(chosen.raw, chosen.quote, choice)

-----------------------------------------------------------------------------
(* A signal reference: the merged concept and the paper's words for it.    *)

\* The audit quotes are located by the default level, not by the ship gate's.
DescribedQuotes(a, b) ==
    {ans.quote : ans \in {x \in {a, b} : LocatedSummary(x)}}

\* SignalRef.__post_init__ raises for an unrecognised signal without quotes.
SignalRaises(a, b) ==
    /\ FillField(a, b).value = UNRECOGNISED
    /\ DescribedQuotes(a, b) = {}

FillSignalRef(a, b) ==
    IF FillField(a, b).tag # "STATED" THEN NONE
    ELSE [concept_id |-> FillField(a, b).value, quotes |-> DescribedQuotes(a, b)]

-----------------------------------------------------------------------------
(* The D20 merge of two construction lists: sequences of [name, cls].      *)

ClassesOf(list, n) == {list[i].cls : i \in {j \in DOMAIN list : list[j].name = n}}
NamesOf(list) == {list[i].name : i \in DOMAIN list}
SelfInconsistent(list) ==
    \E n \in NamesOf(list) : Cardinality(ClassesOf(list, n)) > 1

EnumerationAgreed(la, lb) ==
    /\ NamesOf(la) = NamesOf(lb)
    /\ \A n \in NamesOf(la) : ClassesOf(la, n) = ClassesOf(lb, n)

\* EnumerationResult.strategies of the list that ships, model_a's, as it came.
StrategiesOf(list) ==
    LET strategies == SelectSeq(list, LAMBDA c : c.cls = "strategy")
    IN [i \in DOMAIN strategies |-> strategies[i].name]

=============================================================================
