--------------------------- MODULE TraceCleaning ---------------------------
(***************************************************************************)
(* The transaction stages of the data layer, one after the other:           *)
(*   scripts/preprocess_trace.py     three chunked scans of the raw TRACE    *)
(*                                   file: cancellations, reversals, the     *)
(*                                   interdealer duplicates, dev/holdout;    *)
(*   scripts/apply_decimal_shift.py  and scripts/bounce_back_filter.py, the  *)
(*                                   corrected branch of the raw family.     *)
(* A stage may raise or be killed; the next one starts from the files it     *)
(* finds.  A row's key fields are abstract: `bond` stands for the symbol and *)
(* the CUSIP, `day` for its date and the window it is in, `pr` for price and *)
(* volume together.  The file order is the order of execution times.         *)
(***************************************************************************)
EXTENDS BounceBack

CONSTANTS
    Files,      \* raw files: sequences of rows
    Profiles,   \* cleaning profiles
    ChunkSizes, \* of the scans
    BatchSizes, \* of the filter's read stream
    OldRow      \* a row of an earlier run's output

\* The windows of a trade date; an unparseable one is "bad".
DevDays == {"pre2012", "post2012"}
Days == DevDays \cup {"holdout", "beyond", "bad"}
NoSeq == 0

Rows == [bond : STRING, day : Days, seq : Nat, orig : Nat,
         st : {"T", "C", "X"}, asof : {"", "A", "R", "D"}, wis : BOOLEAN,
         side : {"B", "S"}, pr : Int, prday : Days, screened : BOOLEAN]

ASSUME FileAssumption ==
    /\ Files \subseteq Seq(Rows)
    /\ ChunkSizes \cup BatchSizes \subseteq Nat \ {0}

VARIABLES
    file, profile, chunk, \* of the invocation of preprocess_trace.py
    pc,        \* the stage the pipeline is in
    at,        \* rows of the current scan, or of the sorted file, consumed
    cancelled, \* cancelled_keys
    reversals, \* reversal_pool
    pool,      \* the copy of it that the current scan consumes
    sells,     \* sell_counts
    dev, hold, \* the output files: [state, rows]
    written,   \* counts: [dev, hold]
    shifted,   \* trace_clean_decimal_shifted.parquet
    corr,      \* trace_clean_corr.parquet
    filter     \* the filter's stream: [batch, segment, kept]

vars == <<file, profile, chunk, pc, at, cancelled, reversals, pool, sells,
          dev, hold, written, shifted, corr, filter>>
inputVars == <<file, profile, chunk>>
matchVars == <<cancelled, reversals, sells>>
outVars == <<dev, hold, written>>
corrVars == <<shifted, corr, filter>>

Absent == [state |-> "absent", rows |-> <<>>]
Whole(rows) == [state |-> "whole", rows |-> rows]
NoFilter == [batch |-> 1, segment |-> <<>>, kept |-> <<>>]

\* Outputs an earlier invocation may have left: none, a readable file, or one
\* whose writer was never closed.
Leftovers == {Absent, Whole(<<OldRow>>), [state |-> "torn", rows |-> <<OldRow>>]}

Init ==
    /\ file \in Files /\ profile \in Profiles /\ chunk \in ChunkSizes
    /\ pc = "scan1" /\ at = 0
    /\ cancelled = {}
    /\ reversals = EmptyBag /\ pool = EmptyBag /\ sells = EmptyBag
    /\ dev \in Leftovers /\ hold = Absent
    /\ written = [dev |-> 0, hold |-> 0]
    /\ shifted = Absent /\ corr = Absent /\ filter = NoFilter
-----------------------------------------------------------------------------
(* One chunk of a scan. *)

Finite(r) == r.pr # NonFinite
ValueKey(r) == <<r.bond, r.day, r.pr>>
Tally(keys) ==
    [k \in ToSet(keys) |-> Cardinality({i \in DOMAIN keys : keys[i] = k})]

ChunkRows ==
    SubSeq(file, at + 1,
           IF at + chunk < Len(file) THEN at + chunk ELSE Len(file))
LastChunk == at + chunk >= Len(file)

\* Filters 1a, 1b, 2 and 3 under the profile.
Kept1a(r) ==
    r.st = "T" \/ (profile.keepC /\ r.st = "C" /\ r.day = "pre2012")
AsofKept(r) ==
    \/ r.asof = ""
    \/ profile.asofA /\ r.asof = "A"
    \/ profile.asofDX /\ r.asof = "D"
Surviving(rows) ==
    Filtered(rows, LAMBDA r : /\ Kept1a(r)
                               /\ <<r.bond, r.day, r.seq>> \notin cancelled
                               /\ AsofKept(r)
                               /\ ~(profile.wis /\ r.wis))

\* Take from the rows, in order, each that Matches and whose key the pool
\* still has a copy of.  Returns what is left of both.
Consume(rows, from, Matches(_)) ==
    FoldLeft(LAMBDA acc, r :
                 IF Matches(r) /\ BagIn(ValueKey(r), acc.pool)
                 THEN [acc EXCEPT !.pool = @ (-) SetToBag({ValueKey(r)})]
                 ELSE [acc EXCEPT !.rows = Append(@, r)],
             [rows |-> <<>>, pool |-> from], rows)

\* _apply_reversal_netout.
NetOut(rows, from) == Consume(rows, from, Finite)

\* The interdealer dedup of pass 2.
Dedup(rows, from) == Consume(rows, from, LAMBDA r : r.side = "B")

FiniteSells(rows) ==
    Filtered(rows, LAMBDA r : r.side = "S" /\ Finite(r))
KeysOf(rows) == [i \in DOMAIN rows |-> ValueKey(rows[i])]
-----------------------------------------------------------------------------
(* preprocess_trace.py *)

\* Scan 1: the keys of cancelled trades and, for a profile that nets
\* reversals, how often each value is reversed.
Scan1 ==
    LET Cancels(r) == r.st # "T" /\ r.orig # NoSeq
        Reverses(r) == profile.net /\ r.asof = "R" /\ Finite(r)
                       /\ r.prday # "bad"
        reversed == Filtered(ChunkRows, Reverses)
        counted == reversals (+)
                   Tally([i \in DOMAIN reversed |->
                             <<reversed[i].bond, reversed[i].prday,
                               reversed[i].pr>>])
    IN /\ pc = "scan1"
       /\ cancelled' = cancelled \cup
              {<<r.bond, r.day, r.orig>> :
                   r \in {s \in ToSet(ChunkRows) : Cancels(s)}}
       /\ reversals' = counted
       /\ IF LastChunk
          THEN /\ pc' = (IF profile.dedup THEN "scan2" ELSE "pass2")
               /\ at' = 0 /\ pool' = counted
          ELSE /\ at' = at + chunk
               /\ UNCHANGED <<pc, pool>>
       /\ UNCHANGED <<inputVars, sells, outVars, corrVars>>

\* Wrong: pass 2 gets the pool that scan 2 consumed, not a copy of its own.
Scan2SharesPool ==
    LET netted == IF profile.net THEN NetOut(Surviving(ChunkRows), pool)
                  ELSE [rows |-> Surviving(ChunkRows), pool |-> pool]
    IN /\ pc = "scan2"
       /\ sells' = sells (+) Tally(KeysOf(FiniteSells(netted.rows)))
       /\ IF LastChunk
          THEN pc' = "pass2" /\ at' = 0 /\ pool' = netted.pool
          ELSE at' = at + chunk /\ pool' = netted.pool /\ UNCHANGED pc
       /\ UNCHANGED <<inputVars, cancelled, reversals, outVars, corrVars>>

\* Scan 2: the sell sides that survive what pass 2 applies before its dedup.
Scan2 ==
    LET netted == IF profile.net THEN NetOut(Surviving(ChunkRows), pool)
                  ELSE [rows |-> Surviving(ChunkRows), pool |-> pool]
    IN /\ pc = "scan2"
       /\ sells' = sells (+) Tally(KeysOf(FiniteSells(netted.rows)))
       /\ IF LastChunk
          THEN pc' = "pass2" /\ at' = 0 /\ pool' = reversals
          ELSE at' = at + chunk /\ pool' = netted.pool /\ UNCHANGED pc
       /\ UNCHANGED <<inputVars, cancelled, reversals, outVars, corrVars>>

\* Appending to an output file; the first rows of a run truncate it.
Write(f, rows) ==
    IF rows = <<>> THEN f
    ELSE [state |-> "open",
          rows |-> (IF f.state = "open" THEN f.rows ELSE <<>>) \o rows]
Closed(f) == IF f.state = "open" THEN [f EXCEPT !.state = "whole"] ELSE f

\* Pass 2: the filters, the dedup, the profile's screens, the date parse and
\* the split.  A date beyond the holdout window raises before the chunk is
\* written; the writers are closed either way.
Pass2 ==
    LET netted == IF profile.net THEN NetOut(Surviving(ChunkRows), pool)
                  ELSE [rows |-> Surviving(ChunkRows), pool |-> pool]
        unique == Dedup(netted.rows, sells)
        dated == Filtered(unique.rows, LAMBDA r :
                     ~(profile.screens /\ r.screened) /\ r.day # "bad")
        Part(days) == Filtered(dated, LAMBDA r : r.day \in days)
        raises == Part({"beyond"}) # <<>>
        devOut == Write(dev, IF raises THEN <<>> ELSE Part(DevDays))
        holdOut == Write(hold, IF raises THEN <<>> ELSE Part({"holdout"}))
        ends == raises \/ LastChunk
    IN /\ pc = "pass2"
       /\ pool' = netted.pool
       /\ sells' = unique.pool
       /\ dev' = (IF ends THEN Closed(devOut) ELSE devOut)
       /\ hold' = (IF ends THEN Closed(holdOut) ELSE holdOut)
       /\ written' = (IF raises THEN written
                      ELSE [dev |-> written.dev + Len(Part(DevDays)),
                            hold |-> written.hold + Len(Part({"holdout"}))])
       /\ at' = at + chunk
       /\ pc' = (IF raises THEN "failed" ELSE IF LastChunk THEN "verify"
                 ELSE "pass2")
       /\ UNCHANGED <<inputVars, cancelled, reversals, corrVars>>

\* The row counts of the files are compared with the counters and the report
\* is written; a file that cannot be read, or that holds another number of
\* rows, ends the run.
Verify ==
    LET Agrees(f, n) ==
            f.state = "absent" \/ (f.state = "whole" /\ Len(f.rows) = n)
    IN /\ pc = "verify"
       /\ pc' = (IF Agrees(dev, written.dev) /\ Agrees(hold, written.hold)
                 THEN "cleaned" ELSE "failed")
       /\ UNCHANGED <<inputVars, at, matchVars, pool, outVars, corrVars>>

\* The process is killed: an open parquet file is left without its footer.
Kill ==
    LET Torn(f) == IF f.state = "open" THEN [f EXCEPT !.state = "torn"] ELSE f
    IN /\ pc \in {"scan1", "scan2", "pass2", "verify"}
       /\ pc' = "failed"
       /\ dev' = Torn(dev) /\ hold' = Torn(hold)
       /\ UNCHANGED <<inputVars, at, matchVars, pool, written, corrVars>>
-----------------------------------------------------------------------------
(* apply_decimal_shift.py and bounce_back_filter.py, for the development    *)
(* partition of the raw family.                                             *)

\* The shift reads whatever development file is there, also one an ended run
\* left incomplete; an unreadable one raises.  Its own output is replaced
\* atomically, and left alone when no row is kept.
Shift ==
    LET rows == DecimalShift(dev.rows)
    IN /\ pc \in {"cleaned", "failed"} /\ profile.id = "raw"
       /\ dev.state = "whole"
       /\ shifted' = (IF rows = <<>> THEN shifted ELSE Whole(rows))
       /\ pc' = "shifted"
       /\ UNCHANGED <<inputVars, at, matchVars, pool, outVars, corr, filter>>

\* The filter sorts its input by segment, then date.
SortedRows ==
    LET Of(b, d) == Filtered(shifted.rows,
                              LAMBDA r : r.bond = b /\ r.day = d)
        bonds == SetToSeq({r.bond : r \in ToSet(shifted.rows)})
    IN FlattenSeq([i \in DOMAIN bonds |->
                      Of(bonds[i], "pre2012") \o Of(bonds[i], "post2012")])

StartFilter ==
    /\ pc = "shifted" /\ shifted.state = "whole"
    /\ \E b \in BatchSizes : filter' = [NoFilter EXCEPT !.batch = b]
    /\ pc' = "filtering" /\ at' = 0
    /\ UNCHANGED <<inputVars, matchVars, pool, outVars, shifted, corr>>

\* _flush_current_bond: the loop over the accumulated rows of one bond.
Flush(st) ==
    LET mask == BounceBackLoop([i \in DOMAIN st.segment |-> st.segment[i].pr])
    IN [st EXCEPT !.segment = <<>>,
                  !.kept = @ \o At(st.segment, {i \in DOMAIN st.segment : mask[i]})]

\* A row of a batch joins the current segment or, when its key is another,
\* flushes it and opens its own.
Accumulate(st, r) ==
    LET flushed == IF st.segment # <<>> /\ Head(st.segment).bond # r.bond
                   THEN Flush(st) ELSE st
    IN [flushed EXCEPT !.segment = Append(@, r)]

\* Wrong: the end of a batch ends the bond's segment.
ReadBatchFlushes ==
    LET rows == SubSeq(SortedRows, at + 1,
                       IF at + filter.batch < Len(SortedRows)
                       THEN at + filter.batch ELSE Len(SortedRows))
    IN /\ pc = "filtering" /\ at < Len(SortedRows)
       /\ filter' = Flush(FoldLeft(Accumulate, filter, rows))
       /\ at' = at + filter.batch
       /\ UNCHANGED <<inputVars, pc, matchVars, pool, outVars, shifted, corr>>

ReadBatch ==
    LET rows == SubSeq(SortedRows, at + 1,
                       IF at + filter.batch < Len(SortedRows)
                       THEN at + filter.batch ELSE Len(SortedRows))
    IN /\ pc = "filtering" /\ at < Len(SortedRows)
       /\ filter' = FoldLeft(Accumulate, filter, rows)
       /\ at' = at + filter.batch
       /\ UNCHANGED <<inputVars, pc, matchVars, pool, outVars, shifted, corr>>

\* The last flush, the row counts and the atomic replacement of the output.
PublishFilter ==
    /\ pc = "filtering" /\ at >= Len(SortedRows)
    /\ filter' = Flush(filter)
    /\ corr' = Whole(Flush(filter).kept)
    /\ pc' = "filtered"
    /\ UNCHANGED <<inputVars, at, matchVars, pool, outVars, shifted>>

\* A killed filter leaves no output: both of its files are temporary ones.
KillFilter ==
    /\ pc = "filtering"
    /\ pc' = "shifted"
    /\ filter' = NoFilter
    /\ UNCHANGED <<inputVars, at, matchVars, pool, outVars, shifted, corr>>

Next ==
    \/ Scan1 \/ Scan2 \/ Pass2 \/ Verify \/ Kill
    \/ Shift \/ StartFilter \/ ReadBatch \/ PublishFilter \/ KillFilter

Spec == Init /\ [][Next]_vars
-----------------------------------------------------------------------------
(* What a cleaned file is, of the whole raw file at once. *)

Index == DOMAIN file
SameValue(i, j) == ValueKey(file[i]) = ValueKey(file[j])
Count(Test(_)) == Cardinality({j \in Index : Test(j)})

\* A valid trade that no other record cancels.
Valid(i) ==
    /\ Kept1a(file[i]) /\ AsofKept(file[i])
    /\ ~(profile.wis /\ file[i].wis)
    /\ ~\E c \in Index : /\ file[c].st # "T" /\ file[c].orig # NoSeq
                         /\ <<file[c].bond, file[c].day, file[c].orig>>
                            = <<file[i].bond, file[i].day, file[i].seq>>

\* As many of a value's valid trades, the earliest, as it has reversals.
Reversed(i) ==
    LET reversing(c) == /\ file[c].asof = "R" /\ Finite(file[c])
                        /\ <<file[c].bond, file[c].prday, file[c].pr>>
                           = ValueKey(file[i])
        earlier(j) == j < i /\ Valid(j) /\ SameValue(i, j)
    IN /\ profile.net /\ Valid(i) /\ Finite(file[i])
       /\ Count(earlier) < Count(reversing)
Stands(i) == Valid(i) /\ ~Reversed(i)

\* As many of a value's standing buys, the earliest, as it has standing sells.
Duplicate(i) ==
    LET sell(j) == Stands(j) /\ file[j].side = "S" /\ SameValue(i, j)
        earlier(j) == /\ j < i /\ Stands(j) /\ file[j].side = "B"
                      /\ SameValue(i, j)
    IN /\ profile.dedup /\ Stands(i) /\ file[i].side = "B" /\ Finite(file[i])
       /\ Count(earlier) < Count(sell)

CleanRows(days) ==
    At(file, {i \in Index : /\ Stands(i) /\ ~Duplicate(i)
                            /\ ~(profile.screens /\ file[i].screened)
                            /\ file[i].day \in days})

-----------------------------------------------------------------------------

\* A run that ends well leaves in its two files exactly the trades that stand
\* in the raw file taken as a whole, in its order: a cancellation or a reversal
\* counts wherever it is, a buy is dropped only against a sell that stands
\* too, the two scans that net reversals agree, the chunks the file is read in
\* make no difference, and nothing of an earlier run is left in their place.
\* Code: _collect_sets (preprocess_trace.py 336-483, "so the dedup pool equals
\* Pass 2's surviving sells exactly"), run_pandas (486-748).
CleanedFilesAreExact ==
    pc = "cleaned" =>
        dev.rows = CleanRows(DevDays) /\ hold.rows = CleanRows({"holdout"})

\* The filtered file does not depend on the batches its input was read in: of
\* every bond it holds the prices that the loop keeps of all its prices in
\* order, whatever filter runs were killed before.
\* Code: process_partition (bounce_back_filter.py 193-380, "results are
\* invariant to it (bond segments accumulate across batch boundaries)").
FilteringIgnoresBatches ==
    pc = "filtered" =>
        \A b \in {r.bond : r \in ToSet(shifted.rows)} :
            LET Ofb(rows) == Filtered(rows, LAMBDA r : r.bond = b)
                of == Ofb(SortedRows)
                mask == BounceBackLoop([i \in DOMAIN of |-> of[i].pr])
            IN Ofb(corr.rows) = At(of, {i \in DOMAIN of : mask[i]})

=============================================================================
