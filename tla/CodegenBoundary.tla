--------------------------- MODULE CodegenBoundary ---------------------------
(***************************************************************************)
(* scripts/run_p2_codegen.py --execute --phase reported: one invocation     *)
(* after another of the coverage-boundary experiment.  Each asks two models *)
(* for a program per member, replaying what the response cache holds, runs  *)
(* the programs in jails, reads their series back and writes a result and a *)
(* report.  With them the driver (codegen/p2_driver.py), the pre-flight     *)
(* (preflight.py), the metered client (live_client.py), the sandbox and the *)
(* assembly (p2_execute.py, p2_boundary.py).                                *)
(*                                                                         *)
(* The census, the zoo list and the arms are inputs: what they decide is    *)
(* whether the selection is below the floor and whether the evidence and    *)
(* the arms are as a reportable result needs them.  Each model has a vendor *)
(* of its own.  Prices are in units; a vendor meters a call at most at the  *)
(* bound that the pre-flight prices it with.                                *)
(***************************************************************************)
EXTENDS Naturals, Sequences, FiniteSets

CONSTANTS
    Members,   \* sequence: the selected members, Arm A then Arm B
    Models,    \* sequence: the pair of models
    Responses, \* what a model may reply
    Scripts,   \* the replies with exactly one fenced program
    Costs,     \* what a vendor may meter for a call
    CallBound, \* what the pre-flight prices a call at
    UsdCap,    \* BudgetGuard's cap on a process's spend
    Options,   \* what invocations are given: a set of [override, refresh, cap]
    ABSENT,    \* no response, no version, no file
    MaxStarts, \* bound: invocations
    MaxFaults  \* bound: deaths of an invocation and evicted cache entries

ASSUME CostAssumption ==
    /\ {CallBound, UsdCap, MaxStarts, MaxFaults} \subseteq Nat
    /\ Options \subseteq [override : BOOLEAN, refresh : BOOLEAN, cap : Nat]
    /\ Costs \subseteq 0..CallBound
    /\ Scripts \subseteq Responses /\ ABSENT \notin Responses

\* The census refuses a second entry of a paper (census.py 280-285) and the arms
\* are two of its dispositions; the pair is of two models.
ASSUME DistinctAssumption ==
    /\ Members \in Seq({Members[k] : k \in DOMAIN Members})
    /\ Models \in Seq({Models[k] : k \in DOMAIN Models})
    /\ \A j, k \in DOMAIN Members : Members[j] = Members[k] => j = k
    /\ \A j, k \in DOMAIN Models : Models[j] = Models[k] => j = k

ModelSet == {Models[i] : i \in DOMAIN Models}

\* A model's id is a string, so it is not the absent version.
ASSUME VersionAssumption == ABSENT \notin ModelSet

Pairs == {Members[i] : i \in DOMAIN Members} \X ModelSet
Turns == Len(Members) * Len(Models)
\* The driver's loop: the members, and for each of them the models.
PairAt(i) == <<Members[((i - 1) \div Len(Models)) + 1],
               Models[((i - 1) % Len(Models)) + 1]>>

VARIABLES
    below,  \* the selection is below the floor
    cache,  \* the response cache: [Pairs -> response]
    jail,   \* [Pairs -> the invocation whose program wrote the output there, or 0]
    files,  \* the results: [closeout, executed -> [json, md]]
    pc,     \* where the invocation is; "idle" between invocations
    code,   \* how the latest one ended
    proc,   \* what the process holds
    starts, faults, \* counters of the bounds
    bought, lost,   \* per pair: answers paid for, answers that were then lost
    origin  \* history, per pair: the invocation and version of its cached answer

vars ==
    <<below, cache, jail, files, pc, code, proc, starts, faults, bought, lost, origin>>
ledger == <<bought, lost, origin>>
stores == <<below, cache, jail, files>>

NoFiles == [json |-> ABSENT, md |-> ABSENT]
PerModel(x) == [m \in ModelSet |-> x]

\* A fresh process: clients, BudgetGuard and records are made anew.
Process(opts) ==
    [opts |-> opts, live |-> {}, version |-> PerModel(ABSENT),
     spent |-> PerModel(0), total |-> 0, misses |-> PerModel(0),
     turn |-> 1, response |-> ABSENT, runs |-> <<>>, result |-> ABSENT]
Nobody == Process([override |-> FALSE, refresh |-> FALSE, cap |-> 0])

Init ==
    /\ below \in BOOLEAN
    /\ cache = [p \in Pairs |-> ABSENT]
    /\ jail = [p \in Pairs |-> 0]
    /\ files = [closeout |-> NoFiles, executed |-> NoFiles]
    /\ pc = "idle" /\ code = "none"
    /\ proc = Nobody
    /\ starts = 0 /\ faults = 0
    /\ bought = [p \in Pairs |-> 0]
    /\ lost = [p \in Pairs |-> 0]
    /\ origin = [p \in Pairs |-> [run |-> 0, version |-> ABSENT]]

-----------------------------------------------------------------------------
(* From the start of an invocation to its first question.                  *)

Start(opts) ==
    /\ pc = "idle" /\ starts < MaxStarts
    /\ starts' = starts + 1
    /\ pc' = "route" /\ code' = "running"
    /\ proc' = Process(opts)
    /\ UNCHANGED <<stores, faults, ledger>>

\* What the process held is gone with it.
Exit(how) == pc' = "idle" /\ code' = how /\ proc' = Nobody
Goto(label) == pc' = label /\ UNCHANGED code

\* The execute gate or the census's own consistency check refuses.
RefuseGate ==
    /\ pc = "route"
    /\ Exit("refused")
    /\ UNCHANGED <<stores, starts, faults, ledger>>

\* Wrong: a result without its report does not count as one.
RouteOnReport ==
    /\ pc = "route"
    /\ IF below /\ ~proc.opts.override
       THEN IF files.closeout.json # ABSENT /\ ~proc.opts.refresh
            THEN Exit("refused") ELSE Goto("closeout_json") /\ UNCHANGED proc
       ELSE IF files.executed.md # ABSENT
            THEN Exit("refused") ELSE Goto("preflight") /\ UNCHANGED proc
    /\ UNCHANGED <<stores, starts, faults, ledger>>

\* Below the floor there is only the close-out, unless a departure is named.
Route ==
    /\ pc = "route"
    /\ IF below /\ ~proc.opts.override
       THEN IF files.closeout.json # ABSENT /\ ~proc.opts.refresh
            THEN Exit("refused") ELSE Goto("closeout_json") /\ UNCHANGED proc
       ELSE IF files.executed # NoFiles
            THEN Exit("refused") ELSE Goto("preflight") /\ UNCHANGED proc
    /\ UNCHANGED <<stores, starts, faults, ledger>>

CloseOutResult ==
    /\ pc = "closeout_json"
    /\ files' = [files EXCEPT !.closeout.json = [run |-> starts]]
    /\ Goto("closeout_md")
    /\ UNCHANGED <<below, cache, jail, proc, starts, faults, ledger>>

CloseOutReport ==
    /\ pc = "closeout_md"
    /\ files' = [files EXCEPT !.closeout.md = [run |-> starts]]
    /\ Exit("done")
    /\ UNCHANGED <<below, cache, jail, starts, faults, ledger>>

\* Wrong: several misses of one model are one.
MissesOnce == [m \in ModelSet |->
    IF \E p \in Pairs : p[2] = m /\ cache[p] = ABSENT THEN 1 ELSE 0]

\* cache_census, counted per model.
Misses == [m \in ModelSet |-> Cardinality({p \in Pairs : p[2] = m /\ cache[p] = ABSENT})]

\* The upper-bound estimate per vendor is held against the caps before there
\* is any client; only a model with a miss gets a live one.
Preflight(credentials) ==
    /\ pc = "preflight"
    /\ LET live == {m \in ModelSet : Misses[m] > 0}
       IN /\ IF \/ \E m \in ModelSet : Misses[m] * CallBound > proc.opts.cap
                \/ live # {} /\ ~credentials
             THEN Exit("refused")
             ELSE /\ Goto("generate")
                  /\ proc' = [proc EXCEPT !.live = live, !.misses = Misses]
    /\ UNCHANGED <<stores, starts, faults, ledger>>

-----------------------------------------------------------------------------
(* The driver's loop.                                                      *)

Pair == PairAt(proc.turn)
Model == Pair[2]
Asking == pc = "generate" /\ proc.turn <= Turns

\* Wrong: the version recorded is the one asked for.
RecordAsked(status, output) ==
    [pair |-> Pair, status |-> status, output |-> output, version |-> Model]

\* The record of this turn's run.  The version is the client's latest, of
\* whichever of its calls that was.
Record(status, output) ==
    [pair |-> Pair, status |-> status, output |-> output,
     version |-> proc.version[Model]]
NextTurn(record) ==
    [proc EXCEPT !.runs = Append(@, record), !.turn = @ + 1,
                 !.response = ABSENT]

Replay ==
    /\ Asking /\ cache[Pair] # ABSENT
    /\ proc' = [proc EXCEPT !.response = cache[Pair]]
    /\ Goto("extract")
    /\ UNCHANGED <<stores, starts, faults, ledger>>

\* The replay client of a model without misses halts the run.
UnexpectedMiss ==
    /\ Asking /\ cache[Pair] = ABSENT /\ Model \notin proc.live
    /\ Exit("halted")
    /\ UNCHANGED <<stores, starts, faults, ledger>>

\* The vendor answers and is paid; past the cap, charge raises over the answer.
CallAnswered(cost, version, reply) ==
    /\ Asking /\ cache[Pair] = ABSENT /\ Model \in proc.live
    /\ bought' = [bought EXCEPT ![Pair] = @ + 1]
    /\ LET charged == [proc EXCEPT !.spent[Model] = @ + cost,
                                   !.total = @ + cost,
                                   !.version[Model] = version,
                                   !.response = reply]
       IN IF charged.total > UsdCap
          THEN Exit("halted") /\ lost' = [lost EXCEPT ![Pair] = @ + 1]
          ELSE Goto("put") /\ proc' = charged /\ UNCHANGED lost
    /\ UNCHANGED <<stores, starts, faults, origin>>

\* Retries used up, or none can help: a typed error, and the loop goes on.
CallFails ==
    /\ Asking /\ cache[Pair] = ABSENT /\ Model \in proc.live
    /\ proc' = NextTurn(Record("generation_error", 0))
    /\ UNCHANGED <<stores, pc, code, starts, faults, ledger>>

\* Wrong: an answer is used and not stored.
PutNothing ==
    /\ pc = "put"
    /\ Goto("extract")
    /\ UNCHANGED <<stores, proc, starts, faults, ledger>>

\* Put is immutable and atomic.
Put ==
    /\ pc = "put"
    /\ cache' = IF cache[Pair] = ABSENT
                THEN [cache EXCEPT ![Pair] = proc.response] ELSE cache
    /\ origin' = [origin EXCEPT ![Pair] = [run |-> starts, version |-> proc.version[Model]]]
    /\ Goto("extract")
    /\ UNCHANGED <<below, jail, files, proc, starts, faults, bought, lost>>

\* Wrong: the program is run in the jail as the last run left it.
ExtractUncleared ==
    /\ pc = "extract"
    /\ IF proc.response \in Scripts
       THEN Goto("sandbox") /\ UNCHANGED proc
       ELSE Goto("generate") /\ proc' = NextTurn(Record("wont_run", 0))
    /\ UNCHANGED <<stores, starts, faults, ledger>>

\* A reply without its one program never reaches the sandbox; for a program
\* the jail is cleared first.
Extract ==
    /\ pc = "extract"
    /\ IF proc.response \in Scripts
       THEN /\ jail' = [jail EXCEPT ![Pair] = 0]
            /\ Goto("sandbox") /\ UNCHANGED proc
       ELSE /\ Goto("generate") /\ proc' = NextTurn(Record("wont_run", 0))
            /\ UNCHANGED jail
    /\ UNCHANGED <<below, cache, files, starts, faults, ledger>>

\* The program may write its output or not, and end cleanly or not (a timeout,
\* an exit code, an output that is not the one CSV asked for).
Sandbox(writes, clean) ==
    /\ pc = "sandbox"
    /\ jail' = IF writes THEN [jail EXCEPT ![Pair] = starts] ELSE jail
    /\ proc' = NextTurn(IF clean /\ jail'[Pair] # 0
                        THEN Record("ok", jail'[Pair]) ELSE Record("wont_run", 0))
    /\ Goto("generate")
    /\ UNCHANGED <<below, cache, files, starts, faults, ledger>>

-----------------------------------------------------------------------------
(* The read-back, the assembly and the result.                             *)

RunsWith(status) == {i \in DOMAIN proc.runs : proc.runs[i].status = status}

\* Wrong: one model's series is enough.
ScoredEither(series) ==
    {Members[k] : k \in {j \in DOMAIN Members :
        \E m \in ModelSet : \E i \in series :
            proc.runs[i].pair = <<Members[j], m>>}}

\* A member is scored when both its series can be read back.
Scored(series) ==
    {Members[k] : k \in {j \in DOMAIN Members :
        \A m \in ModelSet : \E i \in series :
            proc.runs[i].pair = <<Members[j], m>>}}

\* Wrong: no mismatch seen is a match.
NoMismatchSeen ==
    IF \E i \in DOMAIN proc.runs :
           proc.runs[i].version \notin {ABSENT, proc.runs[i].pair[2]}
    THEN "mismatch" ELSE "match"

\* Tri-state: a version that differs, all versions as pinned, or neither.
Verified == {i \in DOMAIN proc.runs : proc.runs[i].version # ABSENT}
SkuMatch ==
    IF \E i \in Verified : proc.runs[i].version # proc.runs[i].pair[2] THEN "mismatch"
    ELSE IF Verified = DOMAIN proc.runs THEN "match" ELSE "unverified"

Reportable(series, evidence) ==
    /\ ~below /\ evidence
    /\ Scored(series) # {}
    /\ SkuMatch = "match"
    /\ RunsWith("generation_error") = {}

\* generated_series rejects what it cannot read or has a month twice; the
\* census tells whether the specs' provenance and the arms are as they should.
Assemble(rejected, evidence) ==
    /\ pc = "generate" /\ proc.turn > Turns
    /\ proc' = [proc EXCEPT !.result =
           [run |-> starts, sku |-> SkuMatch,
            evidence |-> evidence,
            reportable |-> Reportable(RunsWith("ok") \ rejected, evidence)]]
    /\ Goto("json")
    /\ UNCHANGED <<stores, starts, faults, ledger>>

WriteJson ==
    /\ pc = "json"
    /\ files' = [files EXCEPT !.executed.json = proc.result]
    /\ Goto("md")
    /\ UNCHANGED <<below, cache, jail, proc, starts, faults, ledger>>

WriteReport ==
    /\ pc = "md"
    /\ files' = [files EXCEPT !.executed.md = [run |-> starts]]
    /\ Exit("done")
    /\ UNCHANGED <<below, cache, jail, starts, faults, ledger>>

-----------------------------------------------------------------------------
(* The world around it, and the specification.                             *)

\* "move or delete it to re-run".
SetAside ==
    /\ pc = "idle" /\ files.executed # NoFiles
    /\ files' = [files EXCEPT !.executed = NoFiles]
    /\ UNCHANGED <<below, cache, jail, pc, code, proc, starts, faults, ledger>>

\* The process dies; an answer that is not in the cache yet goes with it.
Crash ==
    /\ pc # "idle" /\ faults < MaxFaults
    /\ faults' = faults + 1
    /\ lost' = IF pc = "put" THEN [lost EXCEPT ![Pair] = @ + 1] ELSE lost
    /\ Exit("crashed")
    /\ UNCHANGED <<stores, starts, bought, origin>>

\* An entry of the cache is removed by something outside the run.
Evict(p) ==
    /\ pc \in {"idle", "generate"} /\ faults < MaxFaults /\ cache[p] # ABSENT
    /\ faults' = faults + 1
    /\ cache' = [cache EXCEPT ![p] = ABSENT]
    /\ lost' = [lost EXCEPT ![p] = @ + 1]
    /\ UNCHANGED <<below, jail, files, pc, code, proc, starts, bought, origin>>

Next ==
    \/ \E opts \in Options : Start(opts)
    \/ RefuseGate \/ Route
    \/ CloseOutResult \/ CloseOutReport
    \/ \E credentials \in BOOLEAN : Preflight(credentials)
    \/ Replay \/ UnexpectedMiss \/ CallFails
    \/ \E cost \in Costs, version \in ModelSet, reply \in Responses :
           CallAnswered(cost, version, reply)
    \/ Put \/ Extract
    \/ \E writes, clean \in BOOLEAN : Sandbox(writes, clean)
    \/ \E rejected \in SUBSET RunsWith("ok"), evidence \in BOOLEAN :
           Assemble(rejected, evidence)
    \/ WriteJson \/ WriteReport
    \/ SetAside \/ Crash \/ \E p \in Pairs : Evict(p)

Spec == Init /\ [][Next]_vars

-----------------------------------------------------------------------------
(* Properties.                                                             *)

\* Types, and the loop's bookkeeping: one record per turn that is done.
TypeOK ==
    /\ cache \in [Pairs -> Responses \cup {ABSENT}]
    /\ jail \in [Pairs -> 0..starts]
    /\ proc.turn \in 1..(Turns + 1)
    /\ Len(proc.runs) = proc.turn - 1
    /\ \A i \in DOMAIN proc.runs : proc.runs[i].pair = PairAt(i)
    /\ code \in {"none", "running", "refused", "halted", "crashed", "done"}
    /\ starts <= MaxStarts /\ faults <= MaxFaults

\* What a process spends was foreseen by its pre-flight (preflight.py): a model
\* without misses spends nothing, another no more than its estimate and what
\* was evicted since; and no process goes on past the cap.
SpendWithinPreflight ==
    /\ \A m \in ModelSet :
          /\ proc.spent[m] <= CallBound * (proc.misses[m] + faults)
          /\ m \notin proc.live => proc.spent[m] = 0
          /\ faults = 0 => proc.spent[m] <= proc.opts.cap
    /\ proc.total <= UsdCap

\* An answer is paid for again only after it was lost: by a halt or a death
\* before it was stored, or by an eviction ("a re-run never pays twice for the
\* same prompt", run_p2_codegen.py 100-101).
PaidOnce == \A p \in Pairs : bought[p] <= 1 + lost[p]

\* A series that is scored was written by this invocation's own run of the
\* program, never by an earlier one (p2_driver.py 247-251).
SeriesIsThisRuns ==
    \A i \in RunsWith("ok") : proc.runs[i].output = starts

\* A reportable result is above the floor, every run of it is recorded with the
\* version asked for, and some member has executed under both models.  Each model
\* has answered this invocation, and what it answered came from that version: the
\* stamp is never made of replays alone, nor does a record hide a wrong version
\* that was served now.  It is no evidence of what this invocation only replays:
\* such a run is recorded with the version of another call (p2_driver.py 271),
\* against run_p2_codegen.py 464-466.  Code: run_p2_codegen.py 467-554.
ReportableIsEarned ==
    pc = "md" /\ files.executed.json.reportable =>
        /\ ~below /\ files.executed.json.evidence
        /\ \A i \in 1..Turns : proc.runs[i].version = PairAt(i)[2]
        /\ \A m \in ModelSet : \E p \in Pairs : p[2] = m /\ origin[p].run = starts
        /\ \A p \in Pairs : origin[p].run = starts => origin[p].version = p[2]
        /\ faults = 0 => \A p \in Pairs : cache[p] # ABSENT
        /\ \E k \in DOMAIN Members : \A i \in 1..Turns :
               PairAt(i)[1] = Members[k] => i \in RunsWith("ok")

ResultStands ==
    /\ files'.executed.json \in {files.executed.json, ABSENT} \/ files.executed = NoFiles
    /\ files'.executed.md # ABSENT => files'.executed.md.run = files'.executed.json.run

\* "A run never overwrites a recorded result", and a report stands beside the
\* result of the same run (run_p2_codegen.py 378-383).
RecordedOnce == [][ResultStands]_vars

=============================================================================
