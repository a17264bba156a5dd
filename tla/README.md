# A formal model of the bond-factor audit pipeline

TLA+ modules, TLC configurations and TLAPS proofs for the multi-agent pipeline of this
repository: a Librarian that extracts a strategy from a paper, a Quant that runs it on a cleaned
bond panel, an Auditor that measures its biases, a Scientist that proposes and tests extensions
and evaluates the survivors once on a protected holdout, and a Reporter that publishes verified
notes.

Almost all of the repository is sequential, single-process Python. There are no threads, no
locks and no event loop. What is hard about it is elsewhere: processes that may die between two
writes to disk and are started again, separate processes that share a cache directory, a vendor
that bills work the client may forget about, a test family whose members decide each other's
fate, two implementations of one rule that must agree, and rules ("exactly one evaluation", "an
atomic publication", "a re-run never pays twice") that no single function enforces.

## Inventory

| Component | State it keeps | Operations | What makes it correct | Hard behaviour |
|---|---|---|---|---|
| One-shot holdout (`agents/scientist/experimentalist/oneshot_holdout`, `holdout.py`, `scripts/run_oneshot_holdout.py`, `scripts/holdout_inventory.py`) | stage marker and rehearsal marker (append-only JSONL), manifest, report; per process: an access counter | preflight, checklist, `plan_next`, gate, stage 1 build, stage 2 evaluation, rehearsal | one evaluation ever; one restart; provenance before result | death between or inside writes, restarts, damaged markers, two runs at once |
| Librarian prefetch (`scripts/run_librarian_prefetch.py`) | replay cache, batch ledger, spend sidecar on disk; batches at the vendor | plan, submit, poll, collect, resume, write sidecar | nothing paid for is lost or bought twice | crash around billing, vendor errors, plans that are stale, different sets |
| Librarian extraction (`agents/librarian/pipeline`, `scripts/run_librarian.py`) | disk and memory caches, raw archive, specs, events, manifest, usage counters | enumerate, `fill_field` and its kin, assemble, validate, emit, retry | a value ships only if two models agree and both quotes locate; every construction has one outcome; a resumed run is free | order of early returns, retries, replay, leftovers of an earlier run, deaths |
| Librarian adapter, corpus fate and corpus driver | corpus log | legs, combination of refusals, fate of a paper | refusals are all collected; every paper has one fate | order of legs |
| Data layer (`preprocess_trace.py`, `apply_decimal_shift.py`, `bounce_back_filter.py`, `build_monthly_panel.py`) | parquet files between stages; per scan: pools of keys | chunked matching of cancellations and reversals, price corrections | the output is that of the file as a whole | chunk and batch boundaries, a partial file left by a failed stage |
| Quant (`agents/quant`) | none | configuration, ledger check, sorts, overlapping holding | refusals before numbers; no look-ahead; wrapper and engine agree | a rule written twice, boundaries, missing rows |
| Auditor (`agents/auditor`, `scripts/run_auditor.py`) | lattice of cells, shared panel views, reports | scope, configurations, cells, algebra, no-op tests | attribution adds up; each cell is its own run | shared views, cells with different months |
| Auditor FDR (`agents/auditor/checks/fdr.py`) | none | `benjamini_hochberg` | equals the step-up procedure | ties, boundary, NaN |
| Auditor IPCA differential, explainer | none | linear algebra, text | numerical | none for a model checker |
| Researcher and RQ4 funnel (`agents/scientist/researcher`, `scripts/run_rq4_funnel.py`, `oneshot_holdout_*.py`) | response cache, funnel artefact, development pins | pre-flight, generate, decode, select, regenerate | every answer is logged before it is selected from; the holdout evaluates what was advanced | a cache shared by processes without a lock, positional ids, stale pre-flight |
| Experimentalist (`experimentalist/orchestrator.py` and its gates) | the keys and transforms seen, the stored outcomes, the test family, the survivors | gates G0 to G5 | one hypothesis per strategy; BH as in the textbook; labels agree with fates | joint decisions, duplicates at two levels, partial failure |
| Code-generation arms (`evaluation/codegen`, `scripts/run_p2_codegen.py`) | response cache, jails, result and report | census gate, pre-flight, generate, extract, sandbox, score, record | spend as foreseen; no stale output; a result is recorded once | stale jail, budget stop, stale model version, deaths |
| Reporter publication (`agents/reporter/registry.py`) | published, backup and staging directory | render, verify, registry, swap | a reader finds a whole publication; failures change nothing | crash between two renamings, removals that stop half way |
| Reporter content (`routing.py`, `legal_states.yaml`, `renderer.py`, `emit.py`) | none | table look-ups, rendering | every legal state has one disposition | completeness of the tables |
| Evaluation harness, gold specifications, governance | files | batch transformations | deterministic | none for a model checker |

The components call one another in one direction: data layer → Quant; Librarian → Quant →
Auditor → (case) → Researcher → Experimentalist → (survivors) → one-shot holdout → Reporter.
They interact through files, and share the response caches, `benjamini_hochberg` and the
equivalence key. The prefetch and the live Librarian run share a cache directory and nothing
else; so may two funnels, and a funnel with the runs that replay it. `PROJECT.json` lists every
component with its status, and the hazards at their lines.

## Modules

| Module | Models | Notes |
|---|---|---|
| `OneShotPromise` | what the one-shot evaluation promises | abstract: read, evaluate once, record, report |
| `OneShotHoldout` | the real run, its markers, gate and driver | implements `OneShotPromise` |
| `...Proofs` | theorems, mostly about the module named before the suffix | checked by TLAPS |
| `BatchPrefetch` | the batch prefetch | vendor and live run are the environment |
| `FieldMerge` | what two models' replies make of a field, a summary, a signal, an enumeration | operators only |
| `LibrarianRun` | invocations of `run_librarian.py` with the model client | uses `FieldMerge` |
| `BounceBack` | decimal shift and bounce-back filter of one bond | operators only |
| `TraceCleaning` | the transaction stages of the data layer | uses `BounceBack` |
| `CharacteristicSort` | the sorting engine and the overlapping-holding wrapper | months arrive one by one |
| `AuditLattice` | the audit of an anchor over the lattice of toggles | extends `CharacteristicSort`, whose engine runs each cell |
| `ProposalFunnel` | funnels on one response cache, the pins, the real run's derivation | composes the Researcher with the holdout's inputs |
| `BenjaminiHochberg` | `benjamini_hochberg` and the textbook procedure | operators only |
| `GateStack` | `run_experimentalist` | uses `BenjaminiHochberg` |
| `CodegenBoundary` | invocations of `run_p2_codegen.py --execute` | cache, jails and vendors included |
| `AtomicPublication` | what `publish` promises | abstract: one whole publication replaces another in one step |
| `ReporterPublish` | `publish` and `_atomic_swap` | implements `AtomicPublication` |
| `MC...` | instances for TLC | |

Definitions introduced by the word *Wrong* or *A wrong* are variants of the definition that
follows: a bug somebody could write. They are in no specification; each serves to show that a
property notices it.

### OneShotHoldout

A run is one invocation of the driver and is used once. `pc[r]` walks through the steps of
`_run_real` in the driver (`Preflight`, `WriteReport`) and in the package (`Checklist`, `Plan`,
`OpenGate`, the four marker appends, `ReadHoldout`, `Assemble`, `EvaluateSurvivors`,
`WriteManifest`). The marker is the sequence of its lines. An append that is cut short leaves a
fragment or a line without its newline; the next append then joins it and both become unreadable,
as `open(path, "a")` would have it. `Die`, `DieEvaluating`, `DieAppending` and `DieWriting` are the
deaths between and inside steps; an exception is a death too, for no step is inside a `try`.
All conditions outside the process (tag, approvals, hashes, environment) are one variable
`cleared` that may change at any time; the code reads it at the places where the model does. A
rehearsal never touches what the real path reads, except for the line it appends to its marker.

`Exclusive` is an assumption about the operator: real runs are started one after the other. The
code has no lock; with two at once both plan from the same marker and both evaluate the holdout.

### BatchPrefetch

`cache[k]` says which batch, or the live run, brought the response to key `k`. Prompts, models and
sets are keys; an invocation asks for one of `JobSets`. `CreateBatch` bills; `RecordOpen` and
`CollectDone` rewrite the ledger, and a crash inside leaves it unparsable. The results of a
batch are stored one by one (`CollectEntry`), so a crash may fall between any two. The vendor
decides which requests succeed when the batch ends, and this is put off to the poll that sees it,
which no other step can tell apart.

### FieldMerge and LibrarianRun

`FieldMerge` holds the merge rules: a field ships only if both replies parse, answer, quote text
that is found in the paper (at the level the code asks for) and agree on the value; otherwise the
reason follows the code's precedence. A quote is where levels L1 and L2 find it. `LibrarianRun`
walks through an invocation: the enumeration, then for each construction each field, `model_a`
before `model_b`, with the memory cache, the disk cache, the retries and the archive; then the
merge, the assembler with its refusals, the orchestrator's events, and the files in the order in
which they are written. A death or a spoiled cache entry may come anywhere.

A sort signal and a sort kind stand for all fields. Estimation papers, instruments, numeric
fields, `--limit` and `--fields` are not modelled, `scoped_fields` is off, and a name that is
listed twice in an enumeration is taken to be quoted the same way. Pacing is waiting.

### CodegenBoundary

One invocation after another of `run_p2_codegen.py --execute --phase reported`: the execute gate,
the routes (close-out below the floor, refusal to overwrite a result, `--refresh`), the pre-flight,
the driver's loop over members and models with cache, budget guard and jail, the execution of the
scripts, scoring, and the two files of the result. A vendor's call may fail, cost up to the bound
and report any model version; `origin` remembers which invocation brought a pair's cached answer
and from which version, which the cache itself does not. The removal of a jail is taken to succeed. The other phases, failed
attempts that a vendor bills, the export of the panel and the compiler arm are not modelled.

### BounceBack and TraceCleaning

`TraceCleaning` models the three scans of `preprocess_trace.py` chunk by chunk, with the pools of
cancellation and reversal keys that two scans consume in step, then the decimal shift and the
filter's stream of batches. Any stage may raise or be killed and be started again on the files it
finds. `bond` stands for symbol and CUSIP, `day` for a date and the window it falls in, `pr` for
price and volume; rows come in the order of their times; a row's screens are one boolean. Only
the raw profile goes on to the shift and the filter. Reports are not modelled. The reference is
declarative: which rows of the whole file should stand.

### CharacteristicSort and AuditLattice

`CharacteristicSort` translates `_month_step` with its eligibility, trims, breakpoints, weights
and double sort, and the wrapper that opens a cohort every month and holds it. Months are appended
one at a time, so that a property may compare what was realised before and after. A missing row
is a row of NaNs; numbers are exact fractions; a percentile is taken by the method "lower".
Benchmarks, summary statistics and bookkeeping are not modelled. `AuditLattice` audits an anchor
on that panel: scope, one configuration per vertex of the lattice, the views that cells share, the
cells run by the same engine, common support, Möbius, Walsh and Shapley attributions, and the
no-op test with CORE-SYNC-1. Metrics are averages, as integers of `1/Scale`. One price family is
the published one; two runs have the same metrics when they have the same returns. Percentages,
bootstraps, p-values, Bayesian and economic summaries and the support gate are not modelled.

### ProposalFunnel

Invocations of `run_rq4_funnel.py` share one cache of the language models' answers. A call is a
model and a seed, for all ask with one prompt. `put` is its four steps: look, open the temporary
file, write, rename; the temporary file is one for all processes, and an open file stays open
wherever it is renamed to. The pre-flight plans and bounds the calls, and `plan` remembers of each funnel what it planned and
within which cap, so that its purchases can be held against them. `Batch` gives proposals their ids,
which are positions in an answer; the seed in an id is left out, for only the first seed's batch is
advanced, and the model's check by id is the weaker one. The preparation of the pins replays everything and compares
it with the artefact; the real run opens the holdout and then regenerates the survivors by their
ids. Faults are a vendor that fails for good, a death, and a cleared cache directory.

Two of the properties except calls that were answered for two invocations. While modelling it was
seen that without the exception they fail: nothing locks the cache, so the second `put` renames
its answer over the first, or both write to one file.

The two sources that ask no model, prompts, other bases, and the numbers in the artefact are left
out. The gate stack is a function of the strategies in a batch. The pre-flight is one step. Pins
hold the strategies where the code has their mean returns, are prepared once, and the checks on
the parent, the prior and the benchmarks are not modelled.

### GateStack

Phases A to D are those of `run_experimentalist`. A proposal is its number; `Compiled` maps its
equivalence key to the transform it compiles to, so several keys may share one strategy. The five
booleans of G0 before `not_duplicate` are one field. What a gate finds is chosen when it runs:
every failure code at every gate, every p-value of `PValues`, either sign of alpha, a G4 that
qualifies, does not, or raises (stored like one that does not). `FunnelAgrees` says of each label
which codes it stands for, a duplicate's included: a repeated key is an invalid proposal, a repeated
transform an execution failure. P-values and q are numerators
over `One`; no rounding is modelled.

### ReporterPublish

A directory is what it holds. An invocation may die between any two steps, and any removal of a
directory may stop half way (`Remnants`), with or without the process. Errors of the two renamings
are there as well; the renaming that rolls back is taken to succeed. The refinement mapping takes
the published directory, or the backup if there is none, for what is published.

## Runs

| Run | Shows | Bounds |
|---|---|---|
| `one_shot` | all properties of `OneShotHoldout`, and that it implements `OneShotPromise` | three runs, one after the other: a build that dies, its restart that dies, and one more; enough for every mode of `plan_next` and for one attempt after the last permitted |
| `one_shot_unlogged` | **violated**: `every_access_logged` (docs/scientist_protocol.yaml:204) | as above |
| `prefetch` | all properties of `BatchPrefetch` that hold when invocations ask for the same set | two keys (a batch that half succeeds), three batches (one lost, one resumed, one submitted); invocations are not bounded otherwise |
| `prefetch_other_set` | **violated**: a skipped custom_id has its cache entry (run_librarian_prefetch.py:271-272) | two invocations with different sets |
| `librarian` | replays agree, every construction has one outcome, directory and archive are the last run's, a resumed run is free, every invocation ends | two constructions, two fields, three replies each (a concept, a signal that only L2 locates, silence or garbage), lists with repeated and contradictory names, two attempts per call, two invocations, one fault |
| `codegen` | spend, payments, jails, reportability and records | two members, two models, pre-flight caps of nothing, of one call and of two, a budget that the third call passes, answers of either version, two invocations (a run and its repetition), one fault |
| `trace_cleaning` | the cleaned and filtered files are those of the whole file | all files of three rows of any of 13 kinds, of four that can match one another, of five prices of two bonds; chunks of 1 and 3, batches of 1 and 2; window 3 and look-ahead 2 for 5 and 5; four profiles |
| `audit_lattice` | engine and wrapper agree and never look ahead; attribution, tests and no-ops speak of one surface | three bonds and three months, six rulebooks, holding of two; four anchors: a delegated percentile trim, one native to the corrected panel and held two months, one with two legs and held toggles, one that is refused |
| `funnel` | what is evaluated was advanced, every answer was logged, planned and within the cap | two funnels at once, two models with two seeds, two items in an answer, one call answered by an earlier run, caps of one and two answers, one fault; funnels are symmetric |
| `funnel_open` | **violated**: a missing input never costs the open (run_oneshot_holdout.py:139-140) | as above |
| `gate_stack` | all properties of `GateStack` | every batch of three proposals over five keys: two that compile alike, two others, one that does not compile; p-values 2, 3, 5 and 60 of 60 with q = 6/60 lie under, on and over the step-up line of families of one to three |
| `publish` | `ReporterPublish` implements `AtomicPublication`, and its outcome is what it says | two runs to report, lists of up to two bundles, four invocations: one that publishes, one that dies between the two renamings, one that finds the place empty, one that finds both directories |

`CHECK_DEADLOCK FALSE` stands in every configuration but those of `OneShotHoldout`, whose
conditions may always change: elsewhere behaviours end, when the batches or the invocations are
used up, the batch of proposals is done, the files are filtered or the months have come.

### What the violated properties mean

- A run that resumes reads the holdout before it writes to the marker, so a death in the rebuild
  leaves no trace of the access, and it can be repeated.
- `collect_batch` judges a batch's results against the plan of the invocation at hand. With
  another `--set` and `--resume`, it skips what is in no cache, then closes the batch.
- The real run checks that two of its inputs are there before it opens the holdout, "a missing
  input must never cost the one open". The derivation reads a third, the cache of the language
  models' answers, after STAGE2_STARTED, and the artefact may have changed: it refuses, and the
  protocol permits no other open.

### What the code does otherwise than it says

Divergences that were seen while modelling, that the models have as the code has them, and that no
run shows:

- A response replayed from the cache is recorded with the version of the client's latest call in
  the same invocation (p2_driver.py:271), so that it counts as verified, against
  run_p2_codegen.py:464-466 and 482-484. An invocation in which each model's first turn is a live
  call can so report as reportable what an earlier one was served by another version.
  `ReportableIsEarned` is what remains: each model has answered this invocation, and all that it
  answered now came from the version asked for.
- A duplicate of a transform is labelled EXECUTION_FAILURE (orchestrator.py:136-141), although it
  compiled, was never executed and its code, DUPLICATE_PROPOSAL, is one of G0's
  (schemas/outcomes.py:38-39, 47-58). `FunnelAgrees` says which duplicates have which label.
- A smaller Benjamini-Hochberg family is a more lenient one, so leaving out a duplicate can make
  another strategy a survivor (orchestrator.py:70).
- Nothing locks the funnel's cache (cache.py:34-46) or the one-shot holdout; see the exceptions
  under `ProposalFunnel` and the assumption `Exclusive`.
- Tokens of responses stored before a crash are missing from the prefetch's sidecar
  (run_librarian_prefetch.py:35-37); the rehearsal's marker does not say which version of the code
  it rehearsed (marker.py:118); the panel that a resumed run rebuilds is not compared with the
  recorded hash (run_oneshot_holdout.py:189); the manifest is written without fsync and COMPLETE
  with it (manifest_io.py:20); a batch that the vendor creates just before the process dies is in
  no ledger (run_librarian_prefetch.py:340).

## Fairness

- `OneShotHoldout`: weak fairness of each run's next step, launch included. A live process goes
  on; the operator launches the driver again as long as a run is left and no report exists, which
  is what the restart protocol is for. Nothing makes rehearsals happen or conditions hold; the
  liveness property assumes it (`cleared` for good, no run barred).
- `BatchPrefetch`: weak fairness of the running invocation's steps (no failure is fair) and of the
  vendor's end of each batch, which the vendor guarantees within a day. Nobody has to start another
  invocation.
- `LibrarianRun`: weak fairness of the step of a running invocation: a call returns or raises
  (the vendors' libraries see to that), and a process that is not killed goes on.
- The other modules have safety properties only.

## Proofs

A theorem holds of every value of the constants that satisfies the module's named assumptions,
where a run shows one instance. `<M>Proofs` EXTENDS module `<M>`; `CrashRecoveryProofs` EXTENDS
`BatchPrefetch` and `ReporterPublish`, whose subject is what a dead process leaves. Each module
states its inductive invariants part by part, with the lemmas about its operators, one lemma per
part with a step per action, and the theorems. The properties, and the inductive invariants but
that of the transaction stages, were checked by TLC before they were proved.

| Module | Theorems |
|---|---|
| `OneShotHoldoutProofs` | `TypeCorrect`, `EvaluatedOnce`, `ArtefactsInOrder`, `MarkerIsAStory`, `OneRestart`, `PromiseIsKept` (a refinement) |
| `CrashRecoveryProofs` | the prefetch: `TypeCorrect`, `NothingPaidForIsLost`; of actions: `NoCachedResponseIsRebought`, `OpenBatchesAreNotRebought`. Publication: `CallerIsToldTheTruth`, `PublishIsAtomic` (a refinement) |
| `LibrarianRunProofs` | `CachesAgree`, `OneOutcomeEach`, `SpecSetIsWhole`, `ArchiveIsOneRuns`; of actions: `ResumeIsFree` |
| `CodegenBoundaryProofs` | `TypeCorrect`, `NeverPaysTwice`, `SeriesAreFresh`, `ReportableMeansEarned`, `SpendIsForeseen`; of actions: `ResultsAreRecordedOnce` |
| `GateStackProofs` | `EachStrategyOnce`, `SignsAddUp`, `LabelsAgree`, `JointTestIsStepUp` |
| `ProposalFunnelProofs` | `LoggedFirst`, `NoArmIsDroppedSilently`, `TheFunnelsAreEvaluated` |
| `AuditLatticeProofs` | `EveryCellIsItsOwnRun`, `TheAttributionAddsUp`, `TheTestedIsTheReported`, `TheNoOpIsMeasured`; of the engines `TheCohortsOpenAsTheEngine`, `TheTrimBoundsEveryMonth`; of actions: `NothingIsRevised` |
| `TraceCleaningProofs` | `CleanedAreExact`, `BatchesMakeNoDifference` |

### The arguments

- **One-shot holdout.** `EvaluationInv` adds to "evaluated once" that one run is live, that a run
  past its plan and before its evaluation finds nothing evaluated, that a run about to evaluate has
  sealed the marker (STAGE2_STARTED, or a line that cannot be read), and that whatever has been
  evaluated is sealed; `SealedForGood` says that no append, whole or cut short, unseals a marker.
  `ArtefactInv` says what a live run finds of marker, manifest and report at each of its steps.
  `StoryInv` says which stages a run at a given step finds in a readable marker; the append, whole
  or cut short, takes one such story to the next, or makes a line unreadable, for good. `BudgetInv`
  gives each of the two kinds of build to one run. The refinement rests on the first two.
- **Prefetch.** What an invocation that runs has not planned is in the cache (`PlanInv`), and a
  batch is closed when all its results are either stored or in the hands of the one that stores them
  (`ClosedInv`). `ToBuyInv`: what is about to be bought came from no batch, and is not among what
  is collected meanwhile. `OpenInv`: an invocation that resumes has each open batch ahead of it,
  in hand, or on its list of skipped ones.
- **Publication.** `PublishInv` says at each step what the staging directory holds, and in which of
  the three directories the publication that was found, and the new one, is. A step then maps to the
  replacement or to nothing.
- **Extraction.** `ReplayInv`: an answer between vendor and cache finds no readable entry for its key.
  `Accounted`: what is done and what is to do make up the enumeration. `OutputInv`: the directory is
  empty while the paper runs and is filled in order, the manifest last. `ResumeInv`, for an invocation
  that finds all of a paper's answers on disk: entries of the disk are only added, the lists it works
  through are those of the answers, and every outcome it has settled is the one the disk gives, which
  is the same for all constructions of a candidate; so it asks nothing. `ArchiveInv`: the archive is
  in memory for this paper alone, it holds a question for each construction taken up and none of
  those to come (`AtHandInv` for the one in hand), so that a question is archived once; the counts
  follow from the cardinality of the set of fields.
- **Code generation.** The loop's positions are one to one with pairs of member and model (by
  division); so what a process has spent on a model is bounded by the calls made at its positions,
  which are the misses of the pre-flight or were evicted since. `OriginInv`: before the loop no cached
  answer is this invocation's, and in it each that is has a record with the version it came from,
  or is of the turn in hand and the client still holds that version; a client holds a version only
  when it has answered. Hence what a reportable result records of its own calls is what was served.
- **Gates.** The clean list has signatures that were seen and are distinct; what phase C stores is
  determined by rejection, sign and median (`StoredInv`), and the count of wrong signs is that of the
  proposals settled so far. `RepeatInv`: a proposal is refused as a duplicate only for an earlier one
  that no gate before G1 refused, with its key (then G0's booleans tell of it) or its transform
  (then only the compilation's do), which fixes the label. The selector, a ranking without a cap, returns what it was given:
  `Selected`, by counting places. Ranks are one to one with the tested hypotheses (`Ranked`). By
  induction from the largest rank down, the adjusted p-value of a rank is at most the level exactly
  when the scaled p-value of that rank or of a larger one is (`AdjustedAtMost`), which is the
  textbook's step-up rule; p-values are fractions, compared by cross-multiplication.
- **Auditor.** `EnginesInv`: what the engines have reported is what they report of the panel so far; a
  month's row reads no later month, so that a longer panel has the same rows for the earlier ones.
  A cell's configuration is determined by its coordinate, and cells with one hash have one view, since
  the view reads of a configuration what the hash is made of (`ViewsInv`). `AnchorInv`: what is
  published of an anchor is what the algebra makes of its cells. The sums of Möbius and Walsh
  coefficients are inverted by adding one toggle after another to the set that is summed over; the
  bootstrap's monthly contrasts add up to the reported one by exchanging a sum over months with one
  over cells. Over a toggle whose arms give one series the metric is flat, and each reading of a flat
  metric is zero; a toggle of which the panel has no case changes neither view nor configuration of
  the engine. A wrapper's cohort and the engine sort one universe, in which every bond has a return
  the trim leaves (`FirstReturn`), so that in the first month both average the same bonds. What the
  trim leaves is within its bounds, and averages with weights that are not negative stay there
  (`LegBeyond`, `MeanBeyond`), over stripes and over cohorts.
- **Funnel.** A funnel that stores an answer was given it and finds its call's entry, its file and
  the temporary name as it left them, unless somebody else was answered for the call or the cache was
  cleared (`PutInv`). Hence a whole file holds an answer, and an entry can be read (`CacheInv`); what a
  funnel has gone past in its loops is logged (`UsedInv`: the loops reach every call, and what a
  failure skips is of the arm that failed); an arm with an error has an excuse (`ErrorInv`). `BuyInv`:
  what a funnel may still buy and what it has bought are calls of the plan it started with
  (`WithinPlan`), a call leaves the plan when it is made, and for each model the two together never
  exceed the cap of that plan. `ArtefactInv`: a finished funnel never changes, so that its report is what it was.

- **Transaction stages.** A fold over a sequence is the fold over its front with one step more
  (`FoldOf`), so that a stage that has read part of a file is characterised by that part. Filters
  are positions: what two filters in a row leave, or a filter of a chunk, is `At` the positions that
  pass, in the whole file (`Only`, `PlacesIn`). A pool of keys that rows consume is a count: row `i` is
  taken when fewer rows of its key came before it than the pool started with (`TakenAt`), and what is
  left after `n` rows is the rest (`PoolAt`); the two scans and the writing pass consume the same rows,
  which is why they agree although each has a pool of its own. `ScanState` and `Writing` say at each
  step what the cancellations, pools, counts of sells and files are of the part of the file that was
  read; at its end they are those of the declarative property. `FilterInv`: the filter holds what its
  loop makes of the rows read so far; since the stream is sorted by bond, one bond's rows are one
  segment however the batches cut it.

### Assumptions

- `Exclusive`, a hypothesis of all theorems about the one-shot run but `TypeCorrect`: real runs are
  started one after the other. The code has no lock.
- `OneSet`, a hypothesis of `NothingPaidForIsLost`: all invocations ask for one set of prompts. It is
  necessary: run `prefetch_other_set` violates the property without it. The other theorems about the
  prefetch do not need it.
- `CostAssumption`: a call costs at most the bound that the pre-flight multiplies by.
  `DistinctAssumption`: no member, and no model, is listed twice (census.py refuses).
  `VersionAssumption`: no model is the mark of an absent version.
- `ReplyAssumption`: a list names constructions, and no reply is the mark of an absent or of a
  spoiled entry. `GateStackAssumption`: "no code" is no refusal code.
- `FunnelAssumption`: the arms are distinct; there are finitely many funnels; what was cached earlier
  are answers to calls; the gate stack advances some of what it is given. A second answer to one call
  is no assumption: the properties except it.

- `BoundAssumption` of `LibrarianRun` has that no field is listed twice.
- `SortAssumption`: a rulebook is one that `_apply_defaults` lets through (`ValidRulebooks`,
  `TrimRules`), there are finitely many bonds, and what a row holds are numbers (`NaN` is one too).
  `AuditAssumption`: so are a row's published data, a toggle has one of the dispositions of
  `ToggleFacts`, and shares are counted in a unit that up to five toggles divide.
- `FileAssumption`: a raw file is a sequence of rows, a chunk and a batch have at least one row.
  `PriceAssumption`: thresholds and prices are integers, lengths of windows are positive.
- `Exact`, a hypothesis of `TheTestedIsTheReported`: a mean over the common support is not rounded,
  which is what `Scale` is for. It holds in every state of the run.
- `ClipsInOrder` and `NoNegativeSize`, hypotheses of `TheTrimBoundsEveryMonth`: the bounds that returns
  are clipped to are in order, and no size is negative. The engine checks neither. With bounds out of
  order it clips everything to the upper one; an average with negative weights is no average. Both
  hold in the run's instance.

### What is only model-checked

Liveness (`SingleCrashSurvived`, both `RunEnds`), which the prover cannot treat. Every invariant and
every action property of a passing run, and both refinements, are theorems.

## Plan

1. Done: the one-shot holdout with its abstract specification, the prefetch, the gate stack with
   Benjamini-Hochberg, publication with its abstract specification, the Librarian's extraction, the
   code-generation boundary, the transaction stages, the sorting engine and the Auditor's lattice,
   the funnel with the holdout's inputs. Theorems about all of them.
2. Next models, if any: the adapter's legs and the configuration's ledger check, the corpus driver
   over `LibrarianRun`, the Reporter's legal states.

## Not modelled

Numbers beyond what a rule compares: regressions, bootstraps, IPCA, posteriors. Text: prompts,
notes, and quotes beyond where they are found. Power failures (a completed write is durable here),
two prefetches or two publishers at once, and a damaged rename. The adapter, the corpus fates, the
Reporter's routing and legal states are look-ups. The signal builders, the monthly panel, gold
specifications, adversarial sets, the evaluation harness and the diagnostics scripts, which make up
most of the repository's lines, are sequential transformations of files that keep no state a
model checker would add to.
