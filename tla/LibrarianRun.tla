---------------------------- MODULE LibrarianRun ----------------------------
(***************************************************************************)
(* scripts/run_librarian.py: one invocation after another of the dual-model *)
(* extraction of one paper into one output directory, with the model client *)
(* (pipeline/real_client.py: memory cache, disk replay cache, retries), the *)
(* assembler and the orchestrator (pipeline/emission.py).                   *)
(*                                                                         *)
(* An invocation may die at any step.  It asks its questions in a fixed     *)
(* order, model_a before model_b, so its control state is the construction, *)
(* the field and the client it is at.  But for the summary and the headline *)
(* metric, which are not among the fields modelled, prompts do not name the *)
(* construction (scoped_fields is off, the default): the disk cache has one *)
(* entry per client and field, the memory cache one per construction too.   *)
(***************************************************************************)
EXTENDS FieldMerge

CONSTANTS
    Fields,       \* sequence of the asked fields, in the assembler's order
    SignalFields, \* those filled by fill_signal_ref
    SortSignal,   \* the one of them without which nothing is assembled
    Names,        \* construction names
    GoldList,     \* the authored enumeration: a sequence of [name, cls]
    EnumReplies,  \* the lists a model's enumeration reply may be read as
    FieldReplies, \* [field -> set of Replies]: what the vendors may answer
    Options,      \* the options invocations are given: a set of [live, cache]
    ABSENT, CORRUPT, \* a cache entry that is not there, or cannot be read
    MaxRetries,   \* attempts per call
    MaxStarts,    \* bound: invocations
    MaxFaults     \* bound: deaths of an invocation and spoiled cache entries

Distinct(s) == \A i, j \in DOMAIN s : s[i] = s[j] => i = j
FieldSet == {Fields[i] : i \in DOMAIN Fields}
ENUM == "enumeration"

ASSUME BoundAssumption ==
    /\ {MaxRetries, MaxStarts} \subseteq Nat \ {0}
    /\ Options \subseteq [live : BOOLEAN, cache : BOOLEAN]
    /\ SortSignal \in SignalFields \cap FieldSet
    /\ Fields \in Seq(FieldSet) /\ Distinct(Fields) /\ ENUM \notin FieldSet

\* A list names constructions, and a reply is neither an absent nor an unreadable
\* entry of the cache.
ASSUME ReplyAssumption ==
    /\ \A list \in EnumReplies \cup {GoldList, <<>>} : StrategiesOf(list) \in Seq(Names)
    /\ {ABSENT, CORRUPT} \cap EnumReplies = {}
    /\ \A f \in FieldSet : {ABSENT, CORRUPT} \cap FieldReplies[f] = {}
    /\ ABSENT # CORRUPT

Clients == {"model_a", "model_b"}
Keys == Clients \X (FieldSet \cup {ENUM})

VARIABLES
    disk,    \* the replay cache: [Keys -> entry]
    mem,     \* both clients' memory caches: [Clients \X Names \X FieldSet -> ...]
    out,     \* the output directory
    pc,      \* where the invocation is; "idle" between invocations
    opts,    \* its options: [live, cache]
    work,    \* what it is asking: [todo, field, client, attempt, reply]
    lists,   \* the enumeration: [Clients -> list]
    result,  \* PaperRunResult: [specs, events]
    usage,   \* the clients' operational counters, summed: [calls, retries]
    code,    \* how the latest invocation ended
    starts, faults, \* counters of the bounds
    last     \* the latest cached invocation to complete with no entry spoiled

vars == <<disk, mem, out, pc, opts, work, lists, result, usage, code,
          starts, faults, last>>
cacheVars == <<disk, mem>>
faultVars == <<starts, faults>>

NoWork == [todo |-> <<>>, field |-> 1, client |-> "model_a", attempt |-> 0,
           reply |-> NONE]
NoResult == [specs |-> <<>>, events |-> <<>>]
NoMem == [x \in Clients \X Names \X FieldSet |-> ABSENT]
NoUsage == [calls |-> 0, retries |-> 0]

Init ==
    /\ disk = [k \in Keys |-> ABSENT]
    /\ mem = NoMem
    /\ out = [specs |-> <<>>, events |-> <<>>, manifest |-> NONE,
              raw |-> [m \in Clients |-> 0]]
    /\ pc = "idle"
    /\ opts = [live |-> FALSE, cache |-> TRUE]
    /\ work = NoWork
    /\ lists = [m \in Clients |-> <<>>]
    /\ result = NoResult
    /\ usage = NoUsage
    /\ code = "none"
    /\ starts = 0 /\ faults = 0
    /\ last = NONE

-----------------------------------------------------------------------------
(* The question at hand.                                                   *)

Enumerating == work.todo = <<>>
Field == IF Enumerating THEN ENUM ELSE Fields[work.field]
Label == Head(work.todo)
Key == <<work.client, Field>>
MemKey == <<work.client, Label, Field>>
Remembered == IF Enumerating THEN ABSENT ELSE mem[MemKey]
VendorReplies == IF Enumerating THEN EnumReplies ELSE FieldReplies[Field]
Readable(entry) == entry \notin {ABSENT, CORRUPT}

\* Wrong: a construction list is asked for anew, whatever the cache holds.
AskListsAnew ==
    /\ pc = "ask"
    /\ LET hit == Remembered # ABSENT
           read == ~hit /\ ~Enumerating /\ opts.cache /\ Readable(disk[Key])
       IN /\ pc' = IF hit THEN "answered" ELSE IF read THEN "archive" ELSE "call"
          /\ work' = IF hit \/ read
                     THEN [work EXCEPT !.reply = IF hit THEN Remembered ELSE disk[Key]]
                     ELSE [work EXCEPT !.attempt = 0]
    /\ UNCHANGED <<cacheVars, out, opts, lists, result, usage, code, faultVars, last>>

\* answer(): the memory cache, then the disk cache, then the vendor.  What
\* cannot be read from the disk counts as a miss.
Ask ==
    /\ pc = "ask"
    /\ \/ /\ Remembered # ABSENT
          /\ pc' = "answered"
          /\ work' = [work EXCEPT !.reply = Remembered]
       \/ /\ Remembered = ABSENT
          /\ opts.cache /\ Readable(disk[Key])
          /\ pc' = "archive"
          /\ work' = [work EXCEPT !.reply = disk[Key]]
       \/ /\ Remembered = ABSENT
          /\ opts.cache => ~Readable(disk[Key])
          /\ pc' = "call"
          /\ work' = [work EXCEPT !.attempt = 0]
    /\ UNCHANGED <<cacheVars, out, opts, lists, result, usage, code, faultVars, last>>

\* A successful attempt: the counters move here and nowhere else.
VendorAnswers ==
    /\ pc = "call"
    /\ \E reply \in VendorReplies : work' = [work EXCEPT !.reply = reply]
    /\ usage' = [calls |-> usage.calls + 1,
                 retries |-> usage.retries + work.attempt]
    /\ pc' = "put"
    /\ UNCHANGED <<cacheVars, out, opts, lists, result, code, faultVars, last>>

\* Wrong: no bound on the attempts.
VendorFailsUnbounded(retryable) ==
    /\ pc = "call"
    /\ IF retryable
       THEN work' = [work EXCEPT !.attempt = 1 - @] /\ UNCHANGED <<pc, code>>
       ELSE pc' = "early" /\ code' = "paper_failed" /\ UNCHANGED work
    /\ UNCHANGED <<cacheVars, out, opts, lists, result, usage, faultVars, last>>

\* A failed attempt: retried unless it is the last one or no retry can help.
VendorFails(retryable) ==
    /\ pc = "call"
    /\ IF retryable /\ work.attempt < MaxRetries - 1
       THEN /\ work' = [work EXCEPT !.attempt = @ + 1]
            /\ UNCHANGED <<pc, code>>
       ELSE /\ pc' = "early"
            /\ code' = "paper_failed"
            /\ UNCHANGED work
    /\ UNCHANGED <<cacheVars, out, opts, lists, result, usage, faultVars, last>>

\* Wrong: the later answer takes the place of a spoiled entry.
DiskPutRepairs ==
    /\ pc = "put"
    /\ disk' = IF opts.cache THEN [disk EXCEPT ![Key] = work.reply] ELSE disk
    /\ pc' = "archive"
    /\ UNCHANGED <<mem, out, opts, work, lists, result, usage, code, faultVars, last>>

\* _disk_put: an entry that exists, readable or not, is left as it is.
DiskPut ==
    /\ pc = "put"
    /\ disk' = IF opts.cache /\ disk[Key] = ABSENT
               THEN [disk EXCEPT ![Key] = work.reply] ELSE disk
    /\ pc' = "archive"
    /\ UNCHANGED <<mem, out, opts, work, lists, result, usage, code, faultVars, last>>

\* The raw archive gets one line per field answer; then it is remembered.
Archive ==
    /\ pc = "archive"
    /\ IF Enumerating
       THEN UNCHANGED <<mem, out>>
       ELSE /\ out' = [out EXCEPT !.raw[work.client] = @ + 1]
            /\ mem' = [mem EXCEPT ![MemKey] = work.reply]
    /\ pc' = "answered"
    /\ UNCHANGED <<disk, opts, work, lists, result, usage, code, faultVars, last>>

\* model_b is asked what model_a was; with both replies in, they are merged.
NextClient ==
    /\ pc = "answered"
    /\ lists' = IF Enumerating THEN [lists EXCEPT ![work.client] = work.reply]
                ELSE lists
    /\ work' = [work EXCEPT !.client = IF @ = "model_a" THEN "model_b" ELSE "model_a",
                            !.reply = NONE]
    /\ pc' = IF work.client = "model_a" THEN "ask"
             ELSE IF Enumerating THEN "enumerated" ELSE "merge"
    /\ UNCHANGED <<cacheVars, out, opts, result, usage, code, faultVars, last>>

-----------------------------------------------------------------------------
(* An invocation from its start to the first question.                     *)

\* A fresh process, and of the output directory what is kept.
Begin(live, cache, kept) ==
    /\ pc = "idle" /\ starts < MaxStarts
    /\ opts' = [live |-> live, cache |-> cache]
    /\ out' = kept
    /\ mem' = NoMem
    /\ lists' = [m \in Clients |-> IF live THEN <<>> ELSE GoldList]
    /\ result' = NoResult
    /\ usage' = NoUsage
    /\ code' = "running"
    /\ starts' = starts + 1
    /\ pc' = IF live THEN "ask" ELSE "enumerated"
    /\ work' = NoWork
    /\ UNCHANGED <<disk, faults, last>>

\* Wrong: what an earlier invocation left is only partly cleared.
StartKeepsSpecs(live, cache) ==
    Begin(live, cache,
          [out EXCEPT !.manifest = NONE, !.raw = [m \in Clients |-> 0]])
StartKeepsRaw(live, cache) ==
    Begin(live, cache, [out EXCEPT !.specs = <<>>, !.manifest = NONE])

\* The clients are built, then what an earlier invocation left is cleared:
\* specs, traces, the manifest and the raw archive.
Start(live, cache) ==
    Begin(live, cache,
          [out EXCEPT !.specs = <<>>, !.manifest = NONE,
                      !.raw = [m \in Clients |-> 0]])

\* The D20 gate of a live enumeration; an authored list is taken as it is.
Enumerated ==
    /\ pc = "enumerated"
    /\ LET la == lists["model_a"]
           lb == lists["model_b"]
       IN IF SelfInconsistent(la) \/ SelfInconsistent(lb)
          THEN pc' = "idle" /\ code' = "raised" /\ UNCHANGED work
          ELSE IF ~EnumerationAgreed(la, lb) \/ la = <<>>
          THEN pc' = "early" /\ code' = "review" /\ UNCHANGED work
          ELSE /\ work' = [NoWork EXCEPT !.todo = StrategiesOf(la)]
               /\ pc' = IF StrategiesOf(la) = <<>> THEN "write" ELSE "ask"
               /\ UNCHANGED code
    /\ UNCHANGED <<cacheVars, out, opts, lists, result, usage, faultVars, last>>

-----------------------------------------------------------------------------
(* The assembler and the orchestrator.                                     *)

AnswerOf(client, f) == AnswerFrom(mem[<<client, Label, f>>])
Merged(f) == FillField(AnswerOf("model_a", f), AnswerOf("model_b", f))
SignalOf(f) == FillSignalRef(AnswerOf("model_a", f), AnswerOf("model_b", f))

\* The construction is done: the next one, or the outputs.
LeaveConstruction ==
    /\ work' = [NoWork EXCEPT !.todo = Tail(work.todo)]
    /\ pc' = IF Len(work.todo) = 1 THEN "write" ELSE "ask"

Event(kind) == [kind |-> kind, name |-> Label]

\* Wrong: a construction whose signal is missing is skipped in silence.
MergeSilently ==
    /\ pc = "merge"
    /\ LET a == AnswerOf("model_a", Field)
           b == AnswerOf("model_b", Field)
       IN IF Field \in SignalFields /\ SignalRaises(a, b)
          THEN pc' = "idle" /\ code' = "raised" /\ UNCHANGED work
          ELSE IF Field = SortSignal /\ SignalOf(Field) = NONE
          THEN LeaveConstruction /\ UNCHANGED code
          ELSE /\ pc' = IF work.field = Len(Fields) THEN "emit" ELSE "ask"
               /\ work' = IF work.field = Len(Fields) THEN work
                          ELSE [work EXCEPT !.field = @ + 1]
               /\ UNCHANGED code
    /\ UNCHANGED <<cacheVars, out, opts, lists, result, usage, faultVars, last>>

Merge ==
    /\ pc = "merge"
    /\ LET a == AnswerOf("model_a", Field)
           b == AnswerOf("model_b", Field)
       IN IF Field \in SignalFields /\ SignalRaises(a, b)
          THEN /\ pc' = "idle" /\ code' = "raised"
               /\ UNCHANGED <<work, result>>
          ELSE IF Field = SortSignal /\ SignalOf(Field) = NONE
          THEN /\ result' = [result EXCEPT
                     !.events = Append(@, Event("assembly_incomplete"))]
               /\ LeaveConstruction
               /\ UNCHANGED code
          ELSE /\ IF work.field = Len(Fields)
                  THEN pc' = "emit" /\ UNCHANGED work
                  ELSE /\ pc' = "ask"
                       /\ work' = [work EXCEPT !.field = @ + 1]
               /\ UNCHANGED <<result, code>>
    /\ UNCHANGED <<cacheVars, out, opts, lists, usage, faultVars, last>>

\* Guard 1: a double sort names its control axis, a single sort has none.
ControlPresent == "control_axis" \in FieldSet /\ SignalOf("control_axis") # NONE
SortKind == IF "sort_kind" \in FieldSet THEN Merged("sort_kind").value ELSE NONE
StructureRefused ==
    \/ SortKind \in {"independent", "conditional"} /\ ~ControlPresent
    \/ SortKind = "single" /\ ControlPresent

\* emit_spec_and_trace, fail-closed: the spec, or a refusal on the record.
Emit ==
    /\ pc = "emit"
    /\ result' = IF StructureRefused
                 THEN [result EXCEPT !.events = Append(@, Event("emission_error"))]
                 ELSE [result EXCEPT !.specs = Append(@, Label)]
    /\ LeaveConstruction
    /\ UNCHANGED <<cacheVars, out, opts, lists, usage, code, faultVars, last>>

-----------------------------------------------------------------------------
(* The outputs and the exits.                                              *)

ExitCode ==
    IF result.specs # <<>> THEN "specs"
    ELSE IF \E i \in DOMAIN result.events :
                result.events[i].kind = "assembly_incomplete"
         THEN "review" ELSE "no_specs"

\* _write_outputs: the specs one after the other, then the events if any.
WriteSpec ==
    /\ pc = "write" /\ Len(out.specs) < Len(result.specs)
    /\ out' = [out EXCEPT !.specs = Append(@, result.specs[Len(out.specs) + 1])]
    /\ UNCHANGED <<cacheVars, pc, opts, work, lists, result, usage, code, faultVars, last>>

WriteEvents ==
    /\ pc = "write" /\ Len(out.specs) = Len(result.specs)
    /\ out' = IF result.events # <<>> THEN [out EXCEPT !.events = result.events]
              ELSE out
    /\ pc' = "manifest"
    /\ UNCHANGED <<cacheVars, opts, work, lists, result, usage, code, faultVars, last>>

Complete ==
    /\ pc = "manifest"
    /\ out' = [out EXCEPT !.manifest = usage]
    /\ code' = ExitCode
    /\ pc' = "idle"
    /\ last' = IF opts.cache /\ \A k \in Keys : disk[k] # CORRUPT
               THEN [live |-> opts.live, lists |-> lists, result |-> result]
               ELSE last
    /\ UNCHANGED <<cacheVars, opts, work, lists, result, usage, faultVars>>

\* _early_manifest on the review and failure exits: usage, and no spec.
EarlyExit ==
    /\ pc = "early"
    /\ out' = [out EXCEPT !.manifest = usage]
    /\ pc' = "idle"
    /\ UNCHANGED <<cacheVars, opts, work, lists, result, usage, code, faultVars, last>>

-----------------------------------------------------------------------------
(* Faults, and the specification.                                          *)

\* What the process holds is lost; the files stay.
Crash ==
    /\ pc # "idle" /\ faults < MaxFaults
    /\ faults' = faults + 1
    /\ pc' = "idle" /\ code' = "crashed"
    /\ mem' = NoMem
    /\ work' = NoWork
    /\ lists' = [m \in Clients |-> <<>>]
    /\ result' = NoResult
    /\ usage' = NoUsage
    /\ UNCHANGED <<disk, out, opts, starts, last>>

\* An entry of the disk cache is spoiled by something outside the run; between
\* invocations or questions, the only points at which it makes a difference.
SpoilEntry(k) ==
    /\ pc \in {"idle", "ask"} /\ faults < MaxFaults /\ Readable(disk[k])
    /\ disk' = [disk EXCEPT ![k] = CORRUPT]
    /\ faults' = faults + 1
    /\ last' = NONE
    /\ UNCHANGED <<mem, out, pc, opts, work, lists, result, usage, code, starts>>

Step ==
    \/ Ask \/ VendorAnswers \/ DiskPut \/ Archive \/ NextClient
    \/ \E retryable \in BOOLEAN : VendorFails(retryable)
    \/ Enumerated \/ Merge \/ Emit
    \/ WriteSpec \/ WriteEvents \/ Complete \/ EarlyExit

Next ==
    \/ Step
    \/ \E o \in Options : Start(o.live, o.cache)
    \/ Crash
    \/ \E k \in Keys : SpoilEntry(k)

Spec == Init /\ [][Next]_vars
\* A call returns or raises, and a process that is not killed goes on.
FairSpec == Spec /\ WF_vars(Step)

-----------------------------------------------------------------------------
(* Properties.                                                             *)

\* The caches never disagree about an answer of a cached run: what was used is
\* what a later run replays, unless that entry is spoiled (real_client.py
\* 1063-1092: spoiled entries are neither served nor repaired).
ReplaysAgree ==
    pc # "idle" /\ opts.cache =>
        \A x \in DOMAIN mem : mem[x] # ABSENT =>
            disk[<<x[1], x[3]>>] \in {mem[x], CORRUPT}

Strategies == StrategiesOf(lists["model_a"])
NamesIn(s) == {s[i] : i \in DOMAIN s}
EventNames(events) == {events[i].name : i \in DOMAIN events}
PaperRan == pc = "idle" /\ code \in {"specs", "review", "no_specs"}
                        /\ result # NoResult

\* Run to completion (emission.py): once a paper has run, each strategy of its
\* enumeration has exactly one outcome, and the directory shows this run's.
OneOutcomePerConstruction ==
    PaperRan =>
        /\ Len(result.specs) + Len(result.events) = Len(Strategies)
        /\ NamesIn(result.specs) \cup EventNames(result.events) = NamesIn(Strategies)
        /\ out.specs = result.specs
        /\ result.events # <<>> => out.events = result.events

\* No partial spec set (run_librarian.py 866-877): where there is a manifest the
\* specs beside it are the whole of that run's, and none after a failure.
NoPartialSpecSet ==
    out.manifest # NONE =>
        out.specs = IF code = "paper_failed" THEN <<>> ELSE result.specs

\* An unassembled construction was asked up to the signal it lacks, every other
\* one all its questions.
SortPosition == CHOOSE i \in DOMAIN Fields : Fields[i] = SortSignal
CutShort(events) == {i \in DOMAIN events : events[i].kind = "assembly_incomplete"}

\* The raw archive of a run whose constructions have distinct names holds one
\* line per client and question of this run and none of an earlier one: what
\* the guard of evaluation/harness/run_artefacts.py 226-231 is after.
ArchiveIsThisRuns ==
    PaperRan /\ Distinct(Strategies) =>
        LET cut == Cardinality(CutShort(result.events))
        IN \A m \in Clients :
               out.raw[m] = cut * SortPosition + (Len(Strategies) - cut) * Len(Fields)

\* True zero-cost resume (run_librarian.py 855-858): a cached run after a cached
\* run that completed, with no entry spoiled, calls no vendor and ends alike.
ZeroCostResume ==
    [][Complete /\ opts.cache /\ last # NONE /\ last.live = opts.live =>
        /\ usage = NoUsage
        /\ lists = last.lists /\ result = last.result]_vars

\* Every invocation comes to an exit, whatever the vendors and models do.
RunEnds == pc # "idle" ~> pc = "idle"

=============================================================================
