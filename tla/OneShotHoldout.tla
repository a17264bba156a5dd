---------------------------- MODULE OneShotHoldout ----------------------------
(***************************************************************************)
(* The one-shot evaluation of the surviving strategies on the protected    *)
(* holdout window: the `--real` and `--rehearsal` paths of                 *)
(* scripts/run_oneshot_holdout.py over                                     *)
(* agents/scientist/experimentalist/oneshot_holdout.                       *)
(*                                                                         *)
(* A run is one invocation of the driver, an operating-system process that *)
(* is used once.  What outlives it is on disk: the append-only stage       *)
(* marker, the rehearsal marker, the run manifest and the report.  A run   *)
(* may die between any two steps (killed, or an exception: no step is      *)
(* inside a try), and while it appends a line to a marker it may leave a   *)
(* fragment of that line behind.                                           *)
(***************************************************************************)
EXTENDS Naturals, Sequences, FiniteSets

CONSTANTS
    Runs,        \* the invocations of the driver, each used at most once
    Exclusive    \* TRUE: the operator never has two real runs alive at once
                 \*       (nothing in the code enforces it: there is no lock)

ASSUME ExclusiveAssumption == Exclusive \in BOOLEAN

VARIABLES
    pc,          \* pc[r]: the step run r is about to take
    mode,        \* mode[r]: what plan_next told run r to do
    accessed,    \* the runs whose process-wide access counter is 1
    marker,      \* oneshot_marker.jsonl: the sequence of its lines
    newline,     \* whether that file ends with a newline
    rehearsal,   \* oneshot_rehearsal_marker.jsonl
    manifest,    \* manifest.json of the quarantine directory
    report,      \* oneshot_report.json
    cleared,     \* whether every artefact condition outside the run holds: tag,
                 \* approvals, fingerprints, pinned script hash, unlock variables
    readers,     \* the runs that have read the holdout window
    evaluators   \* the runs that have evaluated the survivors on it

vars == <<pc, mode, accessed, marker, newline, rehearsal, manifest, report,
          cleared, readers, evaluators>>

disk == <<marker, newline, rehearsal, manifest, report>>

-------------------------------------------------------------------------------
(* The stage marker.                                                       *)

States == {"STAGE1_STARTED", "STAGE1_COMPLETE", "STAGE2_STARTED", "COMPLETE"}

Modes == {"fresh_build", "restart_build", "resume_evaluate"}

\* A line that json.loads rejects: a fragment, or two records on one line.
Torn == "TORN"

\* `by` is the timestamp of the invocation that wrote the line.
Lines == [state : States \cup {Torn}, by : Runs]

Line(s, r) == [state |-> s, by |-> r]

Holds(m, s) == \E i \in DOMAIN m : m[i].state = s

Count(m, s) == Cardinality({i \in DOMAIN m : m[i].state = s})

\* Wrong versions of Sealed: one trusts only COMPLETE, one skips corrupt lines.
SealedByCompleteOnly(m) == \E s \in {Torn, "COMPLETE"} : Holds(m, s)
SealedSkippingTorn(m) == \E s \in {"STAGE2_STARTED", "COMPLETE"} : Holds(m, s)

(* No line after one of these lets a new invocation do anything.           *)
Sealed(m) == \E s \in {Torn, "STAGE2_STARTED", "COMPLETE"} : Holds(m, s)

\* Wrong versions of PlanNext: a second restart, and none at all.
PlanNextTwoRestarts(m) ==
    IF Sealed(m) THEN "refuse"
    ELSE IF Holds(m, "STAGE1_COMPLETE") THEN "resume_evaluate"
    ELSE CASE Count(m, "STAGE1_STARTED") = 0       -> "fresh_build"
           [] Count(m, "STAGE1_STARTED") \in 1 .. 2 -> "restart_build"
           [] OTHER                                -> "refuse"
PlanNextNoRestart(m) ==
    IF Sealed(m) THEN "refuse"
    ELSE IF Holds(m, "STAGE1_COMPLETE") THEN "resume_evaluate"
    ELSE IF m = <<>> THEN "fresh_build" ELSE "refuse"

(* The decision of plan_next over the lines of the marker.                 *)
PlanNext(m) ==
    IF Sealed(m) THEN "refuse"
    ELSE IF Holds(m, "STAGE1_COMPLETE") THEN "resume_evaluate"
    ELSE CASE Count(m, "STAGE1_STARTED") = 0 -> "fresh_build"
           [] Count(m, "STAGE1_STARTED") = 1 -> "restart_build"
           [] OTHER                          -> "refuse"

(* A line appended to a file that lacks its last newline joins the line    *)
(* before it, and neither record can be read again.                        *)
Extended(m, nl, line) ==
    IF nl THEN Append(m, line)
          ELSE [m EXCEPT ![Len(m)] = Line(Torn, line.by)]

-------------------------------------------------------------------------------
(* The steps of a run.                                                     *)

Steps == {"checklist", "plan", "gate", "start1", "read", "assemble",
          "complete1", "start2", "evaluate", "manifest", "complete", "report"}

Ends == {"barred", "refused", "dead", "done"}

Live(r) == pc[r] \in Steps

\* The steps that append a line to the marker, and the line.
Appends == [start1    |-> "STAGE1_STARTED",
            complete1 |-> "STAGE1_COMPLETE",
            start2    |-> "STAGE2_STARTED",
            complete  |-> "COMPLETE"]

Goto(r, step) == pc' = [pc EXCEPT ![r] = step]

Init ==
    /\ pc = [r \in Runs |-> "idle"]
    /\ mode = [r \in Runs |-> "unplanned"]
    /\ accessed = {}
    /\ marker = <<>>
    /\ newline = TRUE
    /\ rehearsal = "absent"
    /\ manifest = "absent"
    /\ report = "absent"
    /\ cleared \in BOOLEAN
    /\ readers = {}
    /\ evaluators = {}

(* The driver's own refusals come first; one of them costs nothing, so a   *)
(* refused launch is no step.                                              *)
Preflight(r) ==
    /\ pc[r] = "idle"
    /\ Exclusive => \A q \in Runs : ~Live(q)
    /\ cleared
    /\ report = "absent"
    /\ Goto(r, "checklist")
    /\ UNCHANGED <<mode, accessed, disk, cleared, readers, evaluators>>

RehearsalGreen == rehearsal \in {"green", "green_unterminated"}

(* The pre-run checklist, which ends with the rehearsal marker.            *)
Checklist(r) ==
    /\ pc[r] = "checklist"
    /\ Goto(r, IF cleared /\ RehearsalGreen THEN "plan" ELSE "barred")
    /\ UNCHANGED <<mode, accessed, disk, cleared, readers, evaluators>>

\* A wrong Plan that does not stop at a refusal.
PlanIgnoringRefusal(r) ==
    /\ pc[r] = "plan"
    /\ mode' = [mode EXCEPT ![r] = PlanNext(marker)]
    /\ Goto(r, "gate")
    /\ UNCHANGED <<accessed, disk, cleared, readers, evaluators>>

(* The marker is read once, here, and never again by this run.             *)
Plan(r) ==
    /\ pc[r] = "plan"
    /\ LET m == PlanNext(marker) IN
         IF m = "refuse"
         THEN Goto(r, "refused") /\ UNCHANGED mode
         ELSE Goto(r, "gate") /\ mode' = [mode EXCEPT ![r] = m]
    /\ UNCHANGED <<accessed, disk, cleared, readers, evaluators>>

\* A wrong OpenGate that records every build as a new stage-1 start.
OpenGateAlwaysStart(r) ==
    /\ pc[r] = "gate"
    /\ cleared
    /\ r \notin accessed
    /\ accessed' = accessed \cup {r}
    /\ Goto(r, "start1")
    /\ UNCHANGED <<mode, disk, cleared, readers, evaluators>>

(* The artefact gate and the single access of the process.  A run that     *)
(* resumes goes straight to the build: it logs nothing in the marker.      *)
OpenGate(r) ==
    /\ pc[r] = "gate"
    /\ cleared
    /\ r \notin accessed
    /\ accessed' = accessed \cup {r}
    /\ Goto(r, IF mode[r] = "resume_evaluate" THEN "read" ELSE "start1")
    /\ UNCHANGED <<mode, disk, cleared, readers, evaluators>>

GateShut(r) ==
    /\ pc[r] = "gate"
    /\ ~cleared \/ r \in accessed
    /\ Goto(r, "barred")
    /\ UNCHANGED <<mode, accessed, disk, cleared, readers, evaluators>>

(* One durable line of the marker, by the run whose step calls for it.     *)
AppendMarker(r, step, next) ==
    /\ pc[r] = step
    /\ marker' = Extended(marker, newline, Line(Appends[step], r))
    /\ newline' = TRUE
    /\ Goto(r, next)
    /\ UNCHANGED <<mode, accessed, rehearsal, manifest, report, cleared,
                   readers, evaluators>>

StartStage1(r) == AppendMarker(r, "start1", "read")

(* The builder re-checks its own gate, variables of this process that      *)
(* cannot have changed since the driver checked them, and reads the daily  *)
(* layer of the holdout; all it derives from that layer comes after.       *)
ReadHoldout(r) ==
    /\ pc[r] = "read"
    /\ readers' = readers \cup {r}
    /\ Goto(r, "assemble")
    /\ UNCHANGED <<mode, accessed, disk, cleared, evaluators>>

Assemble(r) ==
    /\ pc[r] = "assemble"
    /\ Goto(r, IF mode[r] = "resume_evaluate" THEN "start2" ELSE "complete1")
    /\ UNCHANGED <<mode, accessed, disk, cleared, readers, evaluators>>

CompleteStage1(r) == AppendMarker(r, "complete1", "start2")

StartStage2(r) == AppendMarker(r, "start2", "evaluate")

\* A wrong evaluation that leaves the manifest for after COMPLETE.
EvaluateThenComplete(r) ==
    /\ pc[r] = "evaluate"
    /\ evaluators' = evaluators \cup {r}
    /\ Goto(r, "complete")
    /\ UNCHANGED <<mode, accessed, disk, cleared, readers>>

(* The stage-2 inputs are derived and every survivor is evaluated; the     *)
(* results stay in memory.                                                 *)
EvaluateSurvivors(r) ==
    /\ pc[r] = "evaluate"
    /\ evaluators' = evaluators \cup {r}
    /\ Goto(r, "manifest")
    /\ UNCHANGED <<mode, accessed, disk, cleared, readers>>

WriteManifest(r) ==
    /\ pc[r] = "manifest"
    /\ manifest' = "whole"
    /\ Goto(r, "complete")
    /\ UNCHANGED <<mode, accessed, marker, newline, rehearsal, report, cleared,
                   readers, evaluators>>

CompleteStage2(r) == AppendMarker(r, "complete", "report")

(* The report is written by the driver, after the marker says COMPLETE.    *)
WriteReport(r) ==
    /\ pc[r] = "report"
    /\ report' = "whole"
    /\ Goto(r, "done")
    /\ UNCHANGED <<mode, accessed, marker, newline, rehearsal, manifest, cleared,
                   readers, evaluators>>

-------------------------------------------------------------------------------
(* Failures, rehearsals and the world outside.                             *)

(* Killed between two steps, or an exception no caller handles.            *)
Die(r) ==
    /\ Live(r)
    /\ Goto(r, "dead")
    /\ UNCHANGED <<mode, accessed, disk, cleared, readers, evaluators>>

(* Killed inside the evaluation: survivors have been looked at.            *)
DieEvaluating(r) ==
    /\ pc[r] = "evaluate"
    /\ evaluators' = evaluators \cup {r}
    /\ Goto(r, "dead")
    /\ UNCHANGED <<mode, accessed, disk, cleared, readers>>

(* Killed inside an append: a fragment of the line is left, or all of it   *)
(* but the newline.                                                        *)
DieAppending(r) ==
    /\ pc[r] \in DOMAIN Appends
    /\ \E s \in {Torn, Appends[pc[r]]} :
         marker' = Extended(marker, newline, Line(s, r))
    /\ newline' = FALSE
    /\ Goto(r, "dead")
    /\ UNCHANGED <<mode, accessed, rehearsal, manifest, report, cleared,
                   readers, evaluators>>

(* Killed inside write_text, which truncates the file before it fills it.  *)
DieWriting(r) ==
    /\ \/ /\ pc[r] = "manifest"
          /\ manifest' = "partial"
          /\ UNCHANGED report
       \/ /\ pc[r] = "report"
          /\ report' = "partial"
          /\ UNCHANGED manifest
    /\ Goto(r, "dead")
    /\ UNCHANGED <<mode, accessed, marker, newline, rehearsal, cleared, readers,
                   evaluators>>

(* A rehearsal reads development data only, into a quarantine directory of *)
(* its own: all the real path sees of it is the line it appends.           *)
Rehearse ==
    /\ \/ /\ rehearsal \in {"absent", "green"}
          /\ rehearsal' = "green"
       \/ /\ rehearsal = "absent"
          /\ rehearsal' \in {"torn", "green_unterminated"}
       \/ /\ rehearsal = "green_unterminated"
          /\ rehearsal' = "torn"
    /\ UNCHANGED <<pc, mode, accessed, marker, newline, manifest, report, cleared,
                   readers, evaluators>>

(* A tag is set or dropped, an approval recorded, the package edited or    *)
(* re-pinned, an unlock variable exported: in either direction, any time.  *)
ConditionsChange ==
    /\ cleared' = ~cleared
    /\ UNCHANGED <<pc, mode, accessed, disk, readers, evaluators>>

Advance(r) ==
    \/ Preflight(r)   \/ Checklist(r)      \/ Plan(r)
    \/ OpenGate(r)    \/ GateShut(r)       \/ StartStage1(r)
    \/ ReadHoldout(r) \/ Assemble(r)       \/ CompleteStage1(r)
    \/ StartStage2(r) \/ EvaluateSurvivors(r)
    \/ WriteManifest(r) \/ CompleteStage2(r) \/ WriteReport(r)

Fail(r) == Die(r) \/ DieEvaluating(r) \/ DieAppending(r) \/ DieWriting(r)

Next ==
    \/ \E r \in Runs : Advance(r) \/ Fail(r)
    \/ Rehearse
    \/ ConditionsChange

Spec == Init /\ [][Next]_vars

(* A live process makes progress, and the operator launches the driver     *)
(* again while it may still do something.                                  *)
Fairness == \A r \in Runs : WF_vars(Advance(r))

FairSpec == Spec /\ Fairness

-------------------------------------------------------------------------------
(* Properties.                                                             *)

(* Type invariant.  It also says that plan_next's refusals never become a  *)
(* mode, and that only a non-empty marker can lack its last newline.       *)
TypeOK ==
    /\ pc \in [Runs -> {"idle"} \cup Steps \cup Ends]
    /\ mode \in [Runs -> {"unplanned"} \cup Modes]
    /\ accessed \subseteq Runs
    /\ marker \in Seq(Lines)
    /\ newline \in BOOLEAN
    /\ marker = <<>> => newline
    /\ rehearsal \in {"absent", "green", "green_unterminated", "torn"}
    /\ manifest \in {"absent", "partial", "whole"}
    /\ report \in {"absent", "partial", "whole"}
    /\ cleared \in BOOLEAN
    /\ readers \subseteq Runs
    /\ evaluators \subseteq Runs

(* "NO rerun, ever" (marker.py): however the runs die and whatever they    *)
(* leave in the marker, the survivors are evaluated on the holdout by at   *)
(* most one invocation of the driver.                                      *)
AtMostOneEvaluation == \A q, r \in evaluators : q = r

(* "ONE documented restart" (marker.py): of the runs that read the holdout *)
(* to build the panel, not to resume, there are at most two.               *)
RestartBudget ==
    Cardinality({r \in readers : mode[r] # "resume_evaluate"}) <= 2

(* The report is written after COMPLETE is in the marker, and COMPLETE     *)
(* after the whole manifest is on disk, in a crash at any point.           *)
ProvenanceOrder ==
    /\ report # "absent" => Holds(marker, "COMPLETE")
    /\ Holds(marker, "COMPLETE") => manifest = "whole" /\ evaluators # {}

StatesOf(m) == [i \in DOMAIN m |-> m[i].state]

FullHistories ==
    {<<"STAGE1_STARTED", "STAGE1_COMPLETE", "STAGE2_STARTED", "COMPLETE">>,
     <<"STAGE1_STARTED", "STAGE1_STARTED", "STAGE1_COMPLETE", "STAGE2_STARTED",
       "COMPLETE">>}

(* A marker every line of which can be read tells a story of the stage     *)
(* machine: at most two starts, then each later stage once and in order,   *)
(* over all the runs that wrote to it.                                     *)
MarkerTellsTheStages ==
    ~Holds(marker, Torn) =>
        \E h \in FullHistories :
            /\ Len(marker) <= Len(h)
            /\ StatesOf(marker) = SubSeq(h, 1, Len(marker))

(* The run implements the promise: reads only before the evaluation, one   *)
(* evaluation, by a run that has read, then COMPLETE, then the report.     *)
Verdict ==
    CASE report # "absent"        -> "reported"
      [] report = "absent" /\ Holds(marker, "COMPLETE") -> "recorded"
      [] OTHER                    -> "none"

Promise == INSTANCE OneShotPromise WITH verdict <- Verdict

PromiseKept == Promise!Spec

Dead == {r \in Runs : pc[r] = "dead"}

(* What the failure protocol is for: if no gate bars a run, at most one    *)
(* run dies, and it dies before it says STAGE2_STARTED and leaves the      *)
(* marker readable, then the one-shot still ends with a whole report.      *)
CleanHistory ==
    /\ \A r \in Runs : pc[r] # "barred"
    /\ \A q, r \in Dead : q = r
    /\ \A r \in Dead : ~\E i \in DOMAIN marker :
           marker[i].by = r /\ marker[i].state \in {"STAGE2_STARTED", "COMPLETE"}
    /\ ~Holds(marker, Torn)
    /\ newline

SingleCrashSurvived ==
    (<>[](cleared /\ CleanHistory)) => <>(report = "whole")

(* "every_access_logged: true" (docs/scientist_protocol.yaml): once a run  *)
(* that read the holdout has ended, the marker holds a line it wrote.      *)
EveryAccessLogged ==
    \A r \in readers : Live(r) \/ \E i \in DOMAIN marker : marker[i].by = r

===============================================================================
