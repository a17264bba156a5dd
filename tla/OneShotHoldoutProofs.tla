------------------------- MODULE OneShotHoldoutProofs -------------------------
(***************************************************************************)
(* Proofs about OneShotHoldout for every set of invocations: its type      *)
(* invariant; that an operator who never has two real runs alive at once   *)
(* gets at most one evaluation of the holdout, whatever dies and whatever  *)
(* a dying run leaves in the marker; and what is left on disk: the order   *)
(* of the artefacts, the restart budget, the story the marker tells, and   *)
(* the refinement of OneShotPromise.                                       *)
(***************************************************************************)
EXTENDS OneShotHoldout, FiniteSetTheorems, TLAPS

(* Appending a line keeps the marker a sequence of lines.                  *)
LEMMA ExtendedType ==
    ASSUME NEW m \in Seq(Lines), NEW nl \in BOOLEAN, NEW line \in Lines,
           m = <<>> => nl
    PROVE  /\ Extended(m, nl, line) \in Seq(Lines)
           /\ Extended(m, nl, line) # <<>>
<1>1. CASE nl
  <2>1. Extended(m, nl, line) = Append(m, line)
    BY <1>1, Zenon DEF Extended
  <2> QED
    BY <2>1
<1>2. CASE ~nl
  <2>1. m # <<>> /\ Len(m) \in Nat /\ Len(m) \in 1 .. Len(m)
    BY <1>2
  <2>2. Line(Torn, line.by) \in Lines
    BY DEF Line, Lines
  <2>3. Extended(m, nl, line) = [m EXCEPT ![Len(m)] = Line(Torn, line.by)]
    BY <1>2, Zenon DEF Extended
  <2> QED
    BY <2>1, <2>2, <2>3
<1> QED
  BY <1>1, <1>2

(* What a line can be written from: a state of the machine or a fragment,  *)
(* and the run that writes it.                                             *)
LEMMA LineType ==
    ASSUME NEW s \in States \cup {Torn}, NEW r \in Runs
    PROVE  Line(s, r) \in Lines /\ Line(s, r).state = s /\ Line(s, r).by = r
BY DEF Line, Lines

LEMMA AppendsType ==
    ASSUME NEW step \in DOMAIN Appends
    PROVE  /\ Appends[step] \in States
           /\ step \in Steps
BY DEF Appends, States, Steps

(* A sealed marker stays sealed whatever is appended to it.                *)
LEMMA SealedForGood ==
    ASSUME NEW m \in Seq(Lines), NEW nl \in BOOLEAN, NEW line \in Lines,
           m = <<>> => nl, Sealed(m)
    PROVE  Sealed(Extended(m, nl, line))
<1>1. PICK s \in {Torn, "STAGE2_STARTED", "COMPLETE"}, i \in DOMAIN m :
          m[i].state = s
  BY DEF Sealed, Holds
<1>2. CASE nl
  <2>1. i \in DOMAIN Append(m, line) /\ Append(m, line)[i] = m[i]
    BY <1>1
  <2>2. Extended(m, nl, line) = Append(m, line)
    BY <1>2, Zenon DEF Extended
  <2> QED
    BY <1>1, <2>1, <2>2 DEF Sealed, Holds
<1>3. CASE ~nl
  <2> DEFINE e == [m EXCEPT ![Len(m)] = Line(Torn, line.by)]
  <2>1. DOMAIN e = DOMAIN m
    OBVIOUS
  <2>2. e[i].state \in {m[i].state, Torn}
    BY <1>1 DEF Line
  <2>3. Extended(m, nl, line) = e
    BY <1>3, Zenon DEF Extended
  <2> QED
    BY <1>1, <2>1, <2>2, <2>3 DEF Sealed, Holds
<1> QED
  BY <1>2, <1>3

(* Once STAGE2_STARTED has been appended, the marker is sealed, even if    *)
(* the line joined an unterminated one.                                    *)
LEMMA Stage2Seals ==
    ASSUME NEW m \in Seq(Lines), NEW nl \in BOOLEAN, NEW r \in Runs,
           m = <<>> => nl
    PROVE  Sealed(Extended(m, nl, Line("STAGE2_STARTED", r)))
<1> DEFINE line == Line("STAGE2_STARTED", r)
<1>0. line.state = "STAGE2_STARTED"
  BY DEF Line
<1>1. CASE nl
  <2>1. /\ Len(m) + 1 \in DOMAIN Append(m, line)
        /\ Append(m, line)[Len(m) + 1] = line
    OBVIOUS
  <2>2. Extended(m, nl, line) = Append(m, line)
    BY <1>1, Zenon DEF Extended
  <2> QED
    BY <1>0, <2>1, <2>2 DEF Sealed, Holds
<1>2. CASE ~nl
  <2> DEFINE e == [m EXCEPT ![Len(m)] = Line(Torn, line.by)]
  <2>1. Len(m) \in DOMAIN m /\ DOMAIN e = DOMAIN m
    BY <1>2
  <2>2. e[Len(m)].state = Torn
    BY <2>1 DEF Line
  <2>3. Extended(m, nl, line) = e
    BY <1>2, Zenon DEF Extended
  <2> QED
    BY <2>1, <2>2, <2>3 DEF Sealed, Holds
<1> QED
  BY <1>1, <1>2
-------------------------------------------------------------------------------
(* Type correctness.                                                       *)

(* The steps that write one line keep the marker well typed: the only      *)
(* actions in which the type of the marker is not immediate.               *)
LEMMA AppendKeepsType ==
    ASSUME TypeOK, NEW r \in Runs, NEW step \in DOMAIN Appends,
           NEW next \in Steps \cup Ends, AppendMarker(r, step, next)
    PROVE  TypeOK'
<1>1. Appends[step] \in States \cup {Torn}
  BY AppendsType
<1>2. Line(Appends[step], r) \in Lines
  BY <1>1, LineType
<1>3. marker' \in Seq(Lines) /\ marker' # <<>>
  BY <1>2, ExtendedType DEF TypeOK, AppendMarker
<1>4. newline' \in BOOLEAN
  BY DEF AppendMarker
<1>5. pc' \in [Runs -> {"idle"} \cup Steps \cup Ends]
  BY DEF TypeOK, AppendMarker, Goto
<1> QED
  BY <1>3, <1>4, <1>5 DEF TypeOK, AppendMarker

LEMMA DieAppendingKeepsType ==
    ASSUME TypeOK, NEW r \in Runs, DieAppending(r)
    PROVE  TypeOK'
<1>1. PICK s \in {Torn, Appends[pc[r]]} : marker' = Extended(marker, newline, Line(s, r))
  BY DEF DieAppending
<1>2. s \in States \cup {Torn}
  BY AppendsType DEF DieAppending
<1>3. marker' \in Seq(Lines) /\ marker' # <<>>
  BY <1>1, <1>2, LineType, ExtendedType DEF TypeOK
<1>4. newline' \in BOOLEAN
  BY DEF DieAppending
<1>5. pc' \in [Runs -> {"idle"} \cup Steps \cup Ends]
  BY DEF TypeOK, DieAppending, Goto, Ends
<1> QED
  BY <1>3, <1>4, <1>5 DEF TypeOK, DieAppending

(* plan_next answers with a mode or refuses.                               *)
LEMMA PlanNextType ==
    ASSUME NEW m
    PROVE  PlanNext(m) \in Modes \cup {"refuse"}
BY DEF PlanNext, Modes

(* TypeOK of OneShotHoldout is an invariant for every set of runs.         *)
THEOREM TypeCorrect == Spec => []TypeOK
<1>1. Init => TypeOK
  BY DEF Init, TypeOK
<1>2. TypeOK /\ [Next]_vars => TypeOK'
  <2> SUFFICES ASSUME TypeOK, [Next]_vars
               PROVE  TypeOK'
    OBVIOUS
  <2> USE DEF Goto, disk, Steps, Ends
  <2>1. ASSUME NEW r \in Runs, Preflight(r) PROVE TypeOK'
    BY <2>1 DEF TypeOK, Preflight
  <2>2. ASSUME NEW r \in Runs, Checklist(r) PROVE TypeOK'
    BY <2>2 DEF TypeOK, Checklist
  <2>3. ASSUME NEW r \in Runs, Plan(r) PROVE TypeOK'
    BY <2>3, PlanNextType DEF TypeOK, Plan
  <2>4. ASSUME NEW r \in Runs, OpenGate(r) PROVE TypeOK'
    BY <2>4 DEF TypeOK, OpenGate
  <2>5. ASSUME NEW r \in Runs, GateShut(r) PROVE TypeOK'
    BY <2>5 DEF TypeOK, GateShut
  <2>6. ASSUME NEW r \in Runs,
               \/ StartStage1(r) \/ CompleteStage1(r)
               \/ StartStage2(r) \/ CompleteStage2(r)
        PROVE  TypeOK'
    <3>1. /\ {"start1", "complete1", "start2", "complete"} \subseteq DOMAIN Appends
          /\ {"read", "start2", "evaluate", "report"} \subseteq Steps
      BY DEF Appends
    <3> QED
      BY <2>6, <3>1, AppendKeepsType
         DEF StartStage1, CompleteStage1, StartStage2, CompleteStage2
  <2>7. ASSUME NEW r \in Runs, ReadHoldout(r) PROVE TypeOK'
    BY <2>7 DEF TypeOK, ReadHoldout
  <2>8. ASSUME NEW r \in Runs, Assemble(r) PROVE TypeOK'
    BY <2>8 DEF TypeOK, Assemble
  <2>9. ASSUME NEW r \in Runs, EvaluateSurvivors(r) PROVE TypeOK'
    BY <2>9 DEF TypeOK, EvaluateSurvivors
  <2>10. ASSUME NEW r \in Runs, WriteManifest(r) PROVE TypeOK'
    BY <2>10 DEF TypeOK, WriteManifest
  <2>11. ASSUME NEW r \in Runs, WriteReport(r) PROVE TypeOK'
    BY <2>11 DEF TypeOK, WriteReport
  <2>12. ASSUME NEW r \in Runs, Die(r) PROVE TypeOK'
    BY <2>12 DEF TypeOK, Die
  <2>13. ASSUME NEW r \in Runs, DieEvaluating(r) PROVE TypeOK'
    BY <2>13 DEF TypeOK, DieEvaluating
  <2>14. ASSUME NEW r \in Runs, DieAppending(r) PROVE TypeOK'
    BY <2>14, DieAppendingKeepsType
  <2>15. ASSUME NEW r \in Runs, DieWriting(r) PROVE TypeOK'
    BY <2>15 DEF TypeOK, DieWriting
  <2>16. CASE Rehearse
    BY <2>16 DEF TypeOK, Rehearse
  <2>17. CASE ConditionsChange
    BY <2>17 DEF TypeOK, ConditionsChange
  <2>18. CASE UNCHANGED vars
    BY <2>18 DEF TypeOK, vars
  <2> QED
    BY <2>1, <2>2, <2>3, <2>4, <2>5, <2>6, <2>7, <2>8, <2>9, <2>10, <2>11, <2>12,
       <2>13, <2>14, <2>15, <2>16, <2>17, <2>18 DEF Next, Advance, Fail
<1> QED
  BY <1>1, <1>2, PTL DEF Spec
-------------------------------------------------------------------------------
(* At most one evaluation.                                                 *)
(*                                                                         *)
(* AtMostOneEvaluation is not inductive: a second live run could be about  *)
(* to evaluate.  The strengthening says that only one run is live, that a  *)
(* run past its plan and before its evaluation finds nothing evaluated,    *)
(* and that what has been evaluated is sealed by the marker, so that no    *)
(* later run plans past it.                                                *)

OneLive == \A q, r \in Runs : Live(q) /\ Live(r) => q = r

Committed(r) == pc[r] \in {"gate", "start1", "read", "assemble", "complete1", "start2"}

CommittedFindsNothing == \A r \in Runs : Committed(r) => evaluators = {}

EvaluatingIsSealed ==
    \A r \in Runs : pc[r] = "evaluate" => evaluators = {} /\ Sealed(marker)

EvaluatedIsSealed == evaluators # {} => Sealed(marker)

EvaluationInv ==
    /\ OneLive
    /\ CommittedFindsNothing
    /\ EvaluatingIsSealed
    /\ EvaluatedIsSealed
    /\ AtMostOneEvaluation

(* Where a run may go without disturbing the invariant: no further into    *)
(* the run than a step that asks nothing of evaluators or the marker.      *)
Harmless == {"checklist", "plan", "manifest", "complete", "report",
             "barred", "refused", "dead", "done"}

(* A step of one run that changes neither the evaluators nor the marker,   *)
(* and takes the run somewhere harmless or from one committed step to the  *)
(* next, keeps the invariant.                                              *)
LEMMA QuietStep ==
    ASSUME TypeOK, EvaluationInv, NEW r \in Runs, NEW next \in Steps \cup Ends,
           Live(r), Goto(r, next), UNCHANGED <<marker, evaluators>>,
           \/ next \in Harmless
           \/ Committed(r) /\ next # "evaluate"
    PROVE  EvaluationInv'
<1>1. OneLive'
  BY DEF EvaluationInv, OneLive, Live, Goto, TypeOK
<1>2. CommittedFindsNothing'
  BY DEF EvaluationInv, CommittedFindsNothing, Committed, Goto, TypeOK, Harmless
<1>3. EvaluatingIsSealed'
  BY DEF EvaluationInv, EvaluatingIsSealed, Goto, TypeOK, Harmless
<1>4. EvaluatedIsSealed' /\ AtMostOneEvaluation'
  BY DEF EvaluationInv, EvaluatedIsSealed, AtMostOneEvaluation
<1> QED
  BY <1>1, <1>2, <1>3, <1>4 DEF EvaluationInv

(* A step that appends a line and moves the run to a committed or harmless *)
(* step: what is sealed stays sealed.                                      *)
LEMMA AppendStep ==
    ASSUME TypeOK, EvaluationInv, NEW r \in Runs, NEW next \in Steps \cup Ends,
           NEW line \in Lines, Live(r), Goto(r, next), UNCHANGED evaluators,
           marker' = Extended(marker, newline, line),
           \/ next \in Harmless
           \/ Committed(r) /\ next # "evaluate"
           \/ Committed(r) /\ next = "evaluate" /\ Sealed(marker')
    PROVE  EvaluationInv'
<1>0. Sealed(marker) => Sealed(marker')
  BY SealedForGood DEF TypeOK
<1>1. OneLive'
  BY DEF EvaluationInv, OneLive, Live, Goto, TypeOK
<1>2. CommittedFindsNothing'
  BY DEF EvaluationInv, CommittedFindsNothing, Committed, Goto, TypeOK, Harmless
<1>3. EvaluatingIsSealed'
  <2> SUFFICES ASSUME NEW q \in Runs, pc'[q] = "evaluate"
               PROVE  evaluators' = {} /\ Sealed(marker')
    BY DEF EvaluatingIsSealed, Sealed, Holds
  <2>1. CASE q = r
    BY <2>1 DEF EvaluationInv, CommittedFindsNothing, Goto, TypeOK, Harmless
  <2>2. CASE q # r
    BY <1>0, <2>2 DEF EvaluationInv, EvaluatingIsSealed, Goto, TypeOK
  <2> QED
    BY <2>1, <2>2
<1>4. EvaluatedIsSealed'
  <2>1. EvaluatedIsSealed' = (evaluators' # {} => Sealed(marker'))
    BY DEF EvaluatedIsSealed, Sealed, Holds
  <2> QED
    BY <1>0, <2>1 DEF EvaluationInv, EvaluatedIsSealed
<1>5. AtMostOneEvaluation'
  BY DEF EvaluationInv, AtMostOneEvaluation
<1> QED
  BY <1>1, <1>2, <1>3, <1>4, <1>5 DEF EvaluationInv

(* The evaluation itself, finished or cut short.                           *)
LEMMA EvaluationStep ==
    ASSUME TypeOK, EvaluationInv, NEW r \in Runs, NEW next \in Harmless,
           pc[r] = "evaluate", Goto(r, next), UNCHANGED marker,
           evaluators' = evaluators \cup {r}
    PROVE  EvaluationInv'
<1>1. Live(r) /\ Sealed(marker) /\ evaluators' = {r}
  BY DEF Live, Steps, EvaluationInv, EvaluatingIsSealed
<1>2. \A q \in Runs : q # r => ~Live(q) /\ pc'[q] = pc[q]
  BY <1>1 DEF EvaluationInv, OneLive, Goto, TypeOK
<1>3. OneLive'
  BY <1>2 DEF OneLive, Live
<1>4. \A q \in Runs : ~Committed(q)' /\ pc'[q] # "evaluate"
  BY <1>2 DEF Committed, Live, Steps, Goto, TypeOK, Harmless
<1>5. CommittedFindsNothing' /\ EvaluatingIsSealed'
  BY <1>4 DEF CommittedFindsNothing, EvaluatingIsSealed
<1>6. EvaluatedIsSealed' /\ AtMostOneEvaluation'
  BY <1>1 DEF EvaluatedIsSealed, AtMostOneEvaluation
<1> QED
  BY <1>3, <1>5, <1>6 DEF EvaluationInv
(* The plan is where the invariant is established: only a run that finds   *)
(* the marker unsealed gets past it.                                       *)
LEMMA PlanStep ==
    ASSUME TypeOK, EvaluationInv, NEW r \in Runs, Plan(r)
    PROVE  EvaluationInv'
<1>1. Live(r) /\ UNCHANGED <<marker, evaluators>>
  BY DEF Plan, Live, Steps, disk
<1>2. CASE PlanNext(marker) = "refuse"
  BY <1>1, <1>2, QuietStep DEF Plan, Harmless, Steps, Ends
<1>3. CASE PlanNext(marker) # "refuse"
  <2>1. ~Sealed(marker) /\ Goto(r, "gate")
    BY <1>3 DEF Plan, PlanNext
  <2>2. evaluators = {}
    BY <2>1 DEF EvaluationInv, EvaluatedIsSealed
  <2>3. OneLive'
    BY <1>1, <2>1 DEF EvaluationInv, OneLive, Live, Goto, TypeOK
  <2>4. CommittedFindsNothing' /\ EvaluatedIsSealed' /\ AtMostOneEvaluation'
    BY <1>1, <2>2 DEF CommittedFindsNothing, EvaluatedIsSealed, AtMostOneEvaluation
  <2>5. EvaluatingIsSealed'
    BY <1>1, <2>1, <2>2 DEF EvaluationInv, EvaluatingIsSealed, Goto, TypeOK
  <2> QED
    BY <2>3, <2>4, <2>5 DEF EvaluationInv
<1> QED
  BY <1>2, <1>3

(* With exclusive launches EvaluationInv is preserved by every step.       *)
LEMMA EvaluationInvStep ==
    ASSUME Exclusive, TypeOK, EvaluationInv, [Next]_vars
    PROVE  EvaluationInv'
<1>0. /\ \A s \in Steps \cup Ends : s \in Harmless => s \in Steps \cup Ends
      /\ Harmless \subseteq Steps \cup Ends
  BY DEF Harmless, Steps, Ends
<1>1. ASSUME NEW r \in Runs, Preflight(r) PROVE EvaluationInv'
  <2>1. \A q \in Runs : ~Live(q)
    BY <1>1 DEF Preflight
  <2>2. pc' = [pc EXCEPT ![r] = "checklist"] /\ UNCHANGED <<marker, evaluators>>
    BY <1>1 DEF Preflight, Goto, disk
  <2>3. OneLive'
    BY <2>1, <2>2 DEF OneLive, Live, TypeOK
  <2>4. CommittedFindsNothing' /\ EvaluatingIsSealed'
    BY <2>2 DEF EvaluationInv, CommittedFindsNothing, EvaluatingIsSealed, Committed,
                TypeOK
  <2>5. EvaluatedIsSealed' /\ AtMostOneEvaluation'
    BY <2>2 DEF EvaluationInv, EvaluatedIsSealed, AtMostOneEvaluation
  <2> QED
    BY <2>3, <2>4, <2>5 DEF EvaluationInv
<1>2. ASSUME NEW r \in Runs,
             \/ Checklist(r) \/ GateShut(r) \/ WriteManifest(r)
             \/ WriteReport(r) \/ Die(r) \/ DieWriting(r)
      PROVE  EvaluationInv'
  <2>1. PICK next \in Harmless : Goto(r, next)
    BY <1>2 DEF Checklist, GateShut, WriteManifest, WriteReport, Die, DieWriting,
                Harmless
  <2>2. Live(r) /\ UNCHANGED <<marker, evaluators>>
    BY <1>2 DEF Checklist, GateShut, WriteManifest, WriteReport, Die, DieWriting,
                Live, Steps, disk
  <2> QED
    BY <1>0, <2>1, <2>2, QuietStep
<1>3. ASSUME NEW r \in Runs, Plan(r) PROVE EvaluationInv'
  BY <1>3, PlanStep
<1>4. ASSUME NEW r \in Runs, OpenGate(r) \/ ReadHoldout(r) \/ Assemble(r)
      PROVE  EvaluationInv'
  <2>1. PICK next \in {"start1", "read", "assemble", "start2", "complete1"} :
            Goto(r, next)
    BY <1>4 DEF OpenGate, ReadHoldout, Assemble
  <2>2. /\ Live(r) /\ Committed(r)
        /\ UNCHANGED <<marker, evaluators>>
    BY <1>4 DEF OpenGate, ReadHoldout, Assemble, Live, Steps, Committed, disk
  <2> QED
    BY <2>1, <2>2, QuietStep DEF Steps
<1>5. ASSUME NEW r \in Runs, StartStage1(r) \/ CompleteStage1(r)
      PROVE  EvaluationInv'
  <2>1. PICK s \in States, next \in {"read", "start2"} :
            /\ marker' = Extended(marker, newline, Line(s, r))
            /\ Goto(r, next)
    BY <1>5 DEF StartStage1, CompleteStage1, AppendMarker, Appends, States
  <2>2. Live(r) /\ Committed(r) /\ UNCHANGED evaluators
    BY <1>5 DEF StartStage1, CompleteStage1, AppendMarker, Live, Steps, Committed
  <2> QED
    BY <2>1, <2>2, LineType, AppendStep DEF Steps
<1>6. ASSUME NEW r \in Runs, StartStage2(r) PROVE EvaluationInv'
  <2>1. /\ marker' = Extended(marker, newline, Line("STAGE2_STARTED", r))
        /\ Goto(r, "evaluate") /\ UNCHANGED evaluators
        /\ Live(r) /\ Committed(r)
    BY <1>6 DEF StartStage2, AppendMarker, Appends, Live, Steps, Committed
  <2>2. Sealed(marker')
    BY <2>1, Stage2Seals DEF TypeOK
  <2> QED
    BY <2>1, <2>2, LineType, AppendStep DEF Steps, States
<1>7. ASSUME NEW r \in Runs, EvaluateSurvivors(r) \/ DieEvaluating(r)
      PROVE  EvaluationInv'
  BY <1>7, EvaluationStep DEF EvaluateSurvivors, DieEvaluating, Harmless, disk
<1>8. ASSUME NEW r \in Runs, CompleteStage2(r) \/ DieAppending(r)
      PROVE  EvaluationInv'
  <2>1. PICK s \in States \cup {Torn}, next \in Harmless :
            /\ marker' = Extended(marker, newline, Line(s, r))
            /\ Goto(r, next)
    BY <1>8, AppendsType
       DEF CompleteStage2, AppendMarker, DieAppending, Appends, States, Harmless
  <2>2. Live(r) /\ UNCHANGED evaluators
    BY <1>8, AppendsType DEF CompleteStage2, AppendMarker, DieAppending, Live, Steps
  <2> QED
    BY <1>0, <2>1, <2>2, LineType, AppendStep
<1>9. CASE Rehearse \/ ConditionsChange \/ UNCHANGED vars
  <2>1. UNCHANGED <<pc, marker, evaluators>>
    BY <1>9 DEF Rehearse, ConditionsChange, vars, disk
  <2> QED
    BY <2>1 DEF EvaluationInv, OneLive, Live, CommittedFindsNothing, Committed,
                EvaluatingIsSealed, EvaluatedIsSealed, AtMostOneEvaluation
<1> QED
  BY <1>1, <1>2, <1>3, <1>4, <1>5, <1>6, <1>7, <1>8, <1>9 DEF Next, Advance, Fail

(* "NO rerun, ever": with exclusive launches the holdout is evaluated by   *)
(* at most one invocation, for any number of invocations, any deaths and   *)
(* any fragments a death leaves in the marker.                             *)
THEOREM EvaluatedOnce == Exclusive => (Spec => []AtMostOneEvaluation)
<1> SUFFICES ASSUME Exclusive PROVE Spec => []AtMostOneEvaluation
  OBVIOUS
<1>1. Init => EvaluationInv
  BY DEF Init, EvaluationInv, OneLive, Live, Steps, CommittedFindsNothing, Committed,
         EvaluatingIsSealed, EvaluatedIsSealed, AtMostOneEvaluation
<1>2. TypeOK /\ EvaluationInv /\ [Next]_vars => EvaluationInv'
  BY EvaluationInvStep
<1>3. EvaluationInv => AtMostOneEvaluation
  BY DEF EvaluationInv
<1> QED
  BY <1>1, <1>2, <1>3, TypeCorrect, PTL DEF Spec

-------------------------------------------------------------------------------
(* Where a run is.                                                         *)

BeforeRead == {"idle", "checklist", "plan", "gate", "start1", "read"}

AfterRead == {"assemble", "complete1", "start2", "evaluate", "manifest",
              "complete", "report"}

\* From the plan to the COMPLETE line.
Working == {"gate", "start1", "read", "assemble", "complete1", "start2",
            "evaluate", "manifest", "complete"}

(* A run reads once, after its plan gave it a mode that it keeps.  This    *)
(* holds whoever else is alive.                                            *)
ReadersInv ==
    \A r \in Runs :
        /\ r \in readers => pc[r] \notin BeforeRead
        /\ pc[r] \in AfterRead => r \in readers
        /\ pc[r] \in Working \cup {"report"} \/ r \in readers => mode[r] \in Modes

(* The artefacts: what a live run finds of the marker's last line, of the  *)
(* manifest and of the report.                                             *)
ArtefactsOf(r) ==
    /\ Live(r) => report = "absent"
    /\ pc[r] \in Working => ~Holds(marker, "COMPLETE")
    /\ pc[r] \in {"evaluate", "manifest", "complete"} => newline
    /\ pc[r] \in {"manifest", "complete"} => evaluators # {}
    /\ pc[r] = "complete" => manifest = "whole"
    /\ pc[r] = "report" => Holds(marker, "COMPLETE")

ArtefactInv == ProvenanceOrder /\ \A r \in Runs : ArtefactsOf(r)

-------------------------------------------------------------------------------
(* The story of the marker.                                                *)

Once == <<"STAGE1_STARTED", "STAGE1_COMPLETE", "STAGE2_STARTED", "COMPLETE">>
Twice == <<"STAGE1_STARTED", "STAGE1_STARTED", "STAGE1_COMPLETE",
           "STAGE2_STARTED", "COMPLETE">>

Follows(m, h) == Len(m) <= Len(h) /\ \A i \in 1 .. Len(m) : m[i].state = h[i]

\* The marker holds the first k stages, with or without a restart.
Reached(m, k) ==
    \/ Len(m) = k /\ Follows(m, Once)
    \/ Len(m) = k + 1 /\ Follows(m, Twice)

\* A build has begun: the first one, or the restart.
Begun(m, mode_) ==
    \/ mode_ = "fresh_build" /\ Len(m) = 1 /\ Follows(m, Once)
    \/ mode_ = "restart_build" /\ Len(m) = 2 /\ Follows(m, Twice)
    \/ mode_ = "resume_evaluate" /\ Reached(m, 2)

(* What a run that is about to take a step finds in a readable marker.     *)
StageOf(r) ==
    /\ pc[r] \in {"gate", "start1"} =>
         \/ mode[r] = "fresh_build" /\ marker = <<>>
         \/ mode[r] = "restart_build" /\ Len(marker) = 1
         \/ mode[r] = "resume_evaluate" /\ pc[r] = "gate" /\ Reached(marker, 2)
    /\ pc[r] \in {"read", "assemble"} => Begun(marker, mode[r])
    /\ pc[r] = "complete1" =>
           Begun(marker, mode[r]) /\ mode[r] # "resume_evaluate"
    /\ pc[r] = "start2" => Reached(marker, 2)
    /\ pc[r] \in {"evaluate", "manifest", "complete"} => Reached(marker, 3)
    /\ pc[r] = "report" => Reached(marker, 4)

StoryInv ==
    /\ \A r \in Runs : pc[r] \in {"gate", "start1"} => ~Holds(marker, Torn)
    /\ ~Holds(marker, Torn) =>
         /\ Follows(marker, Once) \/ Follows(marker, Twice)
         /\ \A r \in Runs : StageOf(r)

(* The restart budget: one run builds on an empty marker, one more on the  *)
(* marker that holds nothing but its start.                                *)
Builds(r, m) == mode[r] = m /\ (r \in readers \/ pc[r] = "read")

BudgetInv ==
    /\ \A m \in {"fresh_build", "restart_build"} :
         \A q, r \in Runs : Builds(q, m) /\ Builds(r, m) => q = r
    /\ \A r \in Runs : Builds(r, "fresh_build") => marker # <<>>
    /\ \A r \in Runs : Builds(r, "restart_build") =>
         Holds(marker, Torn) \/ Len(marker) >= 2

-------------------------------------------------------------------------------
(* What an append does to a marker.                                        *)

(* A line that joins an unterminated one leaves a torn line, and a torn    *)
(* line is never repaired.                                                 *)
LEMMA TornExtended ==
    ASSUME NEW m \in Seq(Lines), NEW nl \in BOOLEAN, NEW line \in Lines,
           m = <<>> => nl,
           Holds(m, Torn) \/ ~nl \/ line.state = Torn
    PROVE  Holds(Extended(m, nl, line), Torn)
<1>1. CASE nl
  <2>1. Extended(m, nl, line) = Append(m, line)
    BY <1>1, Zenon DEF Extended
  <2>2. /\ Len(m) + 1 \in DOMAIN Append(m, line)
        /\ Append(m, line)[Len(m) + 1] = line
        /\ \A i \in DOMAIN m : i \in DOMAIN Append(m, line) /\ Append(m, line)[i] = m[i]
    OBVIOUS
  <2> QED
    BY <1>1, <2>1, <2>2 DEF Holds
<1>2. CASE ~nl
  <2> DEFINE e == [m EXCEPT ![Len(m)] = Line(Torn, line.by)]
  <2>1. Len(m) \in DOMAIN m /\ DOMAIN e = DOMAIN m
    BY <1>2
  <2>2. e[Len(m)].state = Torn
    BY <2>1 DEF Line
  <2>3. Extended(m, nl, line) = e
    BY <1>2, Zenon DEF Extended
  <2> QED
    BY <2>1, <2>2, <2>3 DEF Holds
<1> QED
  BY <1>1, <1>2

(* An append to a terminated file keeps the lines before it.               *)
LEMMA WholeExtended ==
    ASSUME NEW m \in Seq(Lines), NEW line \in Lines
    PROVE  /\ Len(Extended(m, TRUE, line)) = Len(m) + 1
           /\ \A i \in 1 .. Len(m) : Extended(m, TRUE, line)[i] = m[i]
           /\ Extended(m, TRUE, line)[Len(m) + 1] = line
<1>1. Extended(m, TRUE, line) = Append(m, line)
  BY Zenon DEF Extended
<1>2. /\ Len(Append(m, line)) = Len(m) + 1
      /\ \A i \in 1 .. Len(m) : Append(m, line)[i] = m[i]
      /\ Append(m, line)[Len(m) + 1] = line
  OBVIOUS
<1> QED
  BY <1>1, <1>2, Zenon

(* The stages that an extended marker holds are those it held and, on a    *)
(* line of its own, the one that was appended.                             *)
LEMMA HoldsExtended ==
    ASSUME NEW m \in Seq(Lines), NEW nl \in BOOLEAN, NEW line \in Lines,
           m = <<>> => nl, NEW s \in States
    PROVE  /\ Holds(Extended(m, nl, line), s) =>
                  Holds(m, s) \/ (nl /\ line.state = s)
           /\ nl /\ (Holds(m, s) \/ line.state = s) =>
                  Holds(Extended(m, nl, line), s)
<1>0. s # Torn
  BY DEF States, Torn
<1>1. CASE nl
  <2>1. Extended(m, nl, line) = Append(m, line)
    BY <1>1, Zenon DEF Extended
  <2>2. /\ DOMAIN Append(m, line) = 1 .. Len(m) + 1
        /\ DOMAIN m = 1 .. Len(m)
        /\ Append(m, line)[Len(m) + 1] = line
        /\ \A i \in DOMAIN m : Append(m, line)[i] = m[i]
    OBVIOUS
  <2>3. Holds(Append(m, line), s) => Holds(m, s) \/ line.state = s
    <3> SUFFICES ASSUME NEW i \in 1 .. Len(m) + 1, Append(m, line)[i].state = s
                 PROVE  Holds(m, s) \/ line.state = s
      BY <2>2 DEF Holds
    <3>1. i \in DOMAIN m \/ i = Len(m) + 1
      OBVIOUS
    <3> QED
      BY <2>2, <3>1 DEF Holds
  <2>4. Holds(m, s) \/ line.state = s => Holds(Append(m, line), s)
    <3>1. Len(m) + 1 \in DOMAIN Append(m, line)
      OBVIOUS
    <3>2. DOMAIN m \subseteq DOMAIN Append(m, line)
      OBVIOUS
    <3> QED
      BY <2>2, <3>1, <3>2 DEF Holds
  <2> QED
    BY <1>1, <2>1, <2>3, <2>4
<1>2. CASE ~nl
  <2> DEFINE e == [m EXCEPT ![Len(m)] = Line(Torn, line.by)]
  <2>1. DOMAIN e = DOMAIN m
    OBVIOUS
  <2>2. \A i \in DOMAIN m : e[i].state \in {m[i].state, Torn}
    BY DEF Line
  <2>3. Extended(m, nl, line) = e
    BY <1>2, Zenon DEF Extended
  <2>4. Holds(e, s) => Holds(m, s)
    <3> SUFFICES ASSUME NEW i \in DOMAIN e, e[i].state = s
                 PROVE  Holds(m, s)
      BY DEF Holds
    <3>1. i \in DOMAIN m /\ m[i].state = s
      BY <1>0, <2>1, <2>2
    <3> QED
      BY <3>1 DEF Holds
  <2> QED
    BY <1>2, <2>3, <2>4
<1> QED
  BY <1>1, <1>2

-------------------------------------------------------------------------------
(* The readers.                                                            *)

LEMMA ReadersInvStep ==
    ASSUME TypeOK, ReadersInv, [Next]_vars
    PROVE  ReadersInv'
<1> USE DEF BeforeRead, AfterRead, Working, Goto
<1>1. ASSUME NEW r \in Runs, ReadHoldout(r) PROVE ReadersInv'
  BY <1>1 DEF ReadersInv, ReadHoldout, TypeOK
<1>2. ASSUME NEW r \in Runs, Plan(r) PROVE ReadersInv'
  <2>1. PlanNext(marker) = "refuse" \/ PlanNext(marker) \in Modes
    BY PlanNextType
  <2> QED
    BY <1>2, <2>1 DEF ReadersInv, Plan, TypeOK
<1>3. ASSUME NEW r \in Runs, Advance(r) \/ Fail(r), ~ReadHoldout(r), ~Plan(r)
      PROVE  ReadersInv'
  <2>1. PICK next \in Steps \cup Ends :
          /\ pc' = [pc EXCEPT ![r] = next]
          /\ next \in AfterRead => pc[r] \in AfterRead
          /\ next \in BeforeRead => pc[r] \in BeforeRead
          /\ next \in Working \cup {"report"} => pc[r] \in Working
    BY <1>3
       DEF Advance, Fail, Preflight, Checklist, OpenGate, GateShut, StartStage1,
           Assemble, CompleteStage1, StartStage2, EvaluateSurvivors, WriteManifest,
           CompleteStage2, WriteReport, AppendMarker, Die, DieEvaluating,
           DieAppending, DieWriting, Steps, Ends
  <2>2. UNCHANGED <<mode, readers>>
    BY <1>3
       DEF Advance, Fail, Preflight, Checklist, OpenGate, GateShut, StartStage1,
           Assemble, CompleteStage1, StartStage2, EvaluateSurvivors, WriteManifest,
           CompleteStage2, WriteReport, AppendMarker, Die, DieEvaluating,
           DieAppending, DieWriting, disk
  <2> QED
    BY <2>1, <2>2 DEF ReadersInv, TypeOK
<1>4. CASE Rehearse \/ ConditionsChange \/ UNCHANGED vars
  BY <1>4 DEF ReadersInv, Rehearse, ConditionsChange, vars
<1> QED
  BY <1>1, <1>2, <1>3, <1>4 DEF Next

(* Everything a step of r changes concerns r: no other run is alive.       *)
LEMMA OnlyOneMoves ==
    ASSUME TypeOK, OneLive, NEW r \in Runs, Live(r),
           NEW next \in Steps \cup Ends, Goto(r, next)
    PROVE  /\ pc'[r] = next
           /\ \A q \in Runs : q # r => pc'[q] = pc[q] /\ pc[q] \notin Steps
BY DEF TypeOK, OneLive, Live, Goto

(* EvaluationInv is an invariant.                                          *)
LEMMA EvaluationInvariant == Exclusive => (Spec => []EvaluationInv)
<1> SUFFICES ASSUME Exclusive PROVE Spec => []EvaluationInv
  OBVIOUS
<1>1. Init => EvaluationInv
  BY DEF Init, EvaluationInv, OneLive, Live, Steps, CommittedFindsNothing, Committed,
         EvaluatingIsSealed, EvaluatedIsSealed, AtMostOneEvaluation
<1>2. TypeOK /\ EvaluationInv /\ [Next]_vars => EvaluationInv'
  BY EvaluationInvStep
<1> QED
  BY <1>1, <1>2, TypeCorrect, PTL DEF Spec

-------------------------------------------------------------------------------
(* The order of the artefacts.                                             *)

LEMMA ArtefactInvStep ==
    ASSUME Exclusive, TypeOK, EvaluationInv, ArtefactInv, [Next]_vars
    PROVE  ArtefactInv'
<1>1. ASSUME NEW r \in Runs, Preflight(r) PROVE ArtefactInv'
  <2>1. /\ UNCHANGED <<marker, newline, manifest, report, evaluators>>
        /\ report = "absent"
        /\ \A q \in Runs : pc'[q] = IF q = r THEN "checklist" ELSE pc[q]
    BY <1>1 DEF Preflight, Goto, disk, TypeOK
  <2> QED
    BY <2>1 DEF ArtefactInv, ArtefactsOf, ProvenanceOrder, Live, Working, Holds
<1> DEFINE Others(r) == \A q \in Runs : q # r => ArtefactsOf(q)'
<1>2. ASSUME NEW r \in Runs, Live(r), NEW next \in Steps \cup Ends, Goto(r, next)
      PROVE  pc'[r] = next /\ Others(r)
  <2>1. /\ pc'[r] = next
        /\ \A q \in Runs : q # r => pc'[q] = pc[q] /\ pc[q] \notin Steps
    BY <1>2, OnlyOneMoves DEF EvaluationInv
  <2>2. ASSUME NEW q \in Runs, q # r PROVE ArtefactsOf(q)'
    BY <2>1, <2>2 DEF ArtefactsOf, Live, Working, Steps
  <2> QED
    BY <2>1, <2>2
<1>3. ASSUME NEW r \in Runs,
             \/ Checklist(r) \/ OpenGate(r) \/ GateShut(r)
             \/ ReadHoldout(r) \/ Assemble(r) \/ Die(r)
      PROVE  ArtefactInv'
  <2>1. PICK next \in Steps \cup Ends :
          /\ Goto(r, next)
          /\ next \in Working \cup {"report"} => pc[r] \in Working
          /\ next \notin {"evaluate", "manifest", "complete", "report"}
    BY <1>3 DEF Checklist, OpenGate, GateShut, ReadHoldout, Assemble, Die, Working,
                Steps, Ends
  <2>2. Live(r) /\ UNCHANGED <<marker, newline, manifest, report, evaluators>>
    BY <1>3 DEF Checklist, OpenGate, GateShut, ReadHoldout, Assemble, Die, Live,
                Steps, disk
  <2>3. pc'[r] = next /\ Others(r)
    BY <1>2, <2>1, <2>2
  <2>4. ArtefactsOf(r)' /\ ProvenanceOrder'
    BY <2>1, <2>2, <2>3 DEF ArtefactInv, ArtefactsOf, ProvenanceOrder, Live, Holds
  <2> QED
    BY <2>3, <2>4 DEF ArtefactInv
<1>4. ASSUME NEW r \in Runs, Plan(r) PROVE ArtefactInv'
  <2>1. Live(r) /\ UNCHANGED <<marker, newline, manifest, report, evaluators>>
    BY <1>4 DEF Plan, Live, Steps, disk
  <2>2. PICK next \in {"refused", "gate"} :
          Goto(r, next) /\ (next = "gate" => ~Holds(marker, "COMPLETE"))
    BY <1>4 DEF Plan, PlanNext, Sealed
  <2>3. pc'[r] = next /\ Others(r)
    BY <1>2, <2>1, <2>2 DEF Steps, Ends
  <2>4. ArtefactsOf(r)' /\ ProvenanceOrder'
    BY <2>1, <2>2, <2>3 DEF ArtefactInv, ArtefactsOf, ProvenanceOrder, Live, Holds,
                            Working, Steps
  <2> QED
    BY <2>3, <2>4 DEF ArtefactInv
<1>5. ASSUME NEW r \in Runs, StartStage1(r) \/ CompleteStage1(r) \/ StartStage2(r)
      PROVE  ArtefactInv'
  <2>1. PICK s \in States, next \in {"read", "start2", "evaluate"} :
          /\ s # "COMPLETE"
          /\ marker' = Extended(marker, newline, Line(s, r))
          /\ Goto(r, next)
    BY <1>5 DEF StartStage1, CompleteStage1, StartStage2, AppendMarker, Appends, States
  <2>2. /\ Live(r) /\ pc[r] \in Working /\ newline'
        /\ UNCHANGED <<manifest, report, evaluators>>
    BY <1>5 DEF StartStage1, CompleteStage1, StartStage2, AppendMarker, Live, Steps,
                Working
  <2>3. pc'[r] = next /\ Others(r)
    BY <1>2, <2>1, <2>2 DEF Steps
  <2>4. Line(s, r) \in Lines /\ Line(s, r).state = s
    BY LineType
  <2>5. ~Holds(marker', "COMPLETE")
    BY <2>1, <2>2, <2>4, HoldsExtended DEF ArtefactInv, ArtefactsOf, TypeOK, States
  <2>6. report = "absent"
    BY <2>2 DEF ArtefactInv, ArtefactsOf
  <2>7. ArtefactsOf(r)' /\ ProvenanceOrder'
    BY <2>2, <2>3, <2>5, <2>6 DEF ArtefactsOf, ProvenanceOrder, Holds
  <2> QED
    BY <2>3, <2>7 DEF ArtefactInv
<1>6. ASSUME NEW r \in Runs, EvaluateSurvivors(r) \/ DieEvaluating(r)
      PROVE  ArtefactInv'
  <2>1. PICK next \in {"manifest", "dead"} : Goto(r, next)
    BY <1>6 DEF EvaluateSurvivors, DieEvaluating
  <2>2. /\ Live(r) /\ pc[r] = "evaluate" /\ evaluators' # {}
        /\ UNCHANGED <<marker, newline, manifest, report>>
    BY <1>6 DEF EvaluateSurvivors, DieEvaluating, Live, Steps, disk
  <2>3. pc'[r] = next /\ Others(r)
    BY <1>2, <2>1, <2>2 DEF Steps, Ends
  <2>4. ArtefactsOf(r)' /\ ProvenanceOrder'
    BY <2>2, <2>3 DEF ArtefactInv, ArtefactsOf, ProvenanceOrder, Live, Holds,
                      Working, Steps
  <2> QED
    BY <2>3, <2>4 DEF ArtefactInv
<1>7. ASSUME NEW r \in Runs, WriteManifest(r) \/ DieWriting(r) \/ WriteReport(r)
      PROVE  ArtefactInv'
  <2>1. PICK next \in {"complete", "dead", "done"} : Goto(r, next)
    BY <1>7 DEF WriteManifest, DieWriting, WriteReport
  <2>2. /\ Live(r)
        /\ UNCHANGED <<marker, newline, evaluators>>
        /\ \/ pc[r] = "manifest" /\ UNCHANGED report
              /\ (next = "complete" => manifest' = "whole")
           \/ pc[r] = "report" /\ UNCHANGED manifest /\ next # "complete"
    BY <1>7, <2>1 DEF WriteManifest, DieWriting, WriteReport, Live, Steps, disk, Goto,
                      TypeOK
  <2>3. pc'[r] = next /\ Others(r)
    BY <1>2, <2>1, <2>2 DEF Steps, Ends
  <2>4. ArtefactsOf(r)' /\ ProvenanceOrder'
    BY <2>2, <2>3 DEF ArtefactInv, ArtefactsOf, ProvenanceOrder, Live, Holds,
                      Working, Steps
  <2> QED
    BY <2>3, <2>4 DEF ArtefactInv
<1>8. ASSUME NEW r \in Runs, CompleteStage2(r) PROVE ArtefactInv'
  <2>1. /\ Live(r) /\ pc[r] = "complete" /\ Goto(r, "report")
        /\ marker' = Extended(marker, newline, Line("COMPLETE", r))
        /\ UNCHANGED <<manifest, report, evaluators>>
    BY <1>8 DEF CompleteStage2, AppendMarker, Appends, Live, Steps
  <2>2. newline /\ manifest = "whole" /\ evaluators # {} /\ report = "absent"
    BY <2>1 DEF ArtefactInv, ArtefactsOf
  <2>3. Line("COMPLETE", r) \in Lines /\ Line("COMPLETE", r).state = "COMPLETE"
    BY LineType DEF States
  <2>4. Holds(marker', "COMPLETE")
    BY <2>1, <2>2, <2>3, HoldsExtended DEF TypeOK, States
  <2>5. pc'[r] = "report" /\ Others(r)
    BY <1>2, <2>1 DEF Steps
  <2>6. ArtefactsOf(r)' /\ ProvenanceOrder'
    BY <2>1, <2>2, <2>4, <2>5 DEF ArtefactsOf, ProvenanceOrder, Holds, Working
  <2> QED
    BY <2>5, <2>6 DEF ArtefactInv
<1>9. ASSUME NEW r \in Runs, DieAppending(r) PROVE ArtefactInv'
  <2>1. PICK s \in {Torn, Appends[pc[r]]} :
            marker' = Extended(marker, newline, Line(s, r))
    BY <1>9 DEF DieAppending
  <2>2. /\ Live(r) /\ pc[r] \in Working /\ Goto(r, "dead")
        /\ s \in States \cup {Torn}
        /\ s = "COMPLETE" => pc[r] = "complete"
        /\ UNCHANGED <<manifest, report, evaluators>>
    BY <1>9, <2>1 DEF DieAppending, Appends, States, Torn, Live, Steps, Working
  <2>3. report = "absent" /\ ~Holds(marker, "COMPLETE")
    BY <2>2 DEF ArtefactInv, ArtefactsOf
  <2>4. Line(s, r) \in Lines /\ Line(s, r).state = s
    BY <2>2, LineType
  <2>5. Holds(marker', "COMPLETE") => manifest = "whole" /\ evaluators # {}
    BY <2>1, <2>2, <2>3, <2>4, HoldsExtended
       DEF ArtefactInv, ArtefactsOf, TypeOK, States
  <2>6. pc'[r] = "dead" /\ Others(r)
    BY <1>2, <2>2 DEF Ends
  <2>7. ArtefactsOf(r)' /\ ProvenanceOrder'
    BY <2>2, <2>3, <2>5, <2>6 DEF ArtefactsOf, ProvenanceOrder, Holds, Live, Steps,
                                  Working
  <2> QED
    BY <2>6, <2>7 DEF ArtefactInv
<1>10. CASE Rehearse \/ ConditionsChange \/ UNCHANGED vars
  <2>1. UNCHANGED <<pc, marker, newline, manifest, report, evaluators>>
    BY <1>10 DEF Rehearse, ConditionsChange, vars, disk
  <2> QED
    BY <2>1 DEF ArtefactInv, ArtefactsOf, ProvenanceOrder, Holds, Live
<1> QED
  BY <1>1, <1>3, <1>4, <1>5, <1>6, <1>7, <1>8, <1>9, <1>10 DEF Next, Advance, Fail

LEMMA ArtefactInvariant == Exclusive => (Spec => []ArtefactInv)
<1> SUFFICES ASSUME Exclusive PROVE Spec => []ArtefactInv
  OBVIOUS
<1>1. Init => ArtefactInv
  BY DEF Init, ArtefactInv, ArtefactsOf, ProvenanceOrder, Holds, Live, Steps, Working
<1>2. TypeOK /\ EvaluationInv /\ ArtefactInv /\ [Next]_vars => ArtefactInv'
  BY ArtefactInvStep
<1> QED
  BY <1>1, <1>2, TypeCorrect, EvaluationInvariant, PTL DEF Spec

(* With exclusive launches the report is written after COMPLETE, and       *)
(* COMPLETE after the evaluation and the whole manifest, whatever dies.    *)
THEOREM ArtefactsInOrder == Exclusive => (Spec => []ProvenanceOrder)
<1> SUFFICES ASSUME Exclusive PROVE Spec => []ProvenanceOrder
  OBVIOUS
<1>1. ArtefactInv => ProvenanceOrder
  BY DEF ArtefactInv
<1> QED
  BY <1>1, ArtefactInvariant, PTL

-------------------------------------------------------------------------------
(* The story of the marker.                                                *)

(* One more line, the one the story calls for.                             *)
LEMMA FollowsExtended ==
    ASSUME NEW m \in Seq(Lines), NEW line \in Lines, NEW h, Len(h) \in Nat,
           Follows(m, h), Len(m) + 1 <= Len(h), line.state = h[Len(m) + 1]
    PROVE  Follows(Extended(m, TRUE, line), h)
<1> DEFINE e == Extended(m, TRUE, line)
<1>1. /\ Len(e) = Len(m) + 1
      /\ \A i \in 1 .. Len(m) : e[i] = m[i]
      /\ e[Len(m) + 1] = line
  BY WholeExtended
<1>2. ASSUME NEW i \in 1 .. Len(m) + 1 PROVE e[i].state = h[i]
  <2>1. i \in 1 .. Len(m) \/ i = Len(m) + 1
    OBVIOUS
  <2> QED
    BY <1>1, <2>1 DEF Follows
<1> QED
  BY <1>1, <1>2 DEF Follows

LEMMA TheStories ==
    /\ Len(Once) = 4 /\ Len(Twice) = 5
    /\ Once[1] = "STAGE1_STARTED" /\ Once[2] = "STAGE1_COMPLETE"
    /\ Once[3] = "STAGE2_STARTED" /\ Once[4] = "COMPLETE"
    /\ Twice[1] = "STAGE1_STARTED" /\ Twice[2] = "STAGE1_STARTED"
    /\ Twice[3] = "STAGE1_COMPLETE" /\ Twice[4] = "STAGE2_STARTED"
    /\ Twice[5] = "COMPLETE"
BY DEF Once, Twice

(* The line of each stage continues the story, from where that stage is    *)
(* reached.                                                                *)
LEMMA StoryGoesOn ==
    ASSUME NEW m \in Seq(Lines), NEW line \in Lines,
           Follows(m, Once) \/ Follows(m, Twice)
    PROVE  LET e == Extended(m, TRUE, line) IN
           /\ line.state = "STAGE1_STARTED" /\ m = <<>> => Begun(e, "fresh_build")
           /\ line.state = "STAGE1_STARTED" /\ Len(m) = 1 => Begun(e, "restart_build")
           /\ \A mode_ : line.state = "STAGE1_COMPLETE" /\ mode_ # "resume_evaluate"
                         /\ Begun(m, mode_) => Reached(e, 2)
           /\ line.state = "STAGE2_STARTED" /\ Reached(m, 2) => Reached(e, 3)
           /\ line.state = "COMPLETE" /\ Reached(m, 3) => Reached(e, 4)
<1> DEFINE e == Extended(m, TRUE, line)
<1>0. Len(e) = Len(m) + 1
  BY WholeExtended, Zenon
<1>1. ASSUME NEW h, Len(h) \in Nat, Follows(m, h), Len(m) + 1 <= Len(h),
             line.state = h[Len(m) + 1]
      PROVE  Follows(e, h)
  BY <1>1, FollowsExtended, Zenon
<1> HIDE DEF e
<1>2. ASSUME NEW k \in 0 .. 3, Len(m) = k, Follows(m, Once), line.state = Once[k + 1]
      PROVE  Len(e) = k + 1 /\ Follows(e, Once)
  <2>1. Len(Once) = 4 /\ k + 1 <= 4
    BY TheStories
  <2>2. /\ Len(Once) \in Nat /\ Len(m) + 1 <= Len(Once) /\ line.state = Once[Len(m) + 1]
        /\ Len(m) + 1 = k + 1
    BY <1>2, <2>1
  <2>3. Follows(e, Once)
    BY <1>1, <1>2, <2>2, Zenon
  <2> QED
    BY <1>0, <2>2, <2>3, Zenon
<1>3. ASSUME NEW k \in 0 .. 4, Len(m) = k, Follows(m, Twice), line.state = Twice[k + 1]
      PROVE  Len(e) = k + 1 /\ Follows(e, Twice)
  <2>1. Len(Twice) = 5 /\ k + 1 <= 5
    BY TheStories
  <2>2. Len(Twice) \in Nat /\ Len(m) + 1 <= Len(Twice) /\ line.state = Twice[Len(m) + 1]
    BY <1>3, <2>1
  <2>3. Follows(e, Twice)
    BY <1>1, <1>3, <2>2, Zenon
  <2> QED
    BY <1>0, <1>3, <2>3
<1>4. line.state = "STAGE1_STARTED" /\ m = <<>> => Begun(e, "fresh_build")
  <2>1. m = <<>> => Len(m) = 0 /\ Follows(m, Once)
    BY TheStories DEF Follows
  <2>2. Once[0 + 1] = "STAGE1_STARTED"
    BY TheStories
  <2> QED
    BY <1>2, <2>1, <2>2 DEF Begun
<1>5. line.state = "STAGE1_STARTED" /\ Len(m) = 1 => Begun(e, "restart_build")
  <2>1. Len(m) = 1 => Follows(m, Twice)
    BY TheStories DEF Follows
  <2>2. Twice[1 + 1] = "STAGE1_STARTED"
    BY TheStories
  <2> QED
    BY <1>3, <2>1, <2>2 DEF Begun
<1>6. ASSUME NEW mode_, line.state = "STAGE1_COMPLETE", mode_ # "resume_evaluate",
             Begun(m, mode_)
      PROVE  Reached(e, 2)
  <2>1. Once[1 + 1] = "STAGE1_COMPLETE" /\ Twice[2 + 1] = "STAGE1_COMPLETE"
    BY TheStories
  <2> QED
    BY <1>2, <1>3, <1>6, <2>1 DEF Begun, Reached
<1>7. line.state = "STAGE2_STARTED" /\ Reached(m, 2) => Reached(e, 3)
  <2>1. Once[2 + 1] = "STAGE2_STARTED" /\ Twice[3 + 1] = "STAGE2_STARTED"
    BY TheStories
  <2> QED
    BY <1>2, <1>3, <2>1 DEF Reached
<1>8. line.state = "COMPLETE" /\ Reached(m, 3) => Reached(e, 4)
  <2>1. Once[3 + 1] = "COMPLETE" /\ Twice[4 + 1] = "COMPLETE"
    BY TheStories
  <2> QED
    BY <1>2, <1>3, <2>1 DEF Reached
<1> QED
  BY <1>4, <1>5, <1>6, <1>7, <1>8, Zenon DEF e

(* What each answer of plan_next says of the marker.                       *)
LEMMA PlanNextMeans ==
    ASSUME NEW m, PlanNext(m) # "refuse"
    PROVE  /\ ~Sealed(m)
           /\ \/ PlanNext(m) = "resume_evaluate" /\ Holds(m, "STAGE1_COMPLETE")
              \/ PlanNext(m) = "fresh_build" /\ ~Holds(m, "STAGE1_COMPLETE")
                   /\ Count(m, "STAGE1_STARTED") = 0
              \/ PlanNext(m) = "restart_build" /\ ~Holds(m, "STAGE1_COMPLETE")
                   /\ Count(m, "STAGE1_STARTED") = 1
BY DEF PlanNext

(* And, in a marker that tells the story so far, how much of it is told.   *)
LEMMA PlanNextPlaces ==
    ASSUME NEW m \in Seq(Lines), PlanNext(m) # "refuse",
           Follows(m, Once) \/ Follows(m, Twice)
    PROVE  \/ PlanNext(m) = "fresh_build" /\ m = <<>>
           \/ PlanNext(m) = "restart_build" /\ Len(m) = 1
           \/ PlanNext(m) = "resume_evaluate" /\ Reached(m, 2)
<1>1. ~Holds(m, "STAGE2_STARTED")
  BY PlanNextMeans DEF Sealed
<1>2. /\ Follows(m, Once) => Len(m) <= 2
      /\ Follows(m, Twice) => Len(m) <= 3
  <2>1. Follows(m, Once) /\ Len(m) >= 3 => 3 \in DOMAIN m /\ m[3].state = "STAGE2_STARTED"
    BY TheStories DEF Follows
  <2>2. Follows(m, Twice) /\ Len(m) >= 4 => 4 \in DOMAIN m /\ m[4].state = "STAGE2_STARTED"
    BY TheStories DEF Follows
  <2> QED
    BY <1>1, <2>1, <2>2 DEF Holds
<1>3. CASE Holds(m, "STAGE1_COMPLETE")
  <2>1. PICK i \in 1 .. Len(m) : m[i].state = "STAGE1_COMPLETE"
    BY <1>3 DEF Holds
  <2>2. Follows(m, Once) => Len(m) = 2
    <3> SUFFICES ASSUME Follows(m, Once), Len(m) # 2 PROVE FALSE
      OBVIOUS
    <3>1. i = 1
      <4>1. Len(m) \in Nat /\ Len(m) <= 2
        BY <1>2
      <4>2. \A n \in Nat : \A j \in 1 .. n : n <= 2 /\ n # 2 => j = 1
        OBVIOUS
      <4> QED
        BY <2>1, <4>1, <4>2, Zenon
    <3> QED
      BY <2>1, <3>1, TheStories DEF Follows
  <2>3. Follows(m, Twice) => Len(m) = 3
    <3> SUFFICES ASSUME Follows(m, Twice), Len(m) # 3 PROVE FALSE
      OBVIOUS
    <3>1. i = 1 \/ i = 2
      <4>1. Len(m) \in Nat /\ Len(m) <= 3
        BY <1>2
      <4>2. \A n \in Nat : \A j \in 1 .. n : n <= 3 /\ n # 3 => j = 1 \/ j = 2
        OBVIOUS
      <4> QED
        BY <2>1, <4>1, <4>2, Zenon
    <3> QED
      BY <2>1, <3>1, TheStories DEF Follows
  <2> QED
    BY <1>3, <2>2, <2>3, PlanNextMeans DEF Reached
<1>4. CASE ~Holds(m, "STAGE1_COMPLETE")
  <2> DEFINE starts == {i \in DOMAIN m : m[i].state = "STAGE1_STARTED"}
  <2>1. starts = 1 .. Len(m) /\ Len(m) <= 2
    <3>1. Follows(m, Once) => Len(m) <= 1
      BY <1>2, <1>4, TheStories DEF Follows, Holds
    <3>2. Follows(m, Twice) => Len(m) <= 2
      BY <1>2, <1>4, TheStories DEF Follows, Holds
    <3>3. \A i \in 1 .. Len(m) : m[i].state = "STAGE1_STARTED"
      BY <3>1, <3>2, TheStories DEF Follows
    <3> QED
      BY <3>1, <3>2, <3>3
  <2>2. Count(m, "STAGE1_STARTED") = Len(m)
    <3>1. Len(m) \in Nat
      OBVIOUS
    <3>2. Cardinality(1 .. Len(m)) = IF 1 > Len(m) THEN 0 ELSE Len(m) - 1 + 1
      BY <3>1, FS_Interval
    <3>3. Count(m, "STAGE1_STARTED") = Cardinality(1 .. Len(m))
      BY <2>1, Zenon DEF Count
    <3> QED
      BY <3>1, <3>2, <3>3
  <2>3. Len(m) = 0 => m = <<>>
    OBVIOUS
  <2> QED
    BY <1>4, <2>2, <2>3, PlanNextMeans
<1> QED
  BY <1>3, <1>4

(* A marker that can still be read after an append was readable before it, *)
(* ended with a newline, and got the whole line.                           *)
LEMMA ReadableExtended ==
    ASSUME NEW m \in Seq(Lines), NEW nl \in BOOLEAN, NEW line \in Lines,
           m = <<>> => nl, ~Holds(Extended(m, nl, line), Torn)
    PROVE  /\ ~Holds(m, Torn) /\ line.state # Torn
           /\ Extended(m, nl, line) = Extended(m, TRUE, line)
<1>1. ~Holds(m, Torn) /\ nl /\ line.state # Torn
  BY TornExtended
<1>2. Extended(m, nl, line) = Extended(m, TRUE, line)
  BY <1>1, Zenon DEF Extended
<1> QED
  BY <1>1, <1>2

(* A step of a run that leaves the marker alone.                           *)
LEMMA StoryQuietStep ==
    ASSUME TypeOK, OneLive, StoryInv, NEW r \in Runs, Live(r),
           NEW next \in Steps \cup Ends, Goto(r, next), UNCHANGED <<marker, mode>>,
           \/ next \in {"plan"} \cup Ends
           \/ /\ pc[r] = "gate"
              /\ next = IF mode[r] = "resume_evaluate" THEN "read" ELSE "start1"
           \/ pc[r] = "read" /\ next = "assemble"
           \/ /\ pc[r] = "assemble"
              /\ next = IF mode[r] = "resume_evaluate" THEN "start2" ELSE "complete1"
           \/ pc[r] = "evaluate" /\ next = "manifest"
           \/ pc[r] = "manifest" /\ next = "complete"
    PROVE  StoryInv'
<1>1. /\ pc'[r] = next
      /\ \A q \in Runs : q # r => pc'[q] = pc[q] /\ pc[q] \notin Steps
  BY OnlyOneMoves
<1>2. ASSUME NEW q \in Runs, pc'[q] \in {"gate", "start1"}
      PROVE  ~Holds(marker, Torn)
  <2>1. q = r /\ pc[r] = "gate"
    BY <1>1, <1>2 DEF Steps, Ends
  <2> QED
    BY <2>1 DEF StoryInv
<1>3. ASSUME ~Holds(marker, Torn), NEW q \in Runs PROVE StageOf(q)'
  <2>1. CASE q # r
    BY <1>1, <2>1 DEF StageOf, Steps
  <2>2. CASE q = r
    <3>1. StageOf(r)
      BY <1>3 DEF StoryInv
    <3> QED
      BY <1>1, <2>2, <3>1 DEF StageOf, Ends, Begun
  <2> QED
    BY <2>1, <2>2
<1> QED
  BY <1>2, <1>3 DEF StoryInv

(* A step that appends the line that the story calls for, or dies over it. *)
LEMMA StoryAppendStep ==
    ASSUME TypeOK, OneLive, StoryInv, NEW r \in Runs, pc[r] \in DOMAIN Appends,
           NEW s \in {Torn, Appends[pc[r]]}, UNCHANGED mode,
           marker' = Extended(marker, newline, Line(s, r)),
           NEW next \in Steps \cup Ends, Goto(r, next),
           \/ next = "dead"
           \/ pc[r] = "start1" /\ next = "read"
           \/ pc[r] = "complete1" /\ next = "start2"
           \/ pc[r] = "start2" /\ next = "evaluate"
           \/ pc[r] = "complete" /\ next = "report"
    PROVE  StoryInv'
<1>0. Live(r) /\ s \in States \cup {Torn}
  BY AppendsType DEF Live
<1>1. /\ pc'[r] = next
      /\ \A q \in Runs : q # r => pc'[q] = pc[q] /\ pc[q] \notin Steps
  BY <1>0, OnlyOneMoves
<1>2. Line(s, r) \in Lines /\ Line(s, r).state = s
  BY <1>0, LineType
<1>3. \A q \in Runs : pc'[q] \notin {"gate", "start1"}
  BY <1>1 DEF Steps
<1>4. ASSUME ~Holds(marker', Torn)
      PROVE  /\ Follows(marker', Once) \/ Follows(marker', Twice)
             /\ next # "dead" => StageOf(r)'
  <2>1. /\ ~Holds(marker, Torn)
        /\ s = Appends[pc[r]]
        /\ marker' = Extended(marker, TRUE, Line(s, r))
    BY <1>2, <1>4, ReadableExtended DEF TypeOK
  <2>2. StageOf(r) /\ (Follows(marker, Once) \/ Follows(marker, Twice))
    BY <2>1 DEF StoryInv
  <2>3. /\ s = "STAGE1_STARTED" /\ marker = <<>> => Begun(marker', "fresh_build")
        /\ s = "STAGE1_STARTED" /\ Len(marker) = 1 => Begun(marker', "restart_build")
        /\ s = "STAGE1_COMPLETE" /\ mode[r] # "resume_evaluate" /\ Begun(marker, mode[r])
              => Reached(marker', 2)
        /\ s = "STAGE2_STARTED" /\ Reached(marker, 2) => Reached(marker', 3)
        /\ s = "COMPLETE" /\ Reached(marker, 3) => Reached(marker', 4)
    BY <1>2, <2>1, <2>2, StoryGoesOn, Zenon DEF TypeOK
  <2>4. CASE pc[r] = "start1"
    <3>1. Begun(marker', mode[r])
      BY <2>1, <2>2, <2>3, <2>4 DEF StageOf, Appends
    <3> QED
      BY <1>1, <2>4, <3>1 DEF StageOf, Begun, Reached
  <2>5. CASE pc[r] = "complete1"
    <3>1. Reached(marker', 2)
      BY <2>1, <2>2, <2>3, <2>5 DEF StageOf, Appends
    <3> QED
      BY <1>1, <2>5, <3>1 DEF StageOf, Reached
  <2>6. CASE pc[r] = "start2"
    <3>1. Reached(marker', 3)
      BY <2>1, <2>2, <2>3, <2>6 DEF StageOf, Appends
    <3> QED
      BY <1>1, <2>6, <3>1 DEF StageOf, Reached
  <2>7. CASE pc[r] = "complete"
    <3>1. Reached(marker', 4)
      BY <2>1, <2>2, <2>3, <2>7 DEF StageOf, Appends
    <3> QED
      BY <1>1, <2>7, <3>1 DEF StageOf, Reached
  <2> QED
    BY <2>4, <2>5, <2>6, <2>7 DEF Appends
<1>5. ASSUME ~Holds(marker', Torn), NEW q \in Runs PROVE StageOf(q)'
  <2>1. CASE q = r /\ next # "dead"
    BY <1>4, <1>5, <2>1
  <2>2. CASE ~(q = r /\ next # "dead")
    <3>1. pc'[q] \notin Steps
      BY <1>1, <2>2 DEF Steps
    <3> QED
      BY <3>1 DEF StageOf, Steps
  <2> QED
    BY <2>1, <2>2
<1> QED
  BY <1>3, <1>4, <1>5 DEF StoryInv

LEMMA StoryInvStep ==
    ASSUME Exclusive, TypeOK, EvaluationInv, StoryInv, [Next]_vars
    PROVE  StoryInv'
<1>0. OneLive
  BY DEF EvaluationInv
<1>1. ASSUME NEW r \in Runs, Preflight(r) PROVE StoryInv'
  <2>1. /\ UNCHANGED marker
        /\ \A q \in Runs : pc'[q] = "checklist" \/ (pc'[q] = pc[q] /\ pc[q] \notin Steps)
    BY <1>1 DEF Preflight, Goto, disk, TypeOK, Live
  <2> QED
    BY <2>1 DEF StoryInv, StageOf, Steps
<1>2. ASSUME NEW r \in Runs,
             \/ Checklist(r) \/ OpenGate(r) \/ GateShut(r) \/ ReadHoldout(r)
             \/ Assemble(r) \/ EvaluateSurvivors(r) \/ WriteManifest(r)
             \/ WriteReport(r) \/ Die(r) \/ DieEvaluating(r) \/ DieWriting(r)
      PROVE  StoryInv'
  <2>1. Live(r) /\ UNCHANGED <<marker, mode>>
    BY <1>2
       DEF Checklist, OpenGate, GateShut, ReadHoldout, Assemble, EvaluateSurvivors,
           WriteManifest, WriteReport, Die, DieEvaluating, DieWriting, Live, Steps, disk
  <2>2. PICK next \in Steps \cup Ends :
          /\ Goto(r, next)
          /\ \/ next \in {"plan"} \cup Ends
             \/ /\ pc[r] = "gate"
                /\ next = IF mode[r] = "resume_evaluate" THEN "read" ELSE "start1"
             \/ pc[r] = "read" /\ next = "assemble"
             \/ /\ pc[r] = "assemble"
                /\ next = IF mode[r] = "resume_evaluate" THEN "start2" ELSE "complete1"
             \/ pc[r] = "evaluate" /\ next = "manifest"
             \/ pc[r] = "manifest" /\ next = "complete"
    BY <1>2
       DEF Checklist, OpenGate, GateShut, ReadHoldout, Assemble, EvaluateSurvivors,
           WriteManifest, WriteReport, Die, DieEvaluating, DieWriting, Steps, Ends
  <2> QED
    BY <1>0, <2>1, <2>2, StoryQuietStep
<1>3. ASSUME NEW r \in Runs, Plan(r) PROVE StoryInv'
  <2>1. Live(r) /\ UNCHANGED marker
    BY <1>3 DEF Plan, Live, Steps, disk
  <2>2. CASE PlanNext(marker) = "refuse"
    <3>1. Goto(r, "refused") /\ UNCHANGED mode
      BY <1>3, <2>2 DEF Plan
    <3> QED
      BY <1>0, <2>1, <3>1, StoryQuietStep DEF Ends
  <2>3. CASE PlanNext(marker) # "refuse"
    <3>1. Goto(r, "gate") /\ mode'[r] = PlanNext(marker)
      BY <1>3, <2>3 DEF Plan, TypeOK
    <3>2. /\ pc'[r] = "gate"
          /\ \A q \in Runs : q # r => pc'[q] = pc[q] /\ pc[q] \notin Steps
      BY <1>0, <2>1, <3>1, OnlyOneMoves DEF Steps
    <3>3. ~Holds(marker, Torn)
      BY <2>3, PlanNextMeans DEF Sealed
    <3>4. Follows(marker, Once) \/ Follows(marker, Twice)
      BY <3>3 DEF StoryInv
    <3>5. \/ mode'[r] = "fresh_build" /\ marker = <<>>
          \/ mode'[r] = "restart_build" /\ Len(marker) = 1
          \/ mode'[r] = "resume_evaluate" /\ Reached(marker, 2)
      BY <2>3, <3>1, <3>4, PlanNextPlaces DEF TypeOK
    <3>6. StageOf(r)'
      BY <2>1, <3>2, <3>5 DEF StageOf
    <3>7. ASSUME NEW q \in Runs, q # r PROVE StageOf(q)'
      BY <3>2, <3>7 DEF StageOf, Steps
    <3> QED
      BY <2>1, <3>3, <3>4, <3>6, <3>7 DEF StoryInv
  <2> QED
    BY <2>2, <2>3
<1>4. ASSUME NEW r \in Runs,
             \/ StartStage1(r) \/ CompleteStage1(r)
             \/ StartStage2(r) \/ CompleteStage2(r)
      PROVE  StoryInv'
  <2>1. PICK next \in Steps \cup Ends :
          /\ Goto(r, next)
          /\ \/ pc[r] = "start1" /\ next = "read"
             \/ pc[r] = "complete1" /\ next = "start2"
             \/ pc[r] = "start2" /\ next = "evaluate"
             \/ pc[r] = "complete" /\ next = "report"
    BY <1>4 DEF StartStage1, CompleteStage1, StartStage2, CompleteStage2, AppendMarker,
                Steps
  <2>2. /\ pc[r] \in DOMAIN Appends /\ UNCHANGED mode
        /\ marker' = Extended(marker, newline, Line(Appends[pc[r]], r))
    BY <1>4 DEF StartStage1, CompleteStage1, StartStage2, CompleteStage2, AppendMarker,
                Appends
  <2> QED
    BY <1>0, <2>1, <2>2, StoryAppendStep
<1>5. ASSUME NEW r \in Runs, DieAppending(r) PROVE StoryInv'
  <2>1. Goto(r, "dead") /\ UNCHANGED mode /\ pc[r] \in DOMAIN Appends
    BY <1>5 DEF DieAppending
  <2>2. PICK s \in {Torn, Appends[pc[r]]} :
            marker' = Extended(marker, newline, Line(s, r))
    BY <1>5 DEF DieAppending
  <2> QED
    BY <1>0, <2>1, <2>2, StoryAppendStep DEF Ends
<1>6. CASE Rehearse \/ ConditionsChange \/ UNCHANGED vars
  <2>1. UNCHANGED <<pc, marker, mode>>
    BY <1>6 DEF Rehearse, ConditionsChange, vars, disk
  <2> QED
    BY <2>1 DEF StoryInv, StageOf
<1> QED
  BY <1>1, <1>2, <1>3, <1>4, <1>5, <1>6 DEF Next, Advance, Fail

LEMMA StoryInvariant == Exclusive => (Spec => []StoryInv)
<1> SUFFICES ASSUME Exclusive PROVE Spec => []StoryInv
  OBVIOUS
<1>1. Init => StoryInv
  <2> SUFFICES ASSUME Init PROVE StoryInv
    OBVIOUS
  <2>1. Follows(marker, Once)
    BY TheStories DEF Init, Follows
  <2>2. \A r \in Runs : pc[r] = "idle"
    BY DEF Init
  <2> QED
    BY <2>1, <2>2 DEF StoryInv, StageOf
<1>2. TypeOK /\ EvaluationInv /\ StoryInv /\ [Next]_vars => StoryInv'
  BY StoryInvStep
<1> QED
  BY <1>1, <1>2, TypeCorrect, EvaluationInvariant, PTL DEF Spec

(* With exclusive launches, a marker that can be read tells a story of the *)
(* stage machine, over all the runs that wrote to it.                      *)
THEOREM MarkerIsAStory == Exclusive => (Spec => []MarkerTellsTheStages)
<1> SUFFICES ASSUME Exclusive PROVE Spec => []MarkerTellsTheStages
  OBVIOUS
<1>1. ASSUME TypeOK, NEW h, Follows(marker, h), Len(h) \in Nat
      PROVE  Len(marker) <= Len(h) /\ StatesOf(marker) = SubSeq(h, 1, Len(marker))
  <2>1. Len(marker) <= Len(h) /\ \A i \in 1 .. Len(marker) : marker[i].state = h[i]
    BY <1>1 DEF Follows
  <2>2. Len(marker) \in Nat /\ DOMAIN marker = 1 .. Len(marker)
    BY <1>1 DEF TypeOK
  <2>3. StatesOf(marker) = [i \in 1 .. Len(marker) |-> h[i]]
    BY <2>1, <2>2 DEF StatesOf
  <2>4. SubSeq(h, 1, Len(marker)) = [i \in 1 .. Len(marker) |-> h[i]]
    BY <2>2
  <2> QED
    BY <2>1, <2>3, <2>4
<1>2. TypeOK /\ StoryInv => MarkerTellsTheStages
  <2> SUFFICES ASSUME TypeOK, StoryInv, ~Holds(marker, Torn)
               PROVE  \E h \in FullHistories :
                        /\ Len(marker) <= Len(h)
                        /\ StatesOf(marker) = SubSeq(h, 1, Len(marker))
    BY DEF MarkerTellsTheStages
  <2>1. Follows(marker, Once) \/ Follows(marker, Twice)
    BY DEF StoryInv
  <2>2. Once \in FullHistories /\ Twice \in FullHistories
    BY DEF FullHistories, Once, Twice
  <2>3. Len(Once) \in Nat /\ Len(Twice) \in Nat
    BY TheStories
  <2> QED
    BY <1>1, <2>1, <2>2, <2>3
<1> QED
  BY <1>2, TypeCorrect, StoryInvariant, PTL

-------------------------------------------------------------------------------
(* The restart budget.                                                     *)

\* What a build of mode m finds of its own kind, once it has begun.
Spent(m) ==
    \/ m = "fresh_build" /\ marker # <<>>
    \/ m = "restart_build" /\ (Holds(marker, Torn) \/ Len(marker) >= 2)

(* BudgetInv, one mode at a time.                                          *)
LEMMA BudgetByMode ==
    BudgetInv <=>
      \A m \in {"fresh_build", "restart_build"} :
        /\ \A q, r \in Runs : Builds(q, m) /\ Builds(r, m) => q = r
        /\ \A r \in Runs : Builds(r, m) => Spent(m)
BY DEF BudgetInv, Spent

(* What is spent stays spent, whatever is appended.                        *)
LEMMA SpentForGood ==
    ASSUME TypeOK, NEW line \in Lines, marker' = Extended(marker, newline, line),
           NEW m, Spent(m)
    PROVE  Spent(m)'
<1>1. marker' # <<>>
  BY ExtendedType DEF TypeOK
<1>2. Holds(marker, Torn) => Holds(marker', Torn)
  BY TornExtended DEF TypeOK
<1>3. ~Holds(marker', Torn) => Len(marker') = Len(marker) + 1
  <2> SUFFICES ASSUME ~Holds(marker', Torn) PROVE Len(marker') = Len(marker) + 1
    OBVIOUS
  <2>1. marker' = Extended(marker, TRUE, line)
    BY ReadableExtended DEF TypeOK
  <2> QED
    BY <2>1, WholeExtended, Zenon DEF TypeOK
<1>4. Len(marker) \in Nat
  BY DEF TypeOK
<1> QED
  BY <1>1, <1>2, <1>3, <1>4 DEF Spent

(* A step that begins no build and appends at most a line.                 *)
LEMMA BudgetQuietStep ==
    ASSUME TypeOK, BudgetInv,
           UNCHANGED marker \/ \E line \in Lines : marker' = Extended(marker, newline, line),
           \A r \in Runs : \A m \in {"fresh_build", "restart_build"} :
               Builds(r, m)' => Builds(r, m)
    PROVE  BudgetInv'
<1>1. ASSUME NEW m, Spent(m) PROVE Spent(m)'
  <2>1. CASE UNCHANGED marker
    BY <1>1, <2>1 DEF Spent
  <2>2. CASE \E line \in Lines : marker' = Extended(marker, newline, line)
    BY <1>1, <2>2, SpentForGood
  <2> QED
    BY <2>1, <2>2
<1>2. \A m \in {"fresh_build", "restart_build"} :
        /\ \A q, r \in Runs : Builds(q, m)' /\ Builds(r, m)' => q = r
        /\ \A r \in Runs : Builds(r, m)' => Spent(m)'
  BY <1>1, BudgetByMode
<1> QED
  BY <1>2 DEF BudgetInv, Spent

LEMMA BudgetInvStep ==
    ASSUME Exclusive, TypeOK, ReadersInv, StoryInv, BudgetInv, [Next]_vars
    PROVE  BudgetInv'
<1>1. ASSUME NEW r \in Runs, StartStage1(r) PROVE BudgetInv'
  <2>1. /\ pc[r] = "start1" /\ Goto(r, "read") /\ UNCHANGED <<mode, readers>>
        /\ marker' = Extended(marker, newline, Line("STAGE1_STARTED", r))
    BY <1>1 DEF StartStage1, AppendMarker, Appends
  <2>2. Line("STAGE1_STARTED", r) \in Lines
    BY LineType DEF States
  <2>3. ~Holds(marker, Torn) /\ StageOf(r)
    BY <2>1 DEF StoryInv
  <2>4. /\ mode[r] \in {"fresh_build", "restart_build"} /\ ~Spent(mode[r])
        /\ mode[r] = "restart_build" => Len(marker) = 1
    <3>1. \/ mode[r] = "fresh_build" /\ marker = <<>>
          \/ mode[r] = "restart_build" /\ Len(marker) = 1
      BY <2>1, <2>3 DEF StageOf
    <3>2. CASE mode[r] = "fresh_build" /\ marker = <<>>
      BY <3>2 DEF Spent
    <3>3. CASE mode[r] = "restart_build" /\ Len(marker) = 1
      BY <2>3, <3>3 DEF Spent
    <3> QED
      BY <3>1, <3>2, <3>3
  <2>5. \A q \in Runs : ~Builds(q, mode[r])
    BY <2>4, BudgetByMode
  <2>6. \A q \in Runs : \A m \in {"fresh_build", "restart_build"} :
          Builds(q, m)' => Builds(q, m) \/ (q = r /\ m = mode[r])
    BY <2>1 DEF Builds, Goto, TypeOK
  <2>7. \A m : m = mode[r] => Spent(m)'
    <3>1. marker' # <<>>
      BY <2>1, <2>2, ExtendedType DEF TypeOK
    <3>2. ~Holds(marker', Torn) => Len(marker') = Len(marker) + 1
      <4> SUFFICES ASSUME ~Holds(marker', Torn) PROVE Len(marker') = Len(marker) + 1
        OBVIOUS
      <4>1. marker' = Extended(marker, TRUE, Line("STAGE1_STARTED", r))
        BY <2>1, <2>2, ReadableExtended DEF TypeOK
      <4> QED
        BY <2>2, <4>1, WholeExtended, Zenon DEF TypeOK
    <3> QED
      BY <2>1, <2>4, <3>1, <3>2 DEF Spent
  <2>8. \A m : Spent(m) => Spent(m)'
    BY <2>1, <2>2, SpentForGood
  <2>9. \A m \in {"fresh_build", "restart_build"} :
          /\ \A p, q \in Runs : Builds(p, m)' /\ Builds(q, m)' => p = q
          /\ \A q \in Runs : Builds(q, m)' => Spent(m)'
    <3> SUFFICES ASSUME NEW m \in {"fresh_build", "restart_build"}
                 PROVE  /\ \A p, q \in Runs : Builds(p, m)' /\ Builds(q, m)' => p = q
                        /\ \A q \in Runs : Builds(q, m)' => Spent(m)'
      OBVIOUS
    <3>1. CASE m = mode[r]
      BY <2>5, <2>6, <2>7, <3>1
    <3>2. CASE m # mode[r]
      <4>1. \A q \in Runs : Builds(q, m)' => Builds(q, m)
        BY <2>6, <3>2
      <4>2. /\ \A p, q \in Runs : Builds(p, m) /\ Builds(q, m) => p = q
            /\ \A q \in Runs : Builds(q, m) => Spent(m)
        BY BudgetByMode, Zenon
      <4> QED
        BY <2>8, <4>1, <4>2
    <3> QED
      BY <3>1, <3>2
  <2> QED
    BY <2>1, <2>9 DEF BudgetInv, Spent
<1>2. ASSUME NEW r \in Runs, CompleteStage1(r) \/ StartStage2(r) \/ CompleteStage2(r)
      PROVE  BudgetInv'
  <2>1. /\ pc[r] \in DOMAIN Appends /\ pc'[r] # "read"
        /\ \A q \in Runs : q # r => pc'[q] = pc[q]
        /\ UNCHANGED <<mode, readers>>
        /\ marker' = Extended(marker, newline, Line(Appends[pc[r]], r))
    BY <1>2 DEF CompleteStage1, StartStage2, CompleteStage2, AppendMarker, Appends,
                Goto, TypeOK
  <2>2. Line(Appends[pc[r]], r) \in Lines
    BY <2>1, AppendsType, LineType
  <2>3. \A q \in Runs : \A m : Builds(q, m)' => Builds(q, m)
    BY <2>1 DEF Builds
  <2> QED
    BY <2>1, <2>2, <2>3, BudgetQuietStep
<1>3. ASSUME NEW r \in Runs, DieAppending(r) PROVE BudgetInv'
  <2>1. /\ pc[r] \in DOMAIN Appends /\ pc'[r] # "read"
        /\ \A q \in Runs : q # r => pc'[q] = pc[q]
        /\ UNCHANGED <<mode, readers>>
    BY <1>3 DEF DieAppending, Goto, TypeOK
  <2>2. PICK s \in {Torn, Appends[pc[r]]} :
            marker' = Extended(marker, newline, Line(s, r))
    BY <1>3 DEF DieAppending
  <2>3. Line(s, r) \in Lines
    BY <2>1, AppendsType, LineType
  <2>4. \A q \in Runs : \A m : Builds(q, m)' => Builds(q, m)
    BY <2>1 DEF Builds
  <2> QED
    BY <2>2, <2>3, <2>4, BudgetQuietStep
<1>4. ASSUME NEW r \in Runs, Plan(r) PROVE BudgetInv'
  <2>1. /\ r \notin readers /\ pc'[r] # "read"
        /\ \A q \in Runs : q # r => pc'[q] = pc[q] /\ mode'[q] = mode[q]
        /\ UNCHANGED <<marker, readers>>
    BY <1>4 DEF Plan, ReadersInv, BeforeRead, Goto, TypeOK, disk
  <2>2. \A q \in Runs : \A m : Builds(q, m)' => Builds(q, m)
    BY <2>1 DEF Builds
  <2> QED
    BY <2>1, <2>2, BudgetQuietStep
<1>5. ASSUME NEW r \in Runs, ReadHoldout(r) PROVE BudgetInv'
  <2>1. \A q \in Runs : \A m : Builds(q, m)' => Builds(q, m)
    BY <1>5 DEF ReadHoldout, Builds, Goto, TypeOK
  <2> QED
    BY <1>5, <2>1, BudgetQuietStep DEF ReadHoldout, disk
<1>6. ASSUME NEW r \in Runs,
             \/ Preflight(r) \/ Checklist(r) \/ OpenGate(r) \/ GateShut(r)
             \/ Assemble(r) \/ EvaluateSurvivors(r) \/ WriteManifest(r)
             \/ WriteReport(r) \/ Die(r) \/ DieEvaluating(r) \/ DieWriting(r)
      PROVE  BudgetInv'
  <2>1. /\ UNCHANGED <<marker, mode, readers>>
        /\ pc'[r] = "read" => mode[r] = "resume_evaluate"
        /\ \A q \in Runs : q # r => pc'[q] = pc[q]
    BY <1>6
       DEF Preflight, Checklist, OpenGate, GateShut, Assemble, EvaluateSurvivors,
           WriteManifest, WriteReport, Die, DieEvaluating, DieWriting, Goto, TypeOK, disk
  <2>2. \A q \in Runs : \A m \in {"fresh_build", "restart_build"} :
          Builds(q, m)' => Builds(q, m)
    BY <2>1 DEF Builds
  <2> QED
    BY <2>1, <2>2, BudgetQuietStep
<1>7. CASE Rehearse \/ ConditionsChange \/ UNCHANGED vars
  <2>1. UNCHANGED <<pc, marker, mode, readers>>
    BY <1>7 DEF Rehearse, ConditionsChange, vars, disk
  <2> QED
    BY <2>1, BudgetQuietStep DEF Builds
<1> QED
  BY <1>1, <1>2, <1>3, <1>4, <1>5, <1>6, <1>7 DEF Next, Advance, Fail

LEMMA BudgetInvariant == Exclusive => (Spec => [](ReadersInv /\ BudgetInv))
<1> SUFFICES ASSUME Exclusive PROVE Spec => [](ReadersInv /\ BudgetInv)
  OBVIOUS
<1>1. Init => ReadersInv /\ BudgetInv
  BY DEF Init, ReadersInv, BudgetInv, Builds, BeforeRead, AfterRead, Working
<1>2. TypeOK /\ ReadersInv /\ [Next]_vars => ReadersInv'
  BY ReadersInvStep
<1>3. TypeOK /\ ReadersInv /\ StoryInv /\ BudgetInv /\ [Next]_vars => BudgetInv'
  BY BudgetInvStep
<1> QED
  BY <1>1, <1>2, <1>3, TypeCorrect, StoryInvariant, PTL DEF Spec

(* "ONE documented restart": with exclusive launches at most two runs read *)
(* the holdout to build the panel, whatever dies and at whatever point.    *)
THEOREM OneRestart == Exclusive => (Spec => []RestartBudget)
<1> SUFFICES ASSUME Exclusive PROVE Spec => []RestartBudget
  OBVIOUS
<1>1. ReadersInv /\ BudgetInv /\ TypeOK => RestartBudget
  <2> SUFFICES ASSUME ReadersInv, BudgetInv, TypeOK PROVE RestartBudget
    OBVIOUS
  <2> DEFINE builders == {r \in readers : mode[r] # "resume_evaluate"}
             By(m) == {r \in builders : mode[r] = m}
  <2>1. builders = By("fresh_build") \cup By("restart_build")
    BY DEF ReadersInv, Modes, TypeOK
  <2>2. ASSUME NEW m \in {"fresh_build", "restart_build"}
        PROVE  \E x : By(m) \subseteq {x}
    BY <2>2 DEF BudgetInv, Builds, TypeOK
  <2>3. PICK x, y : builders \subseteq {x} \cup {y}
    BY <2>1, <2>2
  <2>4. IsFiniteSet({x} \cup {y}) /\ Cardinality({x} \cup {y}) <= 2
    <3>1. IsFiniteSet({x}) /\ Cardinality({x}) = 1
      BY FS_Singleton
    <3>2. Cardinality({x} \cup {y}) =
            IF y \in {x} THEN Cardinality({x}) ELSE Cardinality({x}) + 1
      BY <3>1, FS_AddElement
    <3>3. IsFiniteSet({x} \cup {y})
      BY <3>1, FS_AddElement
    <3> QED
      BY <3>1, <3>2, <3>3
  <2>5. /\ Cardinality(builders) <= Cardinality({x} \cup {y})
        /\ IsFiniteSet(builders)
    BY <2>3, <2>4, FS_Subset
  <2>6. Cardinality(builders) \in Nat /\ Cardinality({x} \cup {y}) \in Nat
    BY <2>4, <2>5, FS_CardinalityType
  <2> QED
    BY <2>4, <2>5, <2>6 DEF RestartBudget
<1> QED
  BY <1>1, TypeCorrect, BudgetInvariant, PTL

-------------------------------------------------------------------------------
(* The promise.                                                            *)

LEMMA VerdictIs ==
    /\ report # "absent" => Verdict = "reported"
    /\ report = "absent" /\ Holds(marker, "COMPLETE") => Verdict = "recorded"
    /\ report = "absent" /\ ~Holds(marker, "COMPLETE") => Verdict = "none"
    /\ report' # "absent" => Verdict' = "reported"
    /\ report' = "absent" /\ Holds(marker', "COMPLETE") => Verdict' = "recorded"
    /\ report' = "absent" /\ ~Holds(marker', "COMPLETE") => Verdict' = "none"
BY Zenon DEF Verdict

(* A step that reads nothing, evaluates nothing, and leaves the report and *)
(* what the marker says of COMPLETE as they were, is a stutter.            *)
LEMMA PromiseStutters ==
    ASSUME UNCHANGED <<readers, evaluators, report>>,
           Holds(marker', "COMPLETE") <=> Holds(marker, "COMPLETE")
    PROVE  UNCHANGED <<readers, evaluators, Verdict>>
<1>1. UNCHANGED Verdict
  BY VerdictIs
<1> QED
  BY <1>1

LEMMA PromiseStep ==
    ASSUME TypeOK, EvaluationInv, ReadersInv, ArtefactInv, [Next]_vars
    PROVE  Promise!Next \/ UNCHANGED <<readers, evaluators, Verdict>>
<1>1. ASSUME NEW r \in Runs, ReadHoldout(r) PROVE Promise!Next
  <2>1. evaluators = {}
    BY <1>1 DEF ReadHoldout, EvaluationInv, CommittedFindsNothing, Committed
  <2>2. r \notin readers
    BY <1>1 DEF ReadHoldout, ReadersInv, BeforeRead
  <2>3. readers' = readers \cup {r} /\ UNCHANGED <<evaluators, report, marker>>
    BY <1>1 DEF ReadHoldout, disk
  <2>4. UNCHANGED Verdict
    BY <2>3, VerdictIs
  <2>5. Promise!Read(r)
    BY <2>1, <2>2, <2>3, <2>4 DEF Promise!Read
  <2> QED
    BY <2>5 DEF Promise!Next
<1>2. ASSUME NEW r \in Runs, EvaluateSurvivors(r) \/ DieEvaluating(r)
      PROVE  Promise!Next
  <2>1. /\ pc[r] = "evaluate"
        /\ evaluators' = evaluators \cup {r} /\ UNCHANGED <<readers, report, marker>>
    BY <1>2 DEF EvaluateSurvivors, DieEvaluating, disk
  <2>2. evaluators = {}
    BY <2>1 DEF EvaluationInv, EvaluatingIsSealed
  <2>3. r \in readers
    BY <2>1 DEF ReadersInv, AfterRead
  <2>4. UNCHANGED Verdict
    BY <2>1, VerdictIs
  <2>5. Promise!Evaluate(r)
    BY <2>1, <2>2, <2>3, <2>4 DEF Promise!Evaluate
  <2> QED
    BY <2>5 DEF Promise!Next
<1>3. ASSUME NEW r \in Runs,
             \/ StartStage1(r) \/ CompleteStage1(r) \/ StartStage2(r)
             \/ CompleteStage2(r) \/ DieAppending(r)
      PROVE  Promise!Next \/ UNCHANGED <<readers, evaluators, Verdict>>
  <2>1. /\ pc[r] \in DOMAIN Appends
        /\ UNCHANGED <<readers, evaluators, report>>
    BY <1>3 DEF StartStage1, CompleteStage1, StartStage2, CompleteStage2, AppendMarker,
                DieAppending, Appends
  <2>2. PICK s \in {Torn, Appends[pc[r]]} :
            marker' = Extended(marker, newline, Line(s, r))
    BY <1>3 DEF StartStage1, CompleteStage1, StartStage2, CompleteStage2, AppendMarker,
                DieAppending, Appends
  <2>3. /\ s \in States \cup {Torn}
        /\ pc[r] \in Working
        /\ s = "COMPLETE" => pc[r] = "complete"
    BY <2>1, <2>2, AppendsType DEF Appends, Working, Torn
  <2>4. /\ Line(s, r) \in Lines /\ Line(s, r).state = s
        /\ ~Holds(marker, "COMPLETE") /\ report = "absent"
        /\ pc[r] = "complete" => evaluators # {}
    BY <2>1, <2>3, LineType, AppendsType DEF ArtefactInv, ArtefactsOf, Live
  <2>5. CASE Holds(marker', "COMPLETE")
    <3>1. pc[r] = "complete"
      BY <2>2, <2>3, <2>4, <2>5, HoldsExtended DEF TypeOK, States
    <3>2. Verdict = "none" /\ Verdict' = "recorded"
      BY <2>1, <2>4, <2>5, VerdictIs
    <3>3. Promise!Record
      BY <2>1, <2>4, <3>1, <3>2 DEF Promise!Record
    <3> QED
      BY <3>3 DEF Promise!Next
  <2>6. CASE ~Holds(marker', "COMPLETE")
    BY <2>1, <2>4, <2>6, PromiseStutters
  <2> QED
    BY <2>5, <2>6
<1>4. ASSUME NEW r \in Runs, WriteReport(r) \/ (DieWriting(r) /\ pc[r] = "report")
      PROVE  Promise!Next
  <2>1. /\ pc[r] = "report" /\ report' # "absent"
        /\ UNCHANGED <<readers, evaluators, marker>>
    BY <1>4 DEF WriteReport, DieWriting
  <2>2. report = "absent" /\ Holds(marker, "COMPLETE")
    BY <2>1 DEF ArtefactInv, ArtefactsOf, Live, Steps
  <2>3. Verdict = "recorded" /\ Verdict' = "reported"
    BY <2>1, <2>2, VerdictIs
  <2>4. Promise!Report
    BY <2>1, <2>3 DEF Promise!Report
  <2> QED
    BY <2>4 DEF Promise!Next
<1>5. ASSUME NEW r \in Runs,
             \/ Preflight(r) \/ Checklist(r) \/ Plan(r) \/ OpenGate(r) \/ GateShut(r)
             \/ Assemble(r) \/ WriteManifest(r) \/ Die(r)
             \/ (DieWriting(r) /\ pc[r] # "report")
      PROVE  UNCHANGED <<readers, evaluators, Verdict>>
  <2>1. UNCHANGED <<readers, evaluators, report, marker>>
    BY <1>5 DEF Preflight, Checklist, Plan, OpenGate, GateShut, Assemble, WriteManifest,
                Die, DieWriting, disk
  <2> QED
    BY <2>1, PromiseStutters
<1>6. CASE Rehearse \/ ConditionsChange \/ UNCHANGED vars
  <2>1. UNCHANGED <<readers, evaluators, report, marker>>
    BY <1>6 DEF Rehearse, ConditionsChange, vars, disk
  <2> QED
    BY <2>1, PromiseStutters
<1> QED
  BY <1>1, <1>2, <1>3, <1>4, <1>5, <1>6 DEF Next, Advance, Fail

(* With exclusive launches OneShotHoldout implements OneShotPromise: reads *)
(* only before the evaluation, one evaluation by a run that has read, then *)
(* the record of it, then the report.                                      *)
THEOREM PromiseIsKept == Exclusive => (Spec => PromiseKept)
<1> SUFFICES ASSUME Exclusive PROVE Spec => PromiseKept
  OBVIOUS
<1>1. Init => Promise!Init
  <2> SUFFICES ASSUME Init PROVE Promise!Init
    OBVIOUS
  <2>1. report = "absent" /\ ~Holds(marker, "COMPLETE")
    BY DEF Init, Holds
  <2>2. Verdict = "none"
    BY <2>1, VerdictIs
  <2> QED
    BY <2>2 DEF Init, Promise!Init
<1>2. TypeOK /\ EvaluationInv /\ ReadersInv /\ ArtefactInv /\ [Next]_vars
        => [Promise!Next]_(Promise!promiseVars)
  BY PromiseStep DEF Promise!promiseVars
<1> QED
  BY <1>1, <1>2, TypeCorrect, EvaluationInvariant, ArtefactInvariant, BudgetInvariant,
     PTL DEF Spec, PromiseKept, Promise!Spec

===============================================================================
