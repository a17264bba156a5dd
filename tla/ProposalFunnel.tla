--------------------------- MODULE ProposalFunnel ---------------------------
(***************************************************************************)
(* From a language model's answers to the survivors that the one-shot       *)
(* holdout evaluates: invocations of scripts/run_rq4_funnel.py with the     *)
(* response cache they share, the preparation of the development pins, and  *)
(* the real run's derivation of the survivors, which are known by their     *)
(* positions in the cached answers alone.                                   *)
(* All are of one basis, and ask with the same prompt, so that a call is a  *)
(* model and a seed.  The two sources that ask no model always propose the  *)
(* same and are left out; the gate stack is a function of a batch's         *)
(* strategies.                                                              *)
(***************************************************************************)
EXTENDS Integers, Sequences, FiniteSets, Functions

CONSTANTS
    Funnels,    \* invocations of the funnel
    Arms,       \* the models, in the order of the stack
    K, M,       \* seeds 0 .. K - 1; proposals in an answer
    Strategies,
    Invalid,    \* an item that decode_proposal refuses
    Responses,  \* [call -> the answers it may get], sequences of items
    Survives,   \* [batch's strategies -> those that G0-G5 advance]
    Cached,     \* [calls an earlier invocation got answered -> the answers]
    Caps,       \* spend caps, in answers of one model
    MaxFaults,  \* bound: failed calls, deaths and a cleared cache
    Earlier, None

Models == Range(Arms)
Seeds == 0 .. K - 1
Calls == Models \X Seeds

ASSUME FunnelAssumption ==
    /\ {K, M} \subseteq Nat \ {0} /\ MaxFaults \in Nat
    /\ Caps \subseteq Nat /\ Caps # {}
    /\ Arms \in Seq(Models) /\ IsInjective(Arms) /\ Invalid \notin Strategies
    /\ IsFiniteSet(Funnels) /\ {Earlier, None} \cap Funnels = {} /\ Earlier # None
    /\ \A c \in DOMAIN Cached : c \in Calls /\ Cached[c] \in Responses[c]
    /\ \A c \in Calls : \A r \in Responses[c] :
           r \in Seq(Strategies \cup {Invalid})
    /\ \A S \in SUBSET Strategies : Survives[S] \subseteq S

VARIABLES
    entry, temp, \* the files named <key>.json and <key>.json.tmp
    content,     \* of the file each invocation creates for each key
    pc, at,      \* a funnel's control, and its place in the loops
    allowed,     \* keys it may still ask for
    hand, fd,    \* the answer it stores, and the file it has open
    used,        \* the answers it generates from
    errors,      \* its generation_errors: arms
    artefact,    \* rq4_funnel_reported_minilm.json
    pins,        \* oneshot_dev_pins.json, and its preparation
    real,        \* the real run
    plan,        \* history: what the pre-flight let an invocation buy
    answers,     \* history: what each invocation was answered, by call
    faults       \* history: what went wrong outside, <<kind, of>>

cacheVars == <<entry, temp, content>>
funnelVars == <<pc, at, allowed, hand, fd, used, errors>>
holdoutVars == <<pins, real>>
vars == <<cacheVars, funnelVars, artefact, holdoutVars, plan, answers, faults>>
-----------------------------------------------------------------------------
(* Proposals.                                                               *)

\* Wrong: the seed is not in the key.
KeyOfModel(m, s) == <<m, 0>>

\* ResponseCache.key.
Key(m, s) == <<m, s>>
Keys == {Key(c[1], c[2]) : c \in Calls}

\* run_rq4_funnel's loop over the arms, and run_all_seeds'.
Slots == Len(Arms) * K
Arm(i) == Arms[((i - 1) \div K) + 1]
Seed(i) == (i - 1) % K
NextArm(i) == (((i - 1) \div K) + 1) * K + 1

\* candidates and run_generation: an id is a position in the answer, and of
\* equal proposals the first is kept.  The seed, which an id also names, is left
\* out: only seed 0's batch is advanced.
Batch(response) ==
    LET kept == {i \in 1 .. M \cap DOMAIN response :
                    /\ response[i] # Invalid
                    /\ \A j \in 1 .. i - 1 : response[j] # response[i]}
    IN [i \in kept |-> response[i]]

\* run_experimentalist: the advanced ids, with what they stand for.
Advanced(batch) ==
    Restrict(batch, {i \in DOMAIN batch : batch[i] \in Survives[Range(batch)]})
-----------------------------------------------------------------------------
(* Files.                                                                   *)

Empty == [whole |-> FALSE, text |-> <<>>]
Whole(response) == [whole |-> TRUE, text |-> response]

Readable(key) == entry[key] # None /\ content[key][entry[key]].whole
Text(key) == content[key][entry[key]].text

\* What a write from the start leaves in a file that was not empty: the new text,
\* or a mixture that nothing reads.
Written(file, new) == IF file = Empty THEN {new} ELSE {new, Empty}
-----------------------------------------------------------------------------
(* One invocation of the funnel.                                            *)

\* prepare_budgeted_clients looks for the files of the keys, and refuses an
\* estimate above the cap.
Misses == {key \in Keys : entry[key] = None}

\* Wrong: a call whose answer is being stored is not counted.
EstimateOfUntouched(m) ==
    Cardinality({s \in Seeds : Key(m, s) \in Misses /\ temp[Key(m, s)] = None})

Estimate(m) == Cardinality({s \in Seeds : Key(m, s) \in Misses})
Start(p) ==
    /\ pc[p] = "idle"
    /\ \E cap \in Caps :
           IF \E m \in Models : Estimate(m) > cap
           THEN pc' = [pc EXCEPT ![p] = "refused"] /\ UNCHANGED <<allowed, plan>>
           ELSE /\ pc' = [pc EXCEPT ![p] = "generate"]
                /\ allowed' = [allowed EXCEPT ![p] = Misses]
                /\ plan' = [plan EXCEPT ![p] = [cap |-> cap, calls |-> Misses]]
    /\ UNCHANGED <<cacheVars, at, hand, fd, used, errors, artefact, holdoutVars,
                   answers, faults>>

CallOf(p) == <<Arm(at[p]), Seed(at[p])>>
KeyOf(p) == Key(Arm(at[p]), Seed(at[p]))

\* The locals of an exchange are gone when it is over.
Forget(p) == hand' = [hand EXCEPT ![p] = <<>>] /\ fd' = [fd EXCEPT ![p] = None]

\* run_generation goes on with an answer.
Use(p, response) ==
    /\ Forget(p)
    /\ used' = [used EXCEPT ![p][CallOf(p)] = Whole(response)]
    /\ at' = [at EXCEPT ![p] = @ + 1]
    /\ pc' = [pc EXCEPT ![p] = "generate"]

\* An exception in an arm is recorded, and the next arm is tried.
DropArm(p) ==
    /\ Forget(p)
    /\ errors' = [errors EXCEPT ![p] = @ \cup {Arm(at[p])}]
    /\ at' = [at EXCEPT ![p] = NextArm(@)]
    /\ pc' = [pc EXCEPT ![p] = "generate"]

\* ResponseCache.get finds an entry; an unreadable one raises.
GetHit(p) ==
    /\ pc[p] = "generate" /\ at[p] <= Slots /\ entry[KeyOf(p)] # None
    /\ IF Readable(KeyOf(p))
       THEN Use(p, Text(KeyOf(p))) /\ UNCHANGED errors
       ELSE DropArm(p) /\ UNCHANGED used
    /\ UNCHANGED <<cacheVars, allowed, artefact, holdoutVars, plan, answers, faults>>

\* Wrong: any exception of an arm is recorded as an error of the arm.
RefusedArmIsDropped(p) ==
    /\ pc[p] = "generate" /\ at[p] <= Slots /\ entry[KeyOf(p)] = None
    /\ KeyOf(p) \notin allowed[p]
    /\ DropArm(p)
    /\ UNCHANGED <<cacheVars, allowed, used, artefact, holdoutVars, plan, answers, faults>>

\* Wrong: what is missing from the cache is asked for, planned or not.
UnplannedCallForwarded(p) ==
    /\ pc[p] = "generate" /\ at[p] <= Slots /\ entry[KeyOf(p)] = None
    /\ KeyOf(p) \notin allowed[p]
    /\ \E r \in Responses[CallOf(p)] :
           /\ hand' = [hand EXCEPT ![p] = r]
           /\ pc' = [pc EXCEPT ![p] = "put"]
           /\ answers' = [answers EXCEPT ![CallOf(p)][p] = Whole(r)]
    /\ UNCHANGED <<cacheVars, at, allowed, fd, used, errors, artefact, holdoutVars,
                   plan, faults>>

\* BudgetedClient refuses a call that was not planned, which ends the run.
UnplannedCallRefused(p) ==
    /\ pc[p] = "generate" /\ at[p] <= Slots /\ entry[KeyOf(p)] = None
    /\ KeyOf(p) \notin allowed[p]
    /\ pc' = [pc EXCEPT ![p] = "halted"]
    /\ UNCHANGED <<cacheVars, at, allowed, hand, fd, used, errors, artefact,
                   holdoutVars, plan, answers, faults>>

\* PhaseDModelClient.generate, with its retries: an answer or an exception.
AskVendor(p) ==
    /\ pc[p] = "generate" /\ at[p] <= Slots /\ entry[KeyOf(p)] = None
    /\ KeyOf(p) \in allowed[p]
    /\ allowed' = [allowed EXCEPT ![p] = @ \ {KeyOf(p)}]
    /\ \/ \E r \in Responses[CallOf(p)] :
              /\ hand' = [hand EXCEPT ![p] = r]
              /\ pc' = [pc EXCEPT ![p] = "put"]
              /\ answers' = [answers EXCEPT ![CallOf(p)][p] = Whole(r)]
              /\ UNCHANGED <<at, fd, errors, faults>>
       \/ /\ Cardinality(faults) < MaxFaults
          /\ faults' = faults \cup {<<"vendor", p>>}
          /\ DropArm(p)
          /\ UNCHANGED answers
    /\ UNCHANGED <<cacheVars, used, artefact, holdoutVars, plan>>

\* put: nothing is written over an entry that is there.
PutCheck(p) ==
    /\ pc[p] = "put"
    /\ IF entry[KeyOf(p)] # None
       THEN Use(p, hand[p])
       ELSE pc' = [pc EXCEPT ![p] = "open"] /\ UNCHANGED <<used, at, hand, fd>>
    /\ UNCHANGED <<cacheVars, allowed, errors, artefact, holdoutVars, plan, answers,
                   faults>>

\* put: the temporary file is created or truncated.
PutOpen(p) ==
    LET key == KeyOf(p)
        file == IF temp[key] = None THEN p ELSE temp[key]
    IN /\ pc[p] = "open"
       /\ temp' = [temp EXCEPT ![key] = file]
       /\ content' = [content EXCEPT ![key][file] = Empty]
       /\ fd' = [fd EXCEPT ![p] = file]
       /\ pc' = [pc EXCEPT ![p] = "write"]
       /\ UNCHANGED <<entry, at, allowed, hand, used, errors, artefact, holdoutVars,
                      plan, answers, faults>>

\* put: the payload is written to the file that was opened, wherever it is now.
PutWrite(p) ==
    /\ pc[p] = "write"
    /\ \E file \in Written(content[KeyOf(p)][fd[p]], Whole(hand[p])) :
           content' = [content EXCEPT ![KeyOf(p)][fd[p]] = file]
    /\ pc' = [pc EXCEPT ![p] = "rename"]
    /\ UNCHANGED <<entry, temp, at, allowed, hand, fd, used, errors, artefact,
                   holdoutVars, plan, answers, faults>>

\* put: os.replace raises when the temporary file is gone.
PutReplace(p) ==
    LET key == KeyOf(p)
    IN /\ pc[p] = "rename"
       /\ IF temp[key] = None
          THEN DropArm(p) /\ UNCHANGED <<entry, temp, used>>
          ELSE /\ entry' = [entry EXCEPT ![key] = temp[key]]
               /\ temp' = [temp EXCEPT ![key] = None]
               /\ Use(p, hand[p]) /\ UNCHANGED errors
       /\ UNCHANGED <<content, allowed, artefact, holdoutVars, plan, answers, faults>>

\* The gate stack on seed 0's batch of every arm that has no error.
Reports(p) ==
    [m \in Models \ errors[p] |-> Advanced(Batch(used[p][<<m, 0>>].text))]

\* _write_json truncates the artefact, and writes it.
OpenArtefact(p) ==
    /\ pc[p] = "generate" /\ at[p] > Slots
    /\ artefact' = [whole |-> FALSE]
    /\ pc' = [pc EXCEPT ![p] = "report"]
    /\ UNCHANGED <<cacheVars, at, allowed, hand, fd, used, errors, holdoutVars,
                   plan, answers, faults>>
\* A second writer since then makes it a mixture, or not.
WriteArtefact(p) ==
    /\ pc[p] = "report"
    /\ \/ artefact' = [whole |-> TRUE, by |-> p,
                       advanced |-> [m \in DOMAIN Reports(p) |-> DOMAIN Reports(p)[m]]]
       \/ artefact.whole /\ artefact' = [whole |-> FALSE]
    /\ pc' = [pc EXCEPT ![p] = "done"]
    /\ UNCHANGED <<cacheVars, at, allowed, hand, fd, used, errors, holdoutVars,
                   plan, answers, faults>>

Ends == {"idle", "refused", "halted", "done", "dead"}
Die(p) ==
    /\ pc[p] \notin Ends /\ Cardinality(faults) < MaxFaults
    /\ faults' = faults \cup {<<"death", p>>}
    /\ pc' = [pc EXCEPT ![p] = "dead"] /\ at' = [at EXCEPT ![p] = 1]
    /\ allowed' = [allowed EXCEPT ![p] = {}] /\ Forget(p)
    /\ used' = [used EXCEPT ![p] = [c \in Calls |-> Empty]]
    /\ errors' = [errors EXCEPT ![p] = {}]
    /\ UNCHANGED <<cacheVars, artefact, holdoutVars, plan, answers>>

\* The cache directory is kept in no repository, and may be cleared.
Clear ==
    /\ Cardinality(faults) < MaxFaults /\ Misses # Keys
    /\ entry' = [key \in Keys |-> None] /\ temp' = [key \in Keys |-> None]
    /\ faults' = faults \cup {<<"cleared", None>>}
    /\ UNCHANGED <<content, funnelVars, artefact, holdoutVars, plan, answers>>
-----------------------------------------------------------------------------
(* The development pins and the real run.                                   *)

\* A replay of these arms with caps of nothing: all keys must be there, and
\* all of the arms' entries readable.
Replayable(arms) ==
    /\ Misses = {}
    /\ \A m \in arms, s \in Seeds : Readable(Key(m, s))
\* Wrong: the latest seed's batch is replayed.
ReplayedLastSeed(m) == Batch(Text(Key(m, K - 1)))

\* Seed 0 is the one that is advanced.
Replayed(m) == Batch(Text(Key(m, 0)))

\* advanced_by_source: the arms of which something was advanced.
Wanted == {m \in DOMAIN artefact.advanced : artefact.advanced[m] # {}}

\* regenerate_survivors refuses when an id is not generated again.
Regenerable ==
    /\ artefact.whole /\ Replayable(Wanted)
    /\ \A m \in Wanted : artefact.advanced[m] \subseteq DOMAIN Replayed(m)
Regenerated == [m \in Wanted |-> Restrict(Replayed(m), artefact.advanced[m])]

\* prepare_dev_pins, which is not repeated: the whole gate stack is replayed and
\* must advance the artefact's ids, in every arm.
PinsReplay ==
    /\ artefact.whole /\ Replayable(Models) /\ Models \subseteq DOMAIN artefact.advanced
    /\ \A m \in Models : DOMAIN Advanced(Replayed(m)) = artefact.advanced[m]
    /\ pins.stage = "none"
    /\ pins' = [stage |-> "replayed", of |-> [m \in Models |-> Advanced(Replayed(m))]]
    /\ UNCHANGED <<cacheVars, funnelVars, artefact, real, plan, answers, faults>>

\* Then the deriver must reproduce each survivor, and the pins are written.
PinsWrite ==
    /\ pins.stage = "replayed"
    /\ pins' = IF Regenerable /\ \A m \in Wanted : Regenerated[m] = pins.of[m]
               THEN [stage |-> "written", of |-> Regenerated]
               ELSE [stage |-> "none"]
    /\ UNCHANGED <<cacheVars, funnelVars, artefact, real, plan, answers, faults>>

\* _run_real: with the pins, and an artefact in place, the holdout is opened.
OpenHoldout ==
    /\ real.stage = "none" /\ pins.stage = "written"
    /\ real' = [stage |-> "opened", pins |-> pins.of]
    /\ UNCHANGED <<cacheVars, funnelVars, artefact, pins, plan, answers, faults>>

\* derive_stage2_inputs, with the pins: what is evaluated, or the run raises.
Derive ==
    LET Pinned(m) == /\ m \in DOMAIN real.pins
                     /\ \A i \in DOMAIN Regenerated[m] :
                            /\ i \in DOMAIN real.pins[m]
                            /\ Regenerated[m][i] = real.pins[m][i]
    IN /\ real.stage = "opened"
       /\ real' = IF Regenerable /\ \A m \in Wanted : Pinned(m)
                  THEN [stage |-> "evaluated", survivors |-> Regenerated,
                        by |-> artefact.by]
                  ELSE [stage |-> "failed"]
       /\ UNCHANGED <<cacheVars, funnelVars, artefact, pins, plan, answers, faults>>
-----------------------------------------------------------------------------

Init ==
    /\ answers = [c \in Calls |-> [p \in Funnels \cup {Earlier} |->
                    IF p = Earlier /\ c \in DOMAIN Cached THEN Whole(Cached[c]) ELSE Empty]]
    /\ content = [key \in Keys |-> [p \in Funnels \cup {Earlier} |->
                    LET cs == {c \in DOMAIN Cached : Key(c[1], c[2]) = key}
                    IN IF p = Earlier /\ cs # {} THEN Whole(Cached[CHOOSE c \in cs : TRUE])
                       ELSE Empty]]
    /\ entry = [key \in Keys |-> IF content[key][Earlier].whole THEN Earlier ELSE None]
    /\ temp = [key \in Keys |-> None]
    /\ pc = [p \in Funnels |-> "idle"] /\ at = [p \in Funnels |-> 1]
    /\ allowed = [p \in Funnels |-> {}]
    /\ plan = [p \in Funnels |-> [cap |-> 0, calls |-> {}]]
    /\ hand = [p \in Funnels |-> <<>>] /\ fd = [p \in Funnels |-> None]
    /\ used = [p \in Funnels |-> [c \in Calls |-> Empty]]
    /\ errors = [p \in Funnels |-> {}]
    /\ artefact = [whole |-> FALSE]
    /\ pins = [stage |-> "none"] /\ real = [stage |-> "none"]
    /\ faults = {}

Funnel(p) ==
    \/ Start(p) \/ GetHit(p) \/ UnplannedCallRefused(p) \/ AskVendor(p)
    \/ PutCheck(p) \/ PutOpen(p) \/ PutWrite(p) \/ PutReplace(p)
    \/ OpenArtefact(p) \/ WriteArtefact(p) \/ Die(p)

Next ==
    \/ \E p \in Funnels : Funnel(p)
    \/ Clear \/ PinsReplay \/ PinsWrite \/ OpenHoldout \/ Derive

Spec == Init /\ [][Next]_vars
-----------------------------------------------------------------------------
\* Two invocations were both answered for a call.
Buyers(c) == {p \in DOMAIN answers[c] : answers[c][p].whole}
BoughtTwice(c) == Cardinality(Buyers(c)) > 1

\* What the holdout evaluates under an id is what the funnel advanced under it,
\* all of it and nothing else, through crashes, failed arms, later funnels and
\* a cleared cache, unless the answer of seed 0 was bought more than once.
\* Code: survivor_inputs.py 92-147, which regenerates survivors by ids that are
\* positions in the cached answers (llm_source.py 65-81).
SurvivorsAreTheFunnels ==
    /\ real.stage = "evaluated"
    /\ \A m \in DOMAIN real.survivors : ~BoughtTwice(<<m, 0>>)
    => LET reports == Reports(real.by)
       IN real.survivors =
              [m \in {x \in DOMAIN reports : DOMAIN reports[x] # {}} |-> reports[m]]

\* Every answer behind a reported arm, those of the seeds that were not advanced
\* included, was given to the call that it is logged for, and is in the cache
\* when the arm is selected from, unless it was bought twice or the cache cleared.
\* Code: cache.py 1-6 ("every seed's call is persisted, immutably, before any
\* downstream selection") and sources.py 264-267.
LoggedBeforeSelection ==
    \A p \in Funnels : pc[p] \in {"report", "done"} =>
        \A m \in Models \ errors[p], s \in Seeds :
            LET c == <<m, s>>
                key == Key(m, s)
            IN /\ \E q \in Buyers(c) : used[p][c] = answers[c][q]
               /\ \/ BoughtTwice(c) \/ <<"cleared", None>> \in faults
                  \/ Readable(key) /\ Text(key) = used[p][c].text

\* A funnel buys what its pre-flight found missing, no more of a model than the
\* cap that was given to it, and reports every arm, unless a vendor failed it, an
\* answer of the arm was bought twice, or the cache was cleared under an answer
\* that it was storing: a call that was not planned reaches no vendor, and is never
\* the reason why an arm is not in the report.
\* Code: run_rq4_funnel.py 570-588, 609-653 and 758-760 ("never a silently dropped
\* arm").
PlannedOrHalted ==
    \A p \in Funnels :
        /\ pc[p] \in {"report", "done"} /\ <<"vendor", p>> \notin faults =>
               \A m \in errors[p] : \E s \in Seeds :
                   \/ BoughtTwice(<<m, s>>)
                   \/ <<"cleared", None>> \in faults /\ p \in Buyers(<<m, s>>)
        /\ \A c \in Calls : p \in Buyers(c) => Key(c[1], c[2]) \in plan[p].calls
        /\ \A m \in Models :
               Cardinality({s \in Seeds : p \in Buyers(<<m, s>>)}) <= plan[p].cap

\* Once the holdout is open, the derivation does not fail for want of an input.
\* Code: scripts/run_oneshot_holdout.py 139-140 ("a missing input must never cost
\* the one open this run is allowed").
NoOpenIsLost == real.stage # "failed"

=============================================================================
