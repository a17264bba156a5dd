------------------------ MODULE CodegenBoundaryProofs ------------------------
(***************************************************************************)
(* What holds of every sequence of invocations of the coverage-boundary     *)
(* experiment, for any members, models, prices, caps and number of deaths   *)
(* and evictions: an answer is paid for again only after it was lost, what  *)
(* a process spends was foreseen by its pre-flight, a scored series is this *)
(* invocation's own, a recorded result is never overwritten, and a result   *)
(* that is reported as reportable has earned it.                            *)
(***************************************************************************)
EXTENDS CodegenBoundary, FiniteSetTheorems, TLAPS

-----------------------------------------------------------------------------
(* The loop's arithmetic: the turns and the pairs are one to one.           *)

\* Position i of the loop is model (i - 1) % b of member (i - 1) \div b.
LEMMA DivMod ==
    ASSUME NEW n \in Nat, NEW b \in Nat \ {0}
    PROVE  /\ n \div b \in Nat /\ n % b \in Nat /\ n % b \in 0..(b - 1)
           /\ n = b * (n \div b) + (n % b)
  OBVIOUS

LEMMA DivBelow ==
    ASSUME NEW a \in Nat, NEW b \in Nat \ {0}, NEW n \in Nat, n < a * b
    PROVE  n \div b < a
  <1> DEFINE q == n \div b
  <1>1. q \in Nat /\ b * q <= n
    BY DivMod
  <1>2. SUFFICES ASSUME q >= a PROVE FALSE
    BY <1>1
  <1>3. \A x, y, z \in Nat : x >= y => z * x >= z * y
    OBVIOUS
  <1>4. b * q >= b * a
    BY <1>1, <1>2, <1>3
  <1>5. b * a = a * b /\ b * a \in Nat /\ b * q \in Nat
    BY <1>1
  <1> QED BY <1>1, <1>4, <1>5

LEMMA DivModInverse ==
    ASSUME NEW q \in Nat, NEW b \in Nat \ {0}, NEW r \in 0..(b - 1)
    PROVE  (q * b + r) \div b = q /\ (q * b + r) % b = r
  OBVIOUS

LEMMA Lengths ==
    /\ Len(Members) \in Nat /\ DOMAIN Members = 1..Len(Members)
    /\ Len(Models) \in Nat /\ DOMAIN Models = 1..Len(Models)
    /\ Turns \in Nat
  BY DistinctAssumption DEF Turns

LEMMA TurnIndices ==
    ASSUME NEW i \in 1..Turns
    PROVE  /\ Len(Models) \in Nat \ {0}
           /\ ((i - 1) \div Len(Models)) + 1 \in DOMAIN Members
           /\ ((i - 1) % Len(Models)) + 1 \in DOMAIN Models
  <1> DEFINE a == Len(Members)
             b == Len(Models)
             n == i - 1
  <1>1. a \in Nat /\ b \in Nat /\ n \in Nat /\ n < a * b
    BY Lengths DEF Turns
  <1>2. b # 0
    BY <1>1
  <1>3. n \div b \in Nat /\ n \div b < a
    BY <1>1, <1>2, DivMod, DivBelow
  <1>4. n % b \in 0..(b - 1)
    BY <1>1, <1>2, DivMod
  <1> QED BY <1>1, <1>2, <1>3, <1>4, Lengths

LEMMA PairInPairs ==
    ASSUME NEW i \in 1..Turns
    PROVE  PairAt(i) \in Pairs /\ PairAt(i)[2] \in ModelSet
  BY TurnIndices, Lengths DEF PairAt, Pairs, ModelSet

LEMMA EachPairOnce ==
    ASSUME NEW i \in 1..Turns, NEW j \in 1..Turns, PairAt(i) = PairAt(j)
    PROVE  i = j
  <1> DEFINE b == Len(Models)
  <1>1. ((i - 1) \div b) + 1 = ((j - 1) \div b) + 1 /\ ((i - 1) % b) + 1 = ((j - 1) % b) + 1
    BY TurnIndices, DistinctAssumption DEF PairAt
  <1>2. i - 1 \in Nat /\ j - 1 \in Nat /\ b \in Nat \ {0}
    BY TurnIndices, Lengths
  <1>3. /\ (i - 1) \div b \in Nat /\ (j - 1) \div b \in Nat
        /\ (i - 1) % b \in Nat /\ (j - 1) % b \in Nat
        /\ i - 1 = b * ((i - 1) \div b) + ((i - 1) % b)
        /\ j - 1 = b * ((j - 1) \div b) + ((j - 1) % b)
    <2> DEFINE m == i - 1
               n == j - 1
    <2> HIDE DEF m, n, b
    <2>1. m \in Nat /\ n \in Nat /\ b \in Nat \ {0}
      BY <1>2 DEF m, n
    <2>2. /\ m \div b \in Nat /\ m % b \in Nat /\ m = b * (m \div b) + (m % b)
          /\ n \div b \in Nat /\ n % b \in Nat /\ n = b * (n \div b) + (n % b)
      BY <2>1, DivMod
    <2> QED BY <2>2 DEF m, n
  <1>4. (i - 1) \div b = (j - 1) \div b /\ (i - 1) % b = (j - 1) % b
    BY <1>1, <1>3
  <1>5. i - 1 = j - 1
    BY <1>3, <1>4
  <1> QED BY <1>5

LEMMA EveryPairHasATurn ==
    ASSUME NEW p \in Pairs
    PROVE  \E i \in 1..Turns : PairAt(i) = p
  <1>1. PICK j \in DOMAIN Members, k \in DOMAIN Models : p = <<Members[j], Models[k]>>
    BY DEF Pairs, ModelSet
  <1> DEFINE a == Len(Members)
             b == Len(Models)
             q == j - 1
             r == k - 1
             n == q * b + r
  <1>2. a \in Nat /\ b \in Nat \ {0} /\ q \in Nat /\ q < a /\ r \in 0..(b - 1)
    BY <1>1, Lengths
  <1>3. n \div b = q /\ n % b = r
    BY <1>2, DivModInverse
  <1>4. n \in Nat /\ n < a * b
    <2>1. \A x, y, z \in Nat : x < y => x * z + z <= y * z
      <3> TAKE x, y, z \in Nat
      <3> HAVE x < y
      <3>1. \A d \in Nat : (x + 1 + d) * z = x * z + z + d * z /\ d * z \in Nat
        OBVIOUS
      <3>2. y - x - 1 \in Nat /\ y = x + 1 + (y - x - 1)
        OBVIOUS
      <3>3. x * z \in Nat
        OBVIOUS
      <3> QED BY <3>1, <3>2, <3>3
    <2>2. q * b + b <= a * b
      BY <1>2, <2>1
    <2>3. q * b \in Nat /\ a * b \in Nat
      BY <1>2
    <2>4. \A x, y, z, w \in Nat : x + z <= y /\ w < z => x + w < y /\ x + w \in Nat
      OBVIOUS
    <2>5. r \in Nat /\ r < b
      BY <1>2
    <2> HIDE DEF q, r
    <2> QED BY <1>2, <2>2, <2>3, <2>4, <2>5
  <1>5. n + 1 \in 1..Turns /\ (n + 1) - 1 = n
    BY <1>4, Lengths DEF Turns
  <1>6. PairAt(n + 1) = <<Members[q + 1], Models[r + 1]>>
    BY <1>3, <1>5 DEF PairAt
  <1>7. q + 1 = j /\ r + 1 = k
    BY <1>1, Lengths
  <1> QED BY <1>1, <1>5, <1>6, <1>7

LEMMA PairsFinite == IsFiniteSet(Pairs)
  <1>1. IsFiniteSet(1..Len(Members)) /\ IsFiniteSet(1..Len(Models))
    BY Lengths, FS_Interval
  <1>2. IsFiniteSet({Members[k] : k \in DOMAIN Members})
    <2> DEFINE S == {Members[k] : k \in DOMAIN Members}
    <2>1. Members \in Surjection(1..Len(Members), S)
      BY Lengths, DistinctAssumption DEF Surjection
    <2> QED BY <1>1, <2>1, FS_Surjection
  <1>3. IsFiniteSet(ModelSet)
    <2>1. Models \in Surjection(1..Len(Models), ModelSet)
      BY Lengths, DistinctAssumption DEF Surjection, ModelSet
    <2> QED BY <1>1, <2>1, FS_Surjection
  <1> QED BY <1>2, <1>3, FS_Product DEF Pairs

-----------------------------------------------------------------------------
(* The inductive invariants.                                                *)

Before == {"idle", "route", "closeout_json", "closeout_md", "preflight"}
InTurn == {"put", "extract", "sandbox"}
After == {"json", "md"}

Files == {ABSENT} \cup [run : Nat]
            \cup [run : Nat, sku : {"mismatch", "match", "unverified"},
                   evidence : BOOLEAN, reportable : BOOLEAN]
RunType ==
    [pair : Pairs, status : {"ok", "wont_run", "generation_error"},
     output : Nat, version : ModelSet \cup {ABSENT}]
ProcessType ==
    [opts : [override : BOOLEAN, refresh : BOOLEAN, cap : Nat],
     live : SUBSET ModelSet, version : [ModelSet -> ModelSet \cup {ABSENT}],
     spent : [ModelSet -> Nat], total : Nat, misses : [ModelSet -> Nat],
     turn : Nat, response : Responses \cup {ABSENT}, runs : Seq(RunType),
     result : Files]

StateInv ==
    /\ below \in BOOLEAN
    /\ cache \in [Pairs -> Responses \cup {ABSENT}]
    /\ jail \in [Pairs -> 0..starts]
    /\ files \in [closeout : [json : Files, md : Files],
                  executed : [json : Files, md : Files]]
    /\ pc \in Before \cup {"generate"} \cup InTurn \cup After
    /\ code \in {"none", "running", "refused", "halted", "crashed", "done"}
    /\ proc \in ProcessType
    /\ starts \in 0..MaxStarts /\ faults \in 0..MaxFaults
    /\ bought \in [Pairs -> Nat] /\ lost \in [Pairs -> Nat]
    /\ origin \in [Pairs -> [run : 0..starts, version : ModelSet \cup {ABSENT}]]

\* The loop: nothing is held before it, every turn leaves one record of its
\* pair, and a reply is in hand within a turn only.
LoopInv ==
    /\ proc.turn \in 1..(Turns + 1)
    /\ Len(proc.runs) = proc.turn - 1
    /\ \A i \in 1..(proc.turn - 1) : proc.runs[i].pair = PairAt(i)
    /\ pc \in Before => proc = Process(proc.opts)
    /\ pc \in InTurn => proc.turn <= Turns
    /\ pc \in {"put", "extract"} => proc.response \in Responses
    /\ pc \in After => proc.turn = Turns + 1

\* An answer on its way to the cache is the one that may be in excess.
PaidInv ==
    \A p \in Pairs :
        bought[p] <= lost[p] + (IF cache[p] # ABSENT \/ (pc = "put" /\ p = Pair)
                                THEN 1 ELSE 0)

\* While a program runs its jail holds nothing of an earlier invocation.
SeriesInv ==
    /\ pc = "sandbox" => jail[Pair] = 0
    /\ SeriesIsThisRuns

\* An invocation that asks or writes has found no recorded result.
RecordInv ==
    /\ pc \in {"preflight", "generate"} \cup InTurn \cup {"json"} =>
           files.executed = NoFiles
    /\ pc = "json" => proc.result.run = starts
    /\ pc = "md" => files.executed.md = ABSENT
                    /\ files.executed.json = proc.result
                    /\ proc.result.run = starts
    /\ files.executed.md # ABSENT => files.executed.md.run = files.executed.json.run

\* Without a fault, every pair that was asked with an answer is in the cache.
EarnedInv ==
    /\ faults = 0 => \A i \in 1..(proc.turn - 1) :
           proc.runs[i].status # "generation_error" => cache[PairAt(i)] # ABSENT
    /\ faults = 0 /\ pc \in {"extract", "sandbox"} => cache[Pair] # ABSENT
    /\ pc \in After /\ proc.result.reportable =>
           /\ ~below /\ proc.result.evidence
           /\ RunsWith("generation_error") = {}
           /\ \A i \in 1..Turns : proc.runs[i].version = PairAt(i)[2]
           /\ \E k \in DOMAIN Members : \A m \in ModelSet :
                  \E i \in RunsWith("ok") : proc.runs[i].pair = <<Members[k], m>>

\* What this invocation has answered by now: the pairs whose cached answer is its
\* own.  It answered none before its loop; in the loop each of them is on record
\* with the version it came from, or is the turn's own and the client still holds
\* that version; and a client that holds one has answered, or holds the answer.
Now == {p \in Pairs : origin[p].run = starts}

OriginInv ==
    /\ pc \in Before \ {"idle"} => Now = {}
    /\ pc \notin Before => \A p \in Now :
          \/ \E i \in 1..(proc.turn - 1) :
                 PairAt(i) = p /\ proc.runs[i].version = origin[p].version
          \/ /\ pc \in {"extract", "sandbox"} /\ p = Pair
             /\ proc.version[Model] = origin[p].version
    /\ \A m \in ModelSet : proc.version[m] # ABSENT =>
          (pc = "put" /\ m = Model) \/ \E p \in Now : p[2] = m
    /\ \A i \in 1..(proc.turn - 1) : proc.runs[i].version # ABSENT =>
          \E p \in Now : p[2] = PairAt(i)[2]

\* The questions of model m that this process may still have to pay for.
Ahead(m) ==
    {p \in Pairs : /\ p[2] = m /\ cache[p] = ABSENT
                   /\ \A i \in 1..(IF pc \in InTurn THEN proc.turn ELSE proc.turn - 1) :
                          PairAt(i) # p}

\* What was spent and what the questions ahead may cost was foreseen.
SpendInv ==
    /\ proc.total <= UsdCap
    /\ \A m \in ModelSet : m \notin proc.live => proc.spent[m] = 0
    /\ pc \notin Before => \A m \in ModelSet :
           /\ proc.spent[m] + CallBound * Cardinality(Ahead(m))
                  <= CallBound * (proc.misses[m] + faults)
           /\ CallBound * proc.misses[m] <= proc.opts.cap

-----------------------------------------------------------------------------
(* Fresh processes and the records of the turns.                            *)

LEMMA ProcessTyped ==
    ASSUME NEW o \in [override : BOOLEAN, refresh : BOOLEAN, cap : Nat]
    PROVE  Process(o) \in ProcessType
  <1>1. <<>> \in Seq(RunType)
    OBVIOUS
  <1> QED BY <1>1 DEF Process, ProcessType, PerModel, Files

LEMMA NobodyIs ==
    /\ Nobody \in ProcessType /\ Nobody = Process(Nobody.opts)
  <1> DEFINE o == [override |-> FALSE, refresh |-> FALSE, cap |-> 0]
  <1>1. o \in [override : BOOLEAN, refresh : BOOLEAN, cap : Nat]
    OBVIOUS
  <1>2. Nobody = Process(o) /\ Nobody.opts = o
    BY DEF Nobody, Process
  <1> QED BY <1>1, <1>2, ProcessTyped

\* A new process has asked nothing, spent nothing and recorded nothing.
LEMMA ProcessIs ==
    ASSUME NEW o
    PROVE  /\ Process(o).opts = o /\ Process(o).turn = 1 /\ Process(o).runs = <<>>
           /\ Process(o).total = 0 /\ Process(o).live = {}
           /\ Process(o).spent = [m \in ModelSet |-> 0]
           /\ Process(o).misses = [m \in ModelSet |-> 0]
           /\ Process(o).version = [m \in ModelSet |-> ABSENT]
  BY DEF Process, PerModel

\* What the end of a turn changes, and what it leaves.
LEMMA NextTurnIs ==
    ASSUME proc \in ProcessType, NEW r \in RunType
    PROVE  /\ NextTurn(r) \in ProcessType
           /\ NextTurn(r).runs = Append(proc.runs, r)
           /\ NextTurn(r).turn = proc.turn + 1
           /\ NextTurn(r).opts = proc.opts /\ NextTurn(r).live = proc.live
           /\ NextTurn(r).spent = proc.spent /\ NextTurn(r).total = proc.total
           /\ NextTurn(r).misses = proc.misses /\ NextTurn(r).result = proc.result
           /\ NextTurn(r).version = proc.version
  <1>1. Append(proc.runs, r) \in Seq(RunType)
    BY DEF ProcessType
  <1>2. proc.turn + 1 \in Nat
    BY DEF ProcessType
  <1> DEFINE p == [proc EXCEPT !.runs = Append(@, r), !.turn = @ + 1, !.response = ABSENT]
  <1>3. p \in ProcessType
    BY <1>1, <1>2 DEF ProcessType
  <1>4. /\ p.runs = Append(proc.runs, r) /\ p.turn = proc.turn + 1
        /\ p.opts = proc.opts /\ p.live = proc.live
        /\ p.spent = proc.spent /\ p.total = proc.total
        /\ p.misses = proc.misses /\ p.result = proc.result
        /\ p.version = proc.version
    BY DEF ProcessType
  <1> QED BY <1>3, <1>4 DEF NextTurn

LEMMA RecordTyped ==
    ASSUME proc \in ProcessType, proc.turn \in 1..Turns,
           NEW status \in {"ok", "wont_run", "generation_error"}, NEW output \in Nat
    PROVE  /\ Record(status, output) \in RunType
           /\ Record(status, output).pair = Pair
           /\ Record(status, output).status = status
           /\ Record(status, output).output = output
  <1>1. Pair \in Pairs /\ Model \in ModelSet
    BY PairInPairs DEF Pair, Model
  <1>2. proc.version[Model] \in ModelSet \cup {ABSENT}
    BY <1>1 DEF ProcessType
  <1> QED BY <1>1, <1>2 DEF Record, RunType

-----------------------------------------------------------------------------
(* Types and the loop.                                                      *)

LEMMA InitTyped == Init => StateInv /\ LoopInv
  <1> SUFFICES ASSUME Init PROVE StateInv /\ LoopInv
    OBVIOUS
  <1>1. StateInv
    BY CostAssumption, NobodyIs DEF Init, StateInv, Before, Files, NoFiles
  <1>2. proc.turn = 1 /\ proc.runs = <<>> /\ proc = Process(proc.opts)
    BY NobodyIs, ProcessIs DEF Init
  <1> QED BY <1>1, <1>2, Lengths DEF Init, LoopInv, Before, InTurn, After

\* In a turn there is a question, of one of the pairs.
LEMMA InATurn ==
    ASSUME LoopInv, Asking \/ pc \in InTurn
    PROVE  proc.turn \in 1..Turns /\ Pair \in Pairs /\ Model \in ModelSet
  <1>1. proc.turn \in 1..Turns
    BY Lengths DEF LoopInv, Asking
  <1> QED BY <1>1, PairInPairs DEF Pair, Model

\* How the steps that touch the process leave it typed.
LEMMA MissesTyped == Misses \in [ModelSet -> Nat]
  <1> SUFFICES ASSUME NEW m \in ModelSet
               PROVE  Cardinality({p \in Pairs : p[2] = m /\ cache[p] = ABSENT}) \in Nat
    BY DEF Misses
  <1>1. {p \in Pairs : p[2] = m /\ cache[p] = ABSENT} \in SUBSET Pairs
    OBVIOUS
  <1> QED BY <1>1, PairsFinite, FS_Subset, FS_CardinalityType

\* The process with a paid answer in hand.
Charged(cost, version, reply) ==
    [proc EXCEPT !.spent[Model] = @ + cost, !.total = @ + cost,
                 !.version[Model] = version, !.response = reply]

LEMMA ChargedTyped ==
    ASSUME StateInv, LoopInv, Asking, NEW cost \in Costs, NEW version \in ModelSet,
           NEW reply \in Responses
    PROVE  Charged(cost, version, reply) \in ProcessType
  <1> DEFINE spent == [proc.spent EXCEPT ![Model] = @ + cost]
             versions == [proc.version EXCEPT ![Model] = version]
             c == [proc EXCEPT !.spent = spent, !.total = @ + cost,
                               !.version = versions, !.response = reply]
  <1>1. proc \in ProcessType /\ Model \in ModelSet /\ cost \in Nat
    BY InATurn, CostAssumption DEF StateInv
  <1>2. spent \in [ModelSet -> Nat] /\ versions \in [ModelSet -> ModelSet \cup {ABSENT}]
    BY <1>1 DEF ProcessType
  <1>3. proc.total + cost \in Nat
    BY <1>1 DEF ProcessType
  <1>4. c = Charged(cost, version, reply)
    BY <1>1 DEF ProcessType, Charged
  <1> HIDE DEF spent, versions
  <1>5. c \in ProcessType
    BY <1>1, <1>2, <1>3 DEF ProcessType
  <1> QED BY <1>4, <1>5

\* What the answer changes in the process, and what it leaves.
LEMMA ChargedIs ==
    ASSUME proc \in ProcessType, NEW cost, NEW version, NEW reply,
           proc' = Charged(cost, version, reply)
    PROVE  /\ proc'.turn = proc.turn /\ proc'.runs = proc.runs
           /\ proc'.opts = proc.opts /\ proc'.live = proc.live
           /\ proc'.misses = proc.misses
           /\ proc'.response = reply /\ proc'.total = proc.total + cost
           /\ proc'.spent = [proc.spent EXCEPT ![Model] = @ + cost]
  BY DEF Charged, ProcessType

LEMMA ChargedVersion ==
    ASSUME proc \in ProcessType, NEW cost, NEW version, NEW reply,
           proc' = Charged(cost, version, reply)
    PROVE  proc'.version = [proc.version EXCEPT ![Model] = version]
  BY DEF Charged, ProcessType

\* A call either halts the run past its cap or leaves the answer in hand.
LEMMA AnsweredIs ==
    ASSUME NEW cost, NEW version, NEW reply, CallAnswered(cost, version, reply)
    PROVE  /\ Asking /\ cache[Pair] = ABSENT /\ Model \in proc.live
           /\ bought' = [bought EXCEPT ![Pair] = @ + 1]
           /\ UNCHANGED <<below, cache, jail, files, starts, faults, origin>>
           /\ \/ /\ pc' = "idle" /\ code' = "halted" /\ proc' = Nobody
                 /\ lost' = [lost EXCEPT ![Pair] = @ + 1]
              \/ /\ pc' = "put" /\ UNCHANGED code /\ proc' = Charged(cost, version, reply)
                 /\ ~ (Charged(cost, version, reply).total > UsdCap) /\ lost' = lost
  BY DEF CallAnswered, Charged, Exit, Goto, stores

LEMMA StateStep ==
    ASSUME StateInv, LoopInv, Next
    PROVE  StateInv'
  <1> USE DEF ledger, stores, Exit, Goto
  <1>1. CASE \E opts \in Options : Start(opts)
    <2> PICK opts \in Options : Start(opts)
      BY <1>1
    <2>1. Process(opts) \in ProcessType
      BY CostAssumption, ProcessTyped
    <2>2. starts' \in 0..MaxStarts /\ jail' \in [Pairs -> 0..starts']
      BY CostAssumption DEF StateInv, Start
    <2>3. origin' \in [Pairs -> [run : 0..starts', version : ModelSet \cup {ABSENT}]]
      <3>1. 0..starts \subseteq 0..starts'
        BY CostAssumption DEF StateInv, Start
      <3> QED BY <3>1 DEF StateInv, Start
    <2> QED BY <2>1, <2>2, <2>3 DEF StateInv, Start, Before
  <1>2. CASE RefuseGate \/ Route
    BY <1>2, NobodyIs DEF StateInv, RefuseGate, Route, Before
  <1>3. CASE CloseOutResult \/ CloseOutReport
    <2>1. [run |-> starts] \in Files
      BY CostAssumption DEF Files, StateInv
    <2> QED BY <1>3, <2>1, NobodyIs DEF StateInv, CloseOutResult, CloseOutReport, Before
  <1>4. CASE \E credentials \in BOOLEAN : Preflight(credentials)
    <2> PICK credentials \in BOOLEAN : Preflight(credentials)
      BY <1>4
    <2> DEFINE live == {m \in ModelSet : Misses[m] > 0}
    <2>1. [proc EXCEPT !.live = live, !.misses = Misses] \in ProcessType
      BY MissesTyped DEF StateInv, ProcessType
    <2> QED BY <2>1, NobodyIs DEF StateInv, Preflight, Before
  <1>5. CASE Replay
    <2>1. proc \in ProcessType /\ cache[Pair] \in Responses \cup {ABSENT}
      BY <1>5, InATurn DEF Replay, StateInv
    <2>2. [proc EXCEPT !.response = cache[Pair]] \in ProcessType
      BY <2>1 DEF ProcessType
    <2> QED BY <1>5, <2>2 DEF StateInv, Replay, InTurn
  <1>6. CASE UnexpectedMiss
    BY <1>6, NobodyIs DEF StateInv, UnexpectedMiss, Before
  <1>7. CASE CallFails
    <2>1. NextTurn(Record("generation_error", 0)) \in ProcessType
      BY <1>7, InATurn, RecordTyped, NextTurnIs DEF CallFails, StateInv
    <2> QED BY <1>7, <2>1 DEF StateInv, CallFails
  <1>8. CASE \E cost \in Costs, version \in ModelSet, reply \in Responses :
                CallAnswered(cost, version, reply)
    <2> PICK cost \in Costs, version \in ModelSet, reply \in Responses :
                CallAnswered(cost, version, reply)
      BY <1>8
    <2>1. /\ Asking /\ bought' = [bought EXCEPT ![Pair] = @ + 1]
          /\ lost' \in {lost, [lost EXCEPT ![Pair] = @ + 1]}
          /\ pc' \in {"idle", "put"} /\ code' \in {code, "halted"}
          /\ proc' \in {Nobody, Charged(cost, version, reply)}
          /\ UNCHANGED <<below, cache, jail, files, starts, faults, origin>>
      BY AnsweredIs
    <2>2. proc' \in ProcessType
      <3>1. Charged(cost, version, reply) \in ProcessType
        BY <2>1, ChargedTyped
      <3> QED BY <2>1, <3>1, NobodyIs
    <2>3. bought' \in [Pairs -> Nat] /\ lost' \in [Pairs -> Nat]
      <3>1. bought \in [Pairs -> Nat] /\ lost \in [Pairs -> Nat] /\ Pair \in Pairs
        BY <2>1, InATurn DEF StateInv
      <3> HIDE DEF Pair
      <3> QED BY <2>1, <3>1
    <2> QED BY <2>1, <2>2, <2>3 DEF StateInv, Before, InTurn
  <1>9. CASE Put
    <2>1. cache' \in [Pairs -> Responses \cup {ABSENT}]
      BY <1>9 DEF Put, StateInv, ProcessType
    <2>2. origin' \in [Pairs -> [run : 0..starts, version : ModelSet \cup {ABSENT}]]
      <3>1. Model \in ModelSet
        BY <1>9, InATurn DEF Put, InTurn
      <3>2. proc.version[Model] \in ModelSet \cup {ABSENT} /\ starts \in 0..starts
        BY <3>1, CostAssumption DEF StateInv, ProcessType
      <3> HIDE DEF Model, Pair
      <3> QED BY <1>9, <3>2 DEF Put, StateInv
    <2> QED BY <1>9, <2>1, <2>2 DEF StateInv, Put, InTurn
  <1>10. CASE Extract
    <2>1. NextTurn(Record("wont_run", 0)) \in ProcessType
      BY <1>10, InATurn, RecordTyped, NextTurnIs DEF Extract, StateInv, InTurn
    <2>2. jail' \in [Pairs -> 0..starts] /\ proc' \in ProcessType
          /\ pc' \in {"generate"} \cup InTurn
      BY <1>10, <2>1 DEF Extract, StateInv, InTurn
    <2> QED BY <1>10, <2>2 DEF StateInv, Extract
  <1>11. CASE \E writes, clean \in BOOLEAN : Sandbox(writes, clean)
    <2> PICK writes \in BOOLEAN, clean \in BOOLEAN : Sandbox(writes, clean)
      BY <1>11
    <2>1. Pair \in Pairs /\ proc.turn \in 1..Turns
      BY InATurn DEF Sandbox, InTurn
    <2>2. jail' \in [Pairs -> 0..starts]
      <3>1. jail \in [Pairs -> 0..starts] /\ starts \in 0..starts
        BY CostAssumption DEF StateInv
      <3> QED BY <2>1, <3>1 DEF Sandbox
    <2>3. jail'[Pair] \in Nat
      BY <2>1, <2>2, CostAssumption DEF StateInv
    <2>4. proc' \in ProcessType
      BY <2>1, <2>3, RecordTyped, NextTurnIs DEF Sandbox, StateInv
    <2> QED BY <2>2, <2>4 DEF StateInv, Sandbox
  <1>12. CASE \E rejected \in SUBSET RunsWith("ok"), evidence \in BOOLEAN :
                  Assemble(rejected, evidence)
    <2> PICK rejected \in SUBSET RunsWith("ok"), evidence \in BOOLEAN :
                  Assemble(rejected, evidence)
      BY <1>12
    <2>1. SkuMatch \in {"mismatch", "match", "unverified"}
      BY DEF SkuMatch
    <2>2. Reportable(RunsWith("ok") \ rejected, evidence) \in BOOLEAN
      BY DEF Reportable
    <2> DEFINE x == [run |-> starts, sku |-> SkuMatch, evidence |-> evidence,
                     reportable |-> Reportable(RunsWith("ok") \ rejected, evidence)]
    <2>3. x \in Files
      BY <2>1, <2>2, CostAssumption DEF Files, StateInv
    <2> HIDE DEF x
    <2>4. [proc EXCEPT !.result = x] \in ProcessType
      BY <2>3 DEF ProcessType, StateInv
    <2>5. proc' = [proc EXCEPT !.result = x]
      BY DEF Assemble, x
    <2> QED BY <2>4, <2>5 DEF StateInv, Assemble, After
  <1>13. CASE WriteJson \/ WriteReport
    <2>1. proc.result \in Files /\ [run |-> starts] \in Files
      BY CostAssumption DEF Files, StateInv, ProcessType
    <2> QED BY <1>13, <2>1, NobodyIs DEF StateInv, WriteJson, WriteReport, Before, After
  <1>14. CASE SetAside
    BY <1>14 DEF StateInv, SetAside, NoFiles, Files
  <1>15. CASE Crash
    <2>1. lost' \in [Pairs -> Nat]
      <3>1. lost \in [Pairs -> Nat]
        BY DEF StateInv
      <3>2. CASE pc = "put"
        <4>1. Pair \in Pairs
          BY <3>2, InATurn DEF InTurn
        <4> HIDE DEF Pair
        <4> QED BY <1>15, <3>1, <3>2, <4>1 DEF Crash
      <3> QED BY <1>15, <3>1, <3>2 DEF Crash
    <2>2. faults' \in 0..MaxFaults
      BY <1>15, CostAssumption DEF Crash, StateInv
    <2> QED BY <1>15, <2>1, <2>2, NobodyIs DEF StateInv, Crash, Before
  <1>16. CASE \E p \in Pairs : Evict(p)
    <2> PICK p \in Pairs : Evict(p)
      BY <1>16
    <2>1. lost' \in [Pairs -> Nat] /\ cache' \in [Pairs -> Responses \cup {ABSENT}]
      BY DEF Evict, StateInv
    <2>2. faults' \in 0..MaxFaults
      BY CostAssumption DEF Evict, StateInv
    <2> QED BY <2>1, <2>2 DEF StateInv, Evict
  <1> QED BY <1>1, <1>2, <1>3, <1>4, <1>5, <1>6, <1>7, <1>8, <1>9, <1>10, <1>11,
             <1>12, <1>13, <1>14, <1>15, <1>16 DEF Next

LEMMA LoopStep ==
    ASSUME StateInv, LoopInv, Next
    PROVE  LoopInv'
  <1> USE DEF ledger, stores, Exit, Goto
  <1>a. proc \in ProcessType /\ Turns \in Nat
    BY Lengths DEF StateInv
  <1>b. ASSUME proc' = Nobody, pc' = "idle" PROVE LoopInv'
    <2>1. proc'.turn = 1 /\ proc'.runs = <<>> /\ proc' = Process(proc'.opts)
      BY <1>b, NobodyIs, ProcessIs
    <2> QED BY <1>a, <1>b, <2>1 DEF LoopInv, Before, InTurn, After
  <1>c. ASSUME Asking \/ pc \in InTurn, pc' = "generate",
               NEW status \in {"ok", "wont_run", "generation_error"}, NEW output \in Nat,
               proc' = NextTurn(Record(status, output))
        PROVE  LoopInv'
    <2>1. proc.turn \in 1..Turns
      BY <1>c, InATurn
    <2> DEFINE r == Record(status, output)
    <2>2. r \in RunType /\ r.pair = PairAt(proc.turn)
      BY <1>a, <1>c, <2>1, RecordTyped DEF Pair
    <2> HIDE DEF r
    <2>3. proc'.turn = proc.turn + 1 /\ proc'.runs = Append(proc.runs, r)
      BY <1>a, <1>c, <2>2, NextTurnIs DEF r
    <2>4. proc.runs \in Seq(RunType) /\ Len(proc.runs) = proc.turn - 1
      BY <1>a DEF ProcessType, LoopInv
    <2>5. /\ Len(proc'.runs) = proc'.turn - 1
          /\ \A i \in 1..(proc'.turn - 1) : proc'.runs[i].pair = PairAt(i)
      BY <2>1, <2>2, <2>3, <2>4 DEF LoopInv
    <2> QED BY <1>a, <1>c, <2>1, <2>3, <2>5 DEF LoopInv, Before, InTurn, After
  <1>1. CASE \E opts \in Options : Start(opts)
    <2> PICK opts \in Options : Start(opts)
      BY <1>1
    <2>1. proc'.turn = 1 /\ proc'.runs = <<>> /\ proc' = Process(proc'.opts) /\ pc' = "route"
      BY ProcessIs DEF Start
    <2> QED BY <1>a, <2>1 DEF LoopInv, Before, InTurn, After
  <1>2. CASE RefuseGate \/ Route \/ CloseOutResult \/ CloseOutReport
    <2>1. CASE proc' = Nobody /\ pc' = "idle"
      BY <1>b, <2>1
    <2>2. CASE pc \in Before /\ pc' \in Before /\ proc' = proc
      BY <2>2 DEF LoopInv, Before, InTurn, After
    <2> QED BY <1>2, <2>1, <2>2 DEF RefuseGate, Route, CloseOutResult, CloseOutReport, Before
  <1>3. CASE \E credentials \in BOOLEAN : Preflight(credentials)
    <2>1. CASE proc' = Nobody /\ pc' = "idle"
      BY <1>b, <2>1
    <2>2. CASE pc' = "generate" /\ proc'.turn = proc.turn /\ proc'.runs = proc.runs
      BY <2>2 DEF LoopInv, Before, InTurn, After
    <2> QED BY <1>a, <1>3, <2>1, <2>2 DEF Preflight, ProcessType
  <1>4. CASE Replay
    <2>1. /\ proc'.turn = proc.turn /\ proc'.runs = proc.runs
          /\ proc'.response = cache[Pair] /\ pc' = "extract"
      BY <1>4, <1>a DEF Replay, ProcessType
    <2>2. cache[Pair] \in Responses /\ proc.turn <= Turns
      BY <1>4, InATurn DEF Replay, Asking, StateInv
    <2> QED BY <2>1, <2>2 DEF LoopInv, Before, InTurn, After
  <1>5. CASE UnexpectedMiss \/ Crash
    BY <1>5, <1>b DEF UnexpectedMiss, Crash
  <1>6. CASE CallFails
    BY <1>6, <1>c DEF CallFails, Asking
  <1>7. CASE \E cost \in Costs, version \in ModelSet, reply \in Responses :
                CallAnswered(cost, version, reply)
    <2> PICK cost \in Costs, version \in ModelSet, reply \in Responses :
                CallAnswered(cost, version, reply)
      BY <1>7
    <2>1. CASE proc' = Nobody /\ pc' = "idle"
      BY <1>b, <2>1
    <2>2. CASE pc' = "put" /\ proc' = Charged(cost, version, reply)
      <3>1. Asking
        BY AnsweredIs
      <3>2. /\ proc'.turn = proc.turn /\ proc'.runs = proc.runs /\ proc'.response = reply
        BY <1>a, <2>2, ChargedIs
      <3> QED BY <2>2, <3>1, <3>2 DEF LoopInv, Asking, Before, InTurn, After
    <2> QED BY <2>1, <2>2, AnsweredIs
  <1>8. CASE Put
    BY <1>8 DEF Put, LoopInv, Before, InTurn, After
  <1>9. CASE Extract
    <2>1. CASE pc' = "generate" /\ proc' = NextTurn(Record("wont_run", 0))
      BY <1>9, <2>1, <1>c DEF Extract, InTurn
    <2>2. CASE pc' = "sandbox" /\ proc' = proc
      BY <1>9, <2>2 DEF Extract, LoopInv, Before, InTurn, After
    <2> QED BY <1>9, <2>1, <2>2 DEF Extract
  <1>10. CASE \E writes, clean \in BOOLEAN : Sandbox(writes, clean)
    <2> PICK writes \in BOOLEAN, clean \in BOOLEAN : Sandbox(writes, clean)
      BY <1>10
    <2>1. jail'[Pair] \in Nat
      BY InATurn, StateStep, CostAssumption DEF Sandbox, InTurn, StateInv
    <2> QED BY <2>1, <1>c DEF Sandbox, InTurn
  <1>11. CASE \E rejected \in SUBSET RunsWith("ok"), evidence \in BOOLEAN :
                  Assemble(rejected, evidence)
    <2>1. proc'.turn = proc.turn /\ proc'.runs = proc.runs /\ pc' = "json"
      BY <1>a, <1>11 DEF Assemble, ProcessType
    <2> QED BY <1>a, <1>11, <2>1 DEF LoopInv, Assemble, Before, InTurn, After
  <1>12. CASE WriteJson
    BY <1>12 DEF WriteJson, LoopInv, Before, InTurn, After
  <1>13. CASE WriteReport
    BY <1>13, <1>b DEF WriteReport
  <1>14. CASE SetAside \/ \E p \in Pairs : Evict(p)
    <2>1. proc' = proc /\ pc' = pc
      BY <1>14 DEF SetAside, Evict
    <2> QED BY <2>1, Zenon DEF LoopInv
  <1> QED BY <1>1, <1>2, <1>3, <1>4, <1>5, <1>6, <1>7, <1>8, <1>9, <1>10, <1>11,
             <1>12, <1>13, <1>14 DEF Next

LEMMA Typed == Spec => [](StateInv /\ LoopInv)
  <1>1. StateInv /\ LoopInv /\ [Next]_vars => (StateInv /\ LoopInv)'
    <2> SUFFICES ASSUME StateInv, LoopInv, [Next]_vars PROVE StateInv' /\ LoopInv'
      OBVIOUS
    <2>1. CASE Next
      BY <2>1, StateStep, LoopStep
    <2>2. CASE UNCHANGED vars
      BY <2>2 DEF vars, StateInv, LoopInv
    <2> QED BY <2>1, <2>2
  <1> QED BY <1>1, InitTyped, PTL DEF Spec

\* Every state is well typed, and the loop leaves one record for each turn that
\* is done, of that turn's member and model (run_p2_driver, p2_driver.py 206-282).
THEOREM TypeCorrect == Spec => []TypeOK
  <1>1. StateInv /\ LoopInv => TypeOK
    <2> SUFFICES ASSUME StateInv, LoopInv PROVE TypeOK
      OBVIOUS
    <2>1. DOMAIN proc.runs = 1..(proc.turn - 1)
      BY DEF StateInv, LoopInv, ProcessType
    <2>2. starts <= MaxStarts /\ faults <= MaxFaults
      BY CostAssumption DEF StateInv
    <2> QED BY <2>1, <2>2 DEF TypeOK, StateInv, LoopInv
  <1> QED BY <1>1, Typed, PTL

-----------------------------------------------------------------------------
(* Paid once.                                                               *)

LEMMA PaidStep ==
    ASSUME StateInv, LoopInv, PaidInv, Next
    PROVE  PaidInv'
  <1> USE DEF ledger, stores, Exit, Goto
  <1>a. /\ bought \in [Pairs -> Nat] /\ lost \in [Pairs -> Nat]
        /\ cache \in [Pairs -> Responses \cup {ABSENT}]
    BY DEF StateInv
  <1>b. ASSUME UNCHANGED <<bought, lost, cache>>, pc # "put"
        PROVE  PaidInv'
    BY <1>a, <1>b DEF PaidInv
  <1>1. CASE Put
    <2>1. Pair \in Pairs /\ proc.response \in Responses /\ pc = "put"
      BY <1>1, InATurn DEF Put, InTurn, LoopInv
    <2>2. /\ cache'[Pair] # ABSENT
          /\ \A p \in Pairs : p # Pair => cache'[p] = cache[p]
      BY <1>1, <1>a, <2>1, CostAssumption DEF Put
    <2>3. UNCHANGED <<bought, lost>>
      BY <1>1 DEF Put
    <2> HIDE DEF Pair
    <2> QED BY <1>a, <2>1, <2>2, <2>3 DEF PaidInv
  <1>2. CASE \E cost \in Costs, version \in ModelSet, reply \in Responses :
                CallAnswered(cost, version, reply)
    <2> PICK cost \in Costs, version \in ModelSet, reply \in Responses :
                CallAnswered(cost, version, reply)
      BY <1>2
    <2>1. /\ Pair \in Pairs /\ cache[Pair] = ABSENT /\ pc = "generate"
          /\ bought' = [bought EXCEPT ![Pair] = @ + 1] /\ cache' = cache
          /\ \/ lost' = [lost EXCEPT ![Pair] = @ + 1]
             \/ lost' = lost /\ pc' = "put" /\ Pair' = Pair
      <3>1. Pair \in Pairs /\ Asking
        BY InATurn, AnsweredIs
      <3>2. CASE pc' = "put"
        <4>1. proc'.turn = proc.turn
          <5>1. proc \in ProcessType /\ proc' = Charged(cost, version, reply)
            BY <3>2, AnsweredIs DEF StateInv
          <5> QED BY <5>1, ChargedIs
        <4>2. Pair' = Pair
          BY <4>1 DEF Pair
        <4> QED BY <3>1, <3>2, <4>2, AnsweredIs DEF Asking
      <3> QED BY <3>1, <3>2, AnsweredIs DEF Asking
    <2>2. bought[Pair] <= lost[Pair] + 0
      BY <2>1 DEF PaidInv
    <2> DEFINE here == Pair
    <2> HIDE DEF here
    <2>3. /\ here \in Pairs /\ bought[here] <= lost[here]
          /\ bought' = [bought EXCEPT ![here] = @ + 1]
          /\ \/ lost' = [lost EXCEPT ![here] = @ + 1]
             \/ lost' = lost /\ pc' = "put" /\ Pair' = here
      BY <1>a, <2>1, <2>2 DEF here
    <2> SUFFICES ASSUME NEW p \in Pairs
                 PROVE  bought'[p] <= lost'[p]
                            + (IF cache'[p] # ABSENT \/ (pc' = "put" /\ p = Pair') THEN 1 ELSE 0)
      BY DEF PaidInv
    <2>4. bought[p] <= lost[p] + (IF cache[p] # ABSENT THEN 1 ELSE 0)
      BY <2>1 DEF PaidInv
    <2>5. CASE p = here
      BY <1>a, <2>3, <2>5
    <2>6. CASE p # here
      BY <1>a, <2>1, <2>3, <2>4, <2>6
    <2> QED BY <2>5, <2>6
  <1>3. CASE Crash
    <2>1. CASE pc = "put"
      <3>1. /\ Pair \in Pairs /\ lost' = [lost EXCEPT ![Pair] = @ + 1]
            /\ UNCHANGED <<bought, cache>>
        BY <1>3, <2>1, InATurn DEF Crash, InTurn
      <3> DEFINE here == Pair
      <3>2. \A p \in Pairs : bought[p] <= lost[p] + (IF cache[p] # ABSENT \/ p = here THEN 1 ELSE 0)
        BY <2>1 DEF PaidInv
      <3> HIDE DEF here
      <3>3. here \in Pairs /\ lost' = [lost EXCEPT ![here] = @ + 1]
        BY <3>1 DEF here
      <3> SUFFICES ASSUME NEW p \in Pairs
                   PROVE  bought[p] <= lost'[p] + (IF cache[p] # ABSENT THEN 1 ELSE 0)
        BY <1>3, <3>1 DEF PaidInv, Crash
      <3> QED BY <1>a, <3>2, <3>3
    <2>2. CASE pc # "put"
      BY <1>3, <2>2, <1>b DEF Crash
    <2> QED BY <2>1, <2>2
  <1>4. CASE \E p \in Pairs : Evict(p)
    <2> PICK e \in Pairs : Evict(e)
      BY <1>4
    <2>1. /\ pc # "put" /\ pc' # "put" /\ bought' = bought /\ cache[e] # ABSENT
          /\ cache' = [cache EXCEPT ![e] = ABSENT] /\ lost' = [lost EXCEPT ![e] = @ + 1]
      BY DEF Evict
    <2> QED BY <1>a, <2>1 DEF PaidInv
  <1>5. CASE Next /\ ~ Put /\ ~ Crash
             /\ ~ (\E cost \in Costs, version \in ModelSet, reply \in Responses :
                      CallAnswered(cost, version, reply))
             /\ ~ (\E p \in Pairs : Evict(p))
    <2>1. UNCHANGED <<bought, lost, cache>> /\ pc # "put"
      BY <1>5 DEF Next, Start, RefuseGate, Route, CloseOutResult, CloseOutReport, Preflight,
              Replay, UnexpectedMiss, CallFails, Extract, Sandbox, Assemble, WriteJson,
              WriteReport, SetAside, Asking
    <2> QED BY <1>b, <2>1
  <1> QED BY <1>1, <1>2, <1>3, <1>4, <1>5

\* An answer of a model is paid for a second time only after the first was lost
\* by a halt, a death or an eviction ("a re-run never pays twice for the same
\* prompt", run_p2_codegen.py 100-101).
THEOREM NeverPaysTwice == Spec => []PaidOnce
  <1>1. Init => PaidInv
    BY DEF Init, PaidInv
  <1>2. StateInv /\ LoopInv /\ PaidInv /\ [Next]_vars => PaidInv'
    <2> SUFFICES ASSUME StateInv, LoopInv, PaidInv, [Next]_vars PROVE PaidInv'
      OBVIOUS
    <2>1. CASE UNCHANGED vars
      BY <2>1 DEF vars, PaidInv, Pair
    <2> QED BY <2>1, PaidStep
  <1>3. StateInv /\ PaidInv => PaidOnce
    BY DEF StateInv, PaidInv, PaidOnce
  <1> QED BY <1>1, <1>2, <1>3, Typed, PTL DEF Spec

-----------------------------------------------------------------------------
(* A scored series is this run's own.                                       *)

EndsTurn ==
    CallFails \/ Extract \/ \E writes, clean \in BOOLEAN : Sandbox(writes, clean)

\* A step that ends no turn keeps the records or drops them with the process.
LEMMA BetweenTurns ==
    ASSUME StateInv, LoopInv, Next, ~ EndsTurn
    PROVE  /\ pc' # "sandbox"
           /\ \/ proc'.turn = 1 /\ proc'.runs = <<>> /\ pc' \in Before
              \/ proc'.turn = proc.turn /\ proc'.runs = proc.runs /\ UNCHANGED starts
  <1> USE DEF Exit, Goto, stores, ledger
  <1>a. Nobody.turn = 1 /\ Nobody.runs = <<>> /\ proc \in ProcessType
    BY NobodyIs, ProcessIs DEF StateInv
  <1>b. ASSUME proc' = Nobody, pc' = "idle"
        PROVE  pc' # "sandbox" /\ proc'.turn = 1 /\ proc'.runs = <<>> /\ pc' \in Before
    BY <1>a, <1>b DEF Before
  <1>1. CASE \E opts \in Options : Start(opts)
    BY <1>1, ProcessIs DEF Start, Before
  <1>2. CASE RefuseGate \/ Route \/ CloseOutResult \/ CloseOutReport
    <2>1. CASE proc' = Nobody /\ pc' = "idle"
      BY <1>b, <2>1
    <2>2. CASE proc' = proc
      BY <1>2, <2>2 DEF RefuseGate, Route, CloseOutResult, CloseOutReport
    <2> QED BY <1>2, <2>1, <2>2 DEF RefuseGate, Route, CloseOutResult, CloseOutReport
  <1>3. CASE \E credentials \in BOOLEAN : Preflight(credentials)
    BY <1>3, <1>a, <1>b DEF Preflight, ProcessType
  <1>4. CASE Replay
    BY <1>4, <1>a DEF Replay, ProcessType
  <1>5. CASE UnexpectedMiss \/ Crash \/ WriteReport
    BY <1>5, <1>b DEF UnexpectedMiss, Crash, WriteReport
  <1>6. CASE \E cost \in Costs, version \in ModelSet, reply \in Responses :
                CallAnswered(cost, version, reply)
    <2> PICK cost \in Costs, version \in ModelSet, reply \in Responses :
                CallAnswered(cost, version, reply)
      BY <1>6
    <2>1. CASE proc' = Nobody /\ pc' = "idle"
      BY <1>b, <2>1
    <2>2. CASE proc' = Charged(cost, version, reply) /\ pc' = "put"
      <3>1. proc'.turn = proc.turn /\ proc'.runs = proc.runs
        BY <1>a, <2>2, ChargedIs
      <3> QED BY <2>2, <3>1, AnsweredIs
    <2> QED BY <2>1, <2>2, AnsweredIs
  <1>7. CASE Put \/ WriteJson \/ SetAside
    BY <1>7, <1>a DEF Put, WriteJson, SetAside, StateInv, Before, InTurn, After
  <1>8. CASE \E rejected \in SUBSET RunsWith("ok"), evidence \in BOOLEAN :
                 Assemble(rejected, evidence)
    BY <1>8, <1>a DEF Assemble, ProcessType
  <1>9. CASE \E p \in Pairs : Evict(p)
    BY <1>9, <1>a DEF Evict
  <1> QED BY <1>1, <1>2, <1>3, <1>4, <1>5, <1>6, <1>7, <1>8, <1>9 DEF Next, EndsTurn

\* A turn ends with its own record after those of the turns before it.
LEMMA TurnEnds ==
    ASSUME StateInv, LoopInv, Asking \/ pc \in InTurn,
           NEW status \in {"ok", "wont_run", "generation_error"}, NEW output \in Nat,
           proc' = NextTurn(Record(status, output))
    PROVE  /\ proc.turn \in 1..Turns /\ proc'.turn = proc.turn + 1
           /\ DOMAIN proc.runs = 1..(proc.turn - 1) /\ DOMAIN proc'.runs = 1..proc.turn
           /\ proc'.runs[proc.turn] = Record(status, output)
           /\ \A i \in 1..(proc.turn - 1) : proc'.runs[i] = proc.runs[i]
           /\ proc'.result = proc.result /\ proc'.misses = proc.misses
           /\ proc'.spent = proc.spent /\ proc'.total = proc.total
           /\ proc'.live = proc.live /\ proc'.opts = proc.opts
           /\ proc'.version = proc.version
  <1>1. proc.turn \in 1..Turns /\ proc \in ProcessType
    BY InATurn DEF StateInv
  <1> DEFINE r == Record(status, output)
  <1>2. r \in RunType
    BY <1>1, RecordTyped
  <1> HIDE DEF r
  <1>3. /\ proc'.turn = proc.turn + 1 /\ proc'.runs = Append(proc.runs, r)
        /\ proc'.result = proc.result /\ proc'.misses = proc.misses
        /\ proc'.spent = proc.spent /\ proc'.total = proc.total
        /\ proc'.live = proc.live /\ proc'.opts = proc.opts
        /\ proc'.version = proc.version
    BY <1>1, <1>2, NextTurnIs DEF r
  <1>4. proc.runs \in Seq(RunType) /\ Len(proc.runs) = proc.turn - 1
    BY <1>1 DEF ProcessType, LoopInv
  <1> QED BY <1>1, <1>2, <1>3, <1>4 DEF r

LEMMA SeriesStep ==
    ASSUME StateInv, LoopInv, SeriesInv, Next
    PROVE  SeriesInv'
  <1> USE DEF Exit, Goto, stores, ledger
  <1>1. ASSUME Asking \/ pc \in InTurn, pc' # "sandbox",
               NEW status \in {"ok", "wont_run", "generation_error"}, NEW output \in Nat,
               status = "ok" => output = starts, UNCHANGED starts,
               proc' = NextTurn(Record(status, output))
        PROVE  SeriesInv'
    <2>1. Record(status, output).status = status /\ Record(status, output).output = output
      BY <1>1, InATurn, RecordTyped DEF StateInv
    <2>2. /\ proc.turn \in 1..Turns /\ proc'.turn = proc.turn + 1
          /\ DOMAIN proc.runs = 1..(proc.turn - 1) /\ DOMAIN proc'.runs = 1..proc.turn
          /\ proc'.runs[proc.turn] = Record(status, output)
          /\ \A i \in 1..(proc.turn - 1) : proc'.runs[i] = proc.runs[i]
      BY <1>1, TurnEnds
    <2> DEFINE r == Record(status, output)
    <2> HIDE DEF r
    <2>3. SUFFICES ASSUME NEW i \in 1..proc.turn, proc'.runs[i].status = "ok"
                   PROVE  proc'.runs[i].output = starts
      BY <1>1, <2>2 DEF SeriesInv, SeriesIsThisRuns, RunsWith
    <2>4. CASE i = proc.turn
      BY <1>1, <2>1, <2>2, <2>3, <2>4
    <2>5. CASE i # proc.turn
      <3>1. i \in 1..(proc.turn - 1)
        BY <2>2, <2>5
      <3> QED BY <2>2, <2>3, <3>1 DEF SeriesInv, SeriesIsThisRuns, RunsWith
    <2> QED BY <2>4, <2>5
  <1>2. CASE CallFails
    <2>1. Asking /\ UNCHANGED <<starts, pc>> /\ proc' = NextTurn(Record("generation_error", 0))
          /\ pc' # "sandbox"
      BY <1>2 DEF CallFails, Asking
    <2> QED BY <1>1, <2>1
  <1>3. CASE Extract
    <2>1. pc = "extract" /\ UNCHANGED starts
      BY <1>3 DEF Extract
    <2>2. CASE pc' = "generate" /\ proc' = NextTurn(Record("wont_run", 0))
      BY <1>1, <2>1, <2>2 DEF InTurn
    <2>3. CASE pc' = "sandbox" /\ proc' = proc /\ jail' = [jail EXCEPT ![Pair] = 0]
      <3>1. Pair' = Pair /\ Pair \in Pairs
        BY <2>1, <2>3, InATurn DEF Pair, InTurn
      <3> QED BY <2>1, <2>3, <3>1 DEF SeriesInv, SeriesIsThisRuns, RunsWith, StateInv
    <2> QED BY <1>3, <2>2, <2>3 DEF Extract
  <1>4. CASE \E writes, clean \in BOOLEAN : Sandbox(writes, clean)
    <2> PICK writes \in BOOLEAN, clean \in BOOLEAN : Sandbox(writes, clean)
      BY <1>4
    <2>1. pc = "sandbox" /\ Pair \in Pairs /\ jail \in [Pairs -> 0..starts] /\ starts \in Nat
          /\ jail[Pair] = 0
      BY InATurn, CostAssumption DEF Sandbox, InTurn, StateInv, SeriesInv
    <2>2. jail'[Pair] \in {0, starts}
      BY <2>1 DEF Sandbox
    <2>3. jail'[Pair] \in Nat /\ (jail'[Pair] # 0 => jail'[Pair] = starts)
      BY <2>1, <2>2
    <2>4. pc' = "generate" /\ UNCHANGED starts
          /\ \/ jail'[Pair] # 0 /\ proc' = NextTurn(Record("ok", jail'[Pair]))
             \/ proc' = NextTurn(Record("wont_run", 0))
      BY DEF Sandbox
    <2> QED BY <1>1, <2>1, <2>3, <2>4 DEF InTurn
  <1>5. CASE ~ EndsTurn
    BY <1>5, BetweenTurns DEF SeriesInv, SeriesIsThisRuns, RunsWith
  <1> QED BY <1>2, <1>3, <1>4, <1>5 DEF EndsTurn

\* A series that is scored was written by this invocation's own run of the program
\* (the jail is cleared first, p2_driver.py 247-251), whatever an earlier run left.
THEOREM SeriesAreFresh == Spec => []SeriesIsThisRuns
  <1>1. Init => SeriesInv
    <2> SUFFICES ASSUME Init PROVE SeriesInv
      OBVIOUS
    <2>1. proc.runs = <<>>
      BY NobodyIs, ProcessIs DEF Init
    <2> QED BY <2>1 DEF Init, SeriesInv, SeriesIsThisRuns, RunsWith
  <1>2. StateInv /\ LoopInv /\ SeriesInv /\ [Next]_vars => SeriesInv'
    <2> SUFFICES ASSUME StateInv, LoopInv, SeriesInv, [Next]_vars PROVE SeriesInv'
      OBVIOUS
    <2>1. CASE UNCHANGED vars
      BY <2>1 DEF vars, SeriesInv, SeriesIsThisRuns, RunsWith, Pair
    <2> QED BY <2>1, SeriesStep
  <1>3. SeriesInv => SeriesIsThisRuns
    BY DEF SeriesInv
  <1> QED BY <1>1, <1>2, <1>3, Typed, PTL DEF Spec

-----------------------------------------------------------------------------
(* A recorded result stands.                                                *)

LEMMA RecordStep ==
    ASSUME StateInv, LoopInv, RecordInv, Next
    PROVE  RecordInv'
  <1> USE DEF Exit, Goto, stores, ledger
  <1> DEFINE Places == [closeout : [json : Files, md : Files],
                        executed : [json : Files, md : Files]]
  <1>a. files \in Places /\ proc \in ProcessType
    BY DEF StateInv
  <1>b. ASSUME UNCHANGED files, pc' \in {"idle", "route", "closeout_json", "closeout_md"}
        PROVE  RecordInv'
    BY <1>b DEF RecordInv, InTurn
  \* What is being asked or run leaves the results alone.
  <1>c. ASSUME UNCHANGED files, pc \in {"preflight", "generate"} \cup InTurn,
               pc' \in {"preflight", "generate"} \cup InTurn
        PROVE  RecordInv'
    BY <1>c DEF RecordInv, InTurn
  <1>1. CASE (\E opts \in Options : Start(opts)) \/ RefuseGate \/ UnexpectedMiss \/ Crash
    BY <1>1, <1>b DEF Start, RefuseGate, UnexpectedMiss, Crash
  <1>2. CASE Route
    <2>1. CASE pc' = "preflight"
      BY <1>2, <2>1 DEF Route, RecordInv, InTurn
    <2> QED BY <1>2, <2>1, <1>b DEF Route
  <1>3. CASE CloseOutResult \/ CloseOutReport
    <2>1. files'.executed = files.executed /\ pc' \in {"idle", "closeout_md"}
      BY <1>3, <1>a DEF CloseOutResult, CloseOutReport
    <2> QED BY <2>1 DEF RecordInv, InTurn
  <1>4. CASE \E credentials \in BOOLEAN : Preflight(credentials)
    BY <1>4, <1>b, <1>c DEF Preflight
  <1>5. CASE Replay \/ CallFails \/ Put \/ Extract
             \/ \E writes, clean \in BOOLEAN : Sandbox(writes, clean)
    BY <1>5, <1>c DEF Replay, CallFails, Put, Extract, Sandbox, Asking, InTurn
  <1>6. CASE \E cost \in Costs, version \in ModelSet, reply \in Responses :
                CallAnswered(cost, version, reply)
    BY <1>6, <1>b, <1>c, AnsweredIs DEF Asking, InTurn
  <1>7. CASE \E rejected \in SUBSET RunsWith("ok"), evidence \in BOOLEAN :
                  Assemble(rejected, evidence)
    <2>1. /\ proc'.result.run = starts /\ pc' = "json" /\ pc = "generate"
          /\ UNCHANGED <<files, starts>>
      BY <1>7, <1>a DEF Assemble, ProcessType
    <2> QED BY <2>1 DEF RecordInv, InTurn
  <1>8. CASE WriteJson
    <2>1. files.executed = NoFiles /\ proc.result.run = starts
      BY <1>8 DEF WriteJson, RecordInv
    <2>2. files'.executed.md = ABSENT /\ files'.executed.json = proc.result
      BY <1>8, <1>a, <2>1 DEF WriteJson, NoFiles
    <2> QED BY <1>8, <2>1, <2>2 DEF WriteJson, RecordInv, InTurn
  <1>9. CASE WriteReport
    <2>1. files.executed.json.run = starts /\ pc' = "idle"
      BY <1>9 DEF WriteReport, RecordInv
    <2>2. files'.executed.md.run = starts /\ files'.executed.json = files.executed.json
      BY <1>9, <1>a DEF WriteReport
    <2> QED BY <2>1, <2>2 DEF RecordInv, InTurn
  <1>10. CASE SetAside
    <2>1. files'.executed = NoFiles /\ pc' = "idle"
      BY <1>10, <1>a DEF SetAside
    <2> QED BY <2>1 DEF RecordInv, InTurn, NoFiles
  <1>11. CASE \E p \in Pairs : Evict(p)
    <2>1. UNCHANGED <<files, pc, proc, starts>>
      BY <1>11 DEF Evict
    <2> QED BY <2>1 DEF RecordInv
  <1> QED BY <1>1, <1>2, <1>3, <1>4, <1>5, <1>6, <1>7, <1>8, <1>9, <1>10, <1>11 DEF Next

LEMMA RecordsStand == Spec => []RecordInv
  <1>1. Init => RecordInv
    BY DEF Init, RecordInv, InTurn, NoFiles
  <1>2. StateInv /\ LoopInv /\ RecordInv /\ [Next]_vars => RecordInv'
    <2> SUFFICES ASSUME StateInv, LoopInv, RecordInv, [Next]_vars PROVE RecordInv'
      OBVIOUS
    <2>1. CASE UNCHANGED vars
      BY <2>1 DEF vars, RecordInv
    <2> QED BY <2>1, RecordStep
  <1> QED BY <1>1, <1>2, Typed, PTL DEF Spec

\* A recorded result is never overwritten, only moved aside, and a report stands
\* beside the result of its own run (run_p2_codegen.py 378-383, 581-595).
THEOREM ResultsAreRecordedOnce == Spec => RecordedOnce
  <1>1. StateInv /\ RecordInv /\ RecordInv' /\ [Next]_vars
            => [ResultStands]_vars
    <2> SUFFICES ASSUME StateInv, RecordInv, RecordInv', Next PROVE ResultStands
      OBVIOUS
    <2> USE DEF ResultStands
    <2>1. files \in [closeout : [json : Files, md : Files],
                     executed : [json : Files, md : Files]]
      BY DEF StateInv
    <2>2. CASE UNCHANGED files
      BY <2>2, RecordInv' DEF RecordInv
    <2>3. CASE CloseOutResult \/ CloseOutReport
      <3>1. files'.executed = files.executed
        BY <2>1, <2>3 DEF CloseOutResult, CloseOutReport
      <3> QED BY <3>1 DEF RecordInv
    <2>4. CASE WriteJson
      BY <2>4 DEF RecordInv, WriteJson
    <2>5. CASE WriteReport
      <3>1. files'.executed.json = files.executed.json
        BY <2>1, <2>5 DEF WriteReport
      <3> QED BY <3>1 DEF RecordInv
    <2>6. CASE SetAside
      <3>1. files'.executed = NoFiles
        BY <2>1, <2>6 DEF SetAside
      <3> QED BY <3>1 DEF RecordInv, NoFiles
    <2> QED BY <2>2, <2>3, <2>4, <2>5, <2>6
            DEF Next, Start, RefuseGate, Route, Preflight, Replay, UnexpectedMiss, CallFails,
                CallAnswered, Put, Extract, Sandbox, Assemble, Crash, Evict, stores
  <1> QED BY <1>1, Typed, RecordsStand, PTL DEF Spec, RecordedOnce

-----------------------------------------------------------------------------
(* A reportable result is earned.                                           *)

\* What Assemble found when it calls a result reportable.
LEMMA ReportableIs ==
    ASSUME StateInv, LoopInv, proc.turn > Turns,
           NEW rejected \in SUBSET RunsWith("ok"), NEW evidence \in BOOLEAN,
           Reportable(RunsWith("ok") \ rejected, evidence)
    PROVE  /\ ~below /\ evidence
           /\ RunsWith("generation_error") = {}
           /\ \A i \in 1..Turns : proc.runs[i].version = PairAt(i)[2]
           /\ \E k \in DOMAIN Members : \A m \in ModelSet :
                  \E i \in RunsWith("ok") : proc.runs[i].pair = <<Members[k], m>>
  <1>1. proc.turn = Turns + 1 /\ DOMAIN proc.runs = 1..Turns
    BY Lengths DEF StateInv, LoopInv, ProcessType
  <1>2. ~below /\ evidence /\ RunsWith("generation_error") = {}
        /\ Scored(RunsWith("ok") \ rejected) # {} /\ SkuMatch = "match"
    BY DEF Reportable
  <1>3. Verified = DOMAIN proc.runs
        /\ \A i \in Verified : proc.runs[i].version = proc.runs[i].pair[2]
    BY <1>2 DEF SkuMatch
  <1>4. \A i \in 1..Turns : proc.runs[i].version = PairAt(i)[2]
    <2> SUFFICES ASSUME NEW i \in 1..Turns PROVE proc.runs[i].version = PairAt(i)[2]
      OBVIOUS
    <2>1. i \in Verified /\ i \in 1..(proc.turn - 1)
      BY <1>1, <1>3, Lengths
    <2>2. proc.runs[i].pair = PairAt(i)
      BY <2>1 DEF LoopInv
    <2> QED BY <1>3, <2>1, <2>2
  <1>5. \E k \in DOMAIN Members : \A m \in ModelSet :
            \E i \in RunsWith("ok") : proc.runs[i].pair = <<Members[k], m>>
    BY <1>2 DEF Scored
  <1> QED BY <1>2, <1>4, <1>5

LEMMA EarnedStep ==
    ASSUME StateInv, LoopInv, EarnedInv, Next
    PROVE  EarnedInv'
  <1> USE DEF Exit, Goto, stores, ledger
  <1>a. /\ cache \in [Pairs -> Responses \cup {ABSENT}] /\ proc \in ProcessType
        /\ faults \in Nat
    BY CostAssumption DEF StateInv
  <1>b. ASSUME Asking \/ pc \in InTurn, pc' = "generate", UNCHANGED <<cache, faults>>,
               NEW status \in {"ok", "wont_run", "generation_error"}, NEW output \in Nat,
               status = "generation_error" \/ pc \in {"extract", "sandbox"},
               proc' = NextTurn(Record(status, output))
        PROVE  EarnedInv'
    <2>1. /\ proc.turn \in 1..Turns /\ proc'.turn = proc.turn + 1
          /\ proc'.runs[proc.turn] = Record(status, output)
          /\ \A i \in 1..(proc.turn - 1) : proc'.runs[i] = proc.runs[i]
      BY <1>b, TurnEnds
    <2>2. Record(status, output).status = status
      BY <1>a, <1>b, <2>1, RecordTyped
    <2>3. SUFFICES ASSUME faults = 0, NEW i \in 1..proc.turn,
                          proc'.runs[i].status # "generation_error"
                   PROVE  cache[PairAt(i)] # ABSENT
      BY <1>b, <2>1 DEF EarnedInv, After
    <2>4. CASE i = proc.turn
      BY <1>b, <2>1, <2>2, <2>3, <2>4 DEF EarnedInv, Pair
    <2>5. CASE i # proc.turn
      <3>1. i \in 1..(proc.turn - 1)
        BY <2>1, <2>5
      <3> QED BY <2>1, <2>3, <3>1 DEF EarnedInv
    <2> QED BY <2>4, <2>5
  \* Between the turns the cache only grows, unless there is a fault.
  <1>c. ASSUME ~ EndsTurn,
               faults' = 0 => faults = 0 /\ \A p \in Pairs : cache[p] # ABSENT => cache'[p] # ABSENT,
               pc' \notin {"extract", "sandbox"} \cup After
        PROVE  EarnedInv'
    <2>1. CASE proc'.turn = 1
      BY <1>c, <2>1 DEF EarnedInv
    <2>2. CASE proc'.turn = proc.turn /\ proc'.runs = proc.runs
      <3>1. ASSUME faults' = 0, NEW i \in 1..(proc.turn - 1),
                   proc.runs[i].status # "generation_error"
            PROVE  cache'[PairAt(i)] # ABSENT
        <4>1. i \in 1..Turns
          BY <3>1, Lengths DEF LoopInv
        <4>2. PairAt(i) \in Pairs
          BY <4>1, PairInPairs
        <4> QED BY <1>c, <3>1, <4>2 DEF EarnedInv
      <3> QED BY <1>c, <2>2, <3>1 DEF EarnedInv
    <2> QED BY <1>c, <2>1, <2>2, BetweenTurns
  <1>1. CASE CallFails
    <2>1. Asking /\ pc' = "generate" /\ UNCHANGED <<cache, faults>>
          /\ proc' = NextTurn(Record("generation_error", 0))
      BY <1>1 DEF CallFails, Asking
    <2> QED BY <2>1, <1>b
  <1>2. CASE Extract
    <2>1. pc = "extract" /\ UNCHANGED <<cache, faults>>
      BY <1>2 DEF Extract
    <2>2. CASE pc' = "generate" /\ proc' = NextTurn(Record("wont_run", 0))
      BY <1>b, <2>1, <2>2 DEF InTurn
    <2>3. CASE pc' = "sandbox" /\ proc' = proc
      BY <2>1, <2>3 DEF EarnedInv, Pair, After
    <2> QED BY <1>2, <2>2, <2>3 DEF Extract
  <1>3. CASE \E writes, clean \in BOOLEAN : Sandbox(writes, clean)
    <2> PICK writes \in BOOLEAN, clean \in BOOLEAN : Sandbox(writes, clean)
      BY <1>3
    <2>1. pc = "sandbox" /\ pc' = "generate" /\ UNCHANGED <<cache, faults>>
      BY DEF Sandbox
    <2>2. jail'[Pair] \in Nat
      BY <2>1, InATurn, StateStep, CostAssumption DEF InTurn, StateInv
    <2>3. \/ proc' = NextTurn(Record("ok", jail'[Pair]))
          \/ proc' = NextTurn(Record("wont_run", 0))
      BY DEF Sandbox
    <2> QED BY <1>b, <2>1, <2>2, <2>3 DEF InTurn
  <1>4. CASE Replay
    <2>1. /\ pc' = "extract" /\ UNCHANGED <<cache, faults>> /\ cache[Pair] # ABSENT
          /\ proc'.turn = proc.turn /\ proc'.runs = proc.runs
      BY <1>4, <1>a DEF Replay, ProcessType
    <2> QED BY <2>1 DEF EarnedInv, Pair, After
  <1>5. CASE Put
    <2>1. Pair \in Pairs /\ proc.response \in Responses /\ proc.turn <= Turns
      BY <1>5, InATurn DEF Put, InTurn, LoopInv
    <2>2. /\ pc' = "extract" /\ UNCHANGED <<proc, faults>> /\ cache'[Pair] # ABSENT
          /\ \A p \in Pairs : cache[p] # ABSENT => cache'[p] # ABSENT
      BY <1>5, <1>a, <2>1, CostAssumption DEF Put
    <2>3. \A i \in 1..(proc.turn - 1) : PairAt(i) \in Pairs
      BY <2>1, Lengths, PairInPairs DEF LoopInv
    <2>4. Pair' = Pair
      BY <2>2 DEF Pair
    <2> HIDE DEF Pair
    <2> QED BY <2>2, <2>3, <2>4 DEF EarnedInv, After
  <1>6. CASE \E rejected \in SUBSET RunsWith("ok"), evidence \in BOOLEAN :
                  Assemble(rejected, evidence)
    <2> PICK rejected \in SUBSET RunsWith("ok"), evidence \in BOOLEAN :
                  Assemble(rejected, evidence)
      BY <1>6
    <2>1. /\ pc' = "json" /\ UNCHANGED <<cache, faults, below>> /\ proc.turn > Turns
          /\ proc'.turn = proc.turn /\ proc'.runs = proc.runs
          /\ proc'.result.evidence = evidence
          /\ proc'.result.reportable = Reportable(RunsWith("ok") \ rejected, evidence)
      BY <1>a DEF Assemble, ProcessType
    <2>2. RunsWith("ok")' = RunsWith("ok")
          /\ RunsWith("generation_error")' = RunsWith("generation_error")
      BY <2>1 DEF RunsWith
    <2>3. ASSUME proc'.result.reportable
          PROVE  /\ ~below' /\ proc'.result.evidence
                 /\ RunsWith("generation_error")' = {}
                 /\ \A i \in 1..Turns : proc'.runs[i].version = PairAt(i)[2]
                 /\ \E k \in DOMAIN Members : \A m \in ModelSet :
                        \E i \in RunsWith("ok")' : proc'.runs[i].pair = <<Members[k], m>>
      BY <2>1, <2>2, <2>3, ReportableIs
    <2> QED BY <2>1, <2>3 DEF EarnedInv
  <1>7. CASE WriteJson
    <2>1. pc = "json" /\ pc' = "md" /\ UNCHANGED <<proc, cache, faults, below>>
      BY <1>7 DEF WriteJson
    <2> QED BY <2>1 DEF EarnedInv, After, RunsWith, Pair
  <1>8. CASE \/ \E opts \in Options : Start(opts)
             \/ RefuseGate \/ Route \/ CloseOutResult \/ CloseOutReport
             \/ \E credentials \in BOOLEAN : Preflight(credentials)
             \/ UnexpectedMiss \/ WriteReport \/ SetAside
    <2>1. UNCHANGED <<cache, faults>> /\ pc' \notin {"extract", "sandbox"} \cup After
      BY <1>8 DEF Start, RefuseGate, Route, CloseOutResult, CloseOutReport, Preflight,
                  UnexpectedMiss, WriteReport, SetAside, After
    <2>2. \/ pc \in {"idle", "route", "closeout_json", "closeout_md", "preflight", "md"}
          \/ Asking /\ pc' = "idle"
      BY <1>8 DEF Start, RefuseGate, Route, CloseOutResult, CloseOutReport, Preflight,
                  UnexpectedMiss, WriteReport, SetAside
    <2>3. ~ EndsTurn
      BY <2>2 DEF EndsTurn, CallFails, Extract, Sandbox, Asking
    <2> QED BY <1>c, <2>1, <2>3
  <1>9. CASE \E cost \in Costs, version \in ModelSet, reply \in Responses :
                CallAnswered(cost, version, reply)
    <2>1. UNCHANGED <<cache, faults>> /\ pc' \in {"idle", "put"}
      BY <1>9, AnsweredIs
    <2>2. ~ EndsTurn
      BY <1>9, <2>1, AnsweredIs DEF EndsTurn, CallFails, Extract, Sandbox, Asking
    <2> QED BY <1>c, <2>1, <2>2 DEF After
  <1>10. CASE Crash \/ \E p \in Pairs : Evict(p)
    <2>1. faults' = faults + 1 /\ pc' \in {"idle", "generate"}
      BY <1>10 DEF Crash, Evict
    <2> QED BY <1>a, <2>1 DEF EarnedInv, After
  <1> QED BY <1>1, <1>2, <1>3, <1>4, <1>5, <1>6, <1>7, <1>8, <1>9, <1>10 DEF Next

LEMMA Earned == Spec => []EarnedInv
  <1>1. Init => EarnedInv
    <2> SUFFICES ASSUME Init PROVE EarnedInv
      OBVIOUS
    <2>1. proc.turn = 1 /\ pc = "idle"
      BY NobodyIs, ProcessIs DEF Init
    <2> QED BY <2>1 DEF EarnedInv, After
  <1>2. StateInv /\ LoopInv /\ EarnedInv /\ [Next]_vars => EarnedInv'
    <2> SUFFICES ASSUME StateInv, LoopInv, EarnedInv, [Next]_vars PROVE EarnedInv'
      OBVIOUS
    <2>1. CASE UNCHANGED vars
      BY <2>1 DEF vars, EarnedInv, RunsWith, Pair
    <2> QED BY <2>1, EarnedStep
  <1> QED BY <1>1, <1>2, Typed, PTL DEF Spec

\* Each step keeps the record of what this invocation has answered.
LEMMA OriginStep ==
    ASSUME StateInv, LoopInv, OriginInv, Next
    PROVE  OriginInv'
  <1> USE DEF Exit, Goto, stores, ledger
  <1>a. /\ proc \in ProcessType /\ starts \in Nat /\ Turns \in Nat
        /\ origin \in [Pairs -> [run : 0..starts, version : ModelSet \cup {ABSENT}]]
    BY CostAssumption, Lengths DEF StateInv
  <1>b. ASSUME proc'.version = [m \in ModelSet |-> ABSENT], proc'.turn = 1,
               pc' = "idle" \/ (pc' = "route" /\ Now' = {})
        PROVE  OriginInv'
    BY <1>b DEF OriginInv, Before
  <1>c. ASSUME proc' = Nobody, pc' = "idle"
        PROVE  OriginInv'
    <2>1. proc'.turn = 1 /\ proc'.version = [m \in ModelSet |-> ABSENT]
      BY <1>c, NobodyIs, ProcessIs
    <2> QED BY <1>b, <1>c, <2>1
  \* A step that asks nothing and ends no turn.
  <1>d. ASSUME UNCHANGED <<origin, starts>>, proc'.turn = proc.turn,
               proc'.runs = proc.runs, proc'.version = proc.version,
               \/ pc' = pc
               \/ pc \in Before \ {"idle"} /\ pc' # "idle"
               \/ pc \in {"generate", "json"} /\ pc' \notin Before
               \/ pc = "extract" /\ pc' = "sandbox"
        PROVE  OriginInv'
    <2>1. Now' = Now /\ Pair' = Pair /\ Model' = Model
      BY <1>d DEF Now, Pair, Model
    <2> HIDE DEF Now, Pair, Model
    <2>2. CASE pc' = pc
      BY <1>d, <2>1, <2>2 DEF OriginInv
    <2>3. CASE pc \in Before \ {"idle"} /\ pc' # "idle"
      <3>1. Now = {} /\ pc # "put"
        BY <2>3 DEF OriginInv, Before
      <3> QED BY <1>d, <2>1, <3>1 DEF OriginInv
    <2>4. CASE \/ pc \in {"generate", "json"} /\ pc' \notin Before
               \/ pc = "extract" /\ pc' = "sandbox"
      <3>1. pc \notin Before /\ pc' \notin Before /\ pc # "put"
        BY <2>4 DEF Before
      <3> QED BY <1>d, <2>1, <2>4, <3>1 DEF OriginInv
    <2> QED BY <1>d, <2>2, <2>3, <2>4
  \* The end of a turn: its record holds the version the client holds.
  <1>e. ASSUME Asking \/ pc \in {"extract", "sandbox"}, pc' = "generate",
               UNCHANGED <<origin, starts>>,
               NEW status \in {"ok", "wont_run", "generation_error"}, NEW output \in Nat,
               proc' = NextTurn(Record(status, output))
        PROVE  OriginInv'
    <2>1. /\ proc.turn \in 1..Turns /\ proc'.turn = proc.turn + 1
          /\ proc'.runs[proc.turn] = Record(status, output)
          /\ \A i \in 1..(proc.turn - 1) : proc'.runs[i] = proc.runs[i]
          /\ proc'.version = proc.version
      BY <1>e, TurnEnds DEF InTurn
    <2>2. proc'.runs[proc.turn].version = proc.version[Model]
      BY <2>1 DEF Record
    <2>3. /\ Pair = PairAt(proc.turn) /\ Model = PairAt(proc.turn)[2] /\ Model \in ModelSet
      BY <2>1, PairInPairs DEF Pair, Model
    <2>4. Now' = Now /\ pc \notin Before /\ pc # "put"
      BY <1>e DEF Now, Asking, Before
    <2> HIDE DEF Now, Model, Pair
    <2>5. ASSUME NEW p \in Now
          PROVE  \E i \in 1..(proc'.turn - 1) :
                     PairAt(i) = p /\ proc'.runs[i].version = origin[p].version
      <3>1. CASE \E i \in 1..(proc.turn - 1) :
                     PairAt(i) = p /\ proc.runs[i].version = origin[p].version
        BY <2>1, <3>1
      <3>2. CASE p = Pair /\ proc.version[Model] = origin[p].version
        BY <2>1, <2>2, <2>3, <3>2
      <3> QED BY <2>4, <2>5, <3>1, <3>2 DEF OriginInv
    <2>6. ASSUME NEW m \in ModelSet, proc'.version[m] # ABSENT
          PROVE  \E p \in Now : p[2] = m
      BY <2>1, <2>4, <2>6 DEF OriginInv
    <2>7. ASSUME NEW i \in 1..(proc'.turn - 1), proc'.runs[i].version # ABSENT
          PROVE  \E p \in Now : p[2] = PairAt(i)[2]
      <3>1. CASE i = proc.turn
        BY <2>1, <2>2, <2>3, <2>6, <2>7, <3>1
      <3>2. CASE i # proc.turn
        <4>1. i \in 1..(proc.turn - 1)
          BY <2>1, <3>2
        <4> QED BY <2>1, <2>7, <4>1 DEF OriginInv
      <3> QED BY <3>1, <3>2
    <2> QED BY <1>e, <2>4, <2>5, <2>6, <2>7 DEF OriginInv, Before
  <1>1. CASE \E opts \in Options : Start(opts)
    <2> PICK opts \in Options : Start(opts)
      BY <1>1
    <2>1. proc'.turn = 1 /\ proc'.version = [m \in ModelSet |-> ABSENT] /\ pc' = "route"
      BY ProcessIs DEF Start
    <2>2. Now' = {}
      BY <1>a DEF Now, Start
    <2> QED BY <1>b, <2>1, <2>2
  <1>2. CASE RefuseGate \/ Route \/ CloseOutResult \/ CloseOutReport
    <2>1. CASE proc' = Nobody /\ pc' = "idle"
      BY <1>c, <2>1
    <2>2. CASE /\ proc' = proc /\ UNCHANGED <<origin, starts>>
               /\ pc \in Before \ {"idle"} /\ pc' \in Before \ {"idle"}
      BY <1>d, <2>2 DEF Before
    <2> QED BY <1>2, <2>1, <2>2 DEF RefuseGate, Route, CloseOutResult, CloseOutReport, Before
  <1>3. CASE \E credentials \in BOOLEAN : Preflight(credentials)
    <2>1. CASE proc' = Nobody /\ pc' = "idle"
      BY <1>c, <2>1
    <2>2. CASE /\ pc = "preflight" /\ pc' = "generate" /\ UNCHANGED <<origin, starts>>
               /\ proc'.turn = proc.turn /\ proc'.runs = proc.runs
               /\ proc'.version = proc.version
      <3>1. pc \in Before \ {"idle"} /\ pc' # "idle"
        BY <2>2 DEF Before
      <3> QED BY <1>d, <2>2, <3>1
    <2>3. PICK live, misses :
              \/ proc' = Nobody /\ pc' = "idle"
              \/ /\ proc' = [proc EXCEPT !.live = live, !.misses = misses]
                 /\ pc' = "generate"
      BY <1>3 DEF Preflight
    <2>4. pc = "preflight" /\ UNCHANGED <<origin, starts>>
      BY <1>3 DEF Preflight
    <2> QED BY <1>a, <2>1, <2>2, <2>3, <2>4 DEF ProcessType
  <1>4. CASE Replay
    <2>1. /\ pc = "generate" /\ pc' = "extract" /\ UNCHANGED <<origin, starts>>
          /\ proc'.turn = proc.turn /\ proc'.runs = proc.runs
          /\ proc'.version = proc.version
      BY <1>4, <1>a DEF Replay, Asking, ProcessType
    <2> QED BY <1>d, <2>1 DEF Before
  <1>5. CASE UnexpectedMiss \/ Crash \/ WriteReport
    BY <1>5, <1>c DEF UnexpectedMiss, Crash, WriteReport
  <1>6. CASE CallFails
    BY <1>6, <1>e DEF CallFails, Asking
  <1>7. CASE \E cost \in Costs, version \in ModelSet, reply \in Responses :
                CallAnswered(cost, version, reply)
    <2> PICK cost \in Costs, version \in ModelSet, reply \in Responses :
                CallAnswered(cost, version, reply)
      BY <1>7
    <2>1. CASE proc' = Nobody /\ pc' = "idle"
      BY <1>c, <2>1
    <2>2. CASE pc' = "put" /\ proc' = Charged(cost, version, reply)
      <3>1. /\ Asking /\ Model \in ModelSet /\ proc'.turn = proc.turn /\ proc'.runs = proc.runs
            /\ proc'.version = [proc.version EXCEPT ![Model] = version]
            /\ UNCHANGED <<origin, starts>>
        BY <1>a, <2>2, ChargedIs, ChargedVersion, AnsweredIs, InATurn
      <3>2. Now' = Now /\ Model' = Model
        BY <3>1 DEF Now, Model, Pair
      <3>3. pc = "generate" /\ proc.version \in [ModelSet -> ModelSet \cup {ABSENT}]
        BY <1>a, <3>1 DEF Asking, ProcessType
      <3> HIDE DEF Now, Model
      <3>4. ASSUME NEW m \in ModelSet, proc'.version[m] # ABSENT, m # Model
            PROVE  \E p \in Now : p[2] = m
        BY <3>1, <3>3, <3>4 DEF OriginInv
      <3> QED BY <2>2, <3>1, <3>2, <3>3, <3>4 DEF OriginInv, Before
    <2> QED BY <2>1, <2>2, AnsweredIs
  <1>8. CASE Put
    <2>1. /\ pc = "put" /\ pc' = "extract" /\ UNCHANGED <<proc, starts>>
          /\ Pair \in Pairs /\ Model \in ModelSet /\ Pair[2] = Model
          /\ Pair' = Pair /\ Model' = Model
          /\ origin' = [origin EXCEPT ![Pair] = [run |-> starts, version |-> proc.version[Model]]]
      BY <1>8, InATurn DEF Put, InTurn, Pair, Model
    <2> HIDE DEF Pair, Model
    <2>2. /\ Now' = Now \cup {Pair}
          /\ origin'[Pair].version = proc.version[Model]
          /\ \A p \in Pairs : p # Pair => origin'[p] = origin[p]
      BY <1>a, <2>1 DEF Now
    <2>3. \A p \in Now' : p \in Pairs
      BY DEF Now
    <2> HIDE DEF Now
    <2>4. ASSUME NEW p \in Now'
          PROVE  \/ \E i \in 1..(proc'.turn - 1) :
                        PairAt(i) = p /\ proc'.runs[i].version = origin'[p].version
                 \/ p = Pair' /\ proc'.version[Model'] = origin'[p].version
      <3>1. CASE p = Pair
        BY <2>1, <2>2, <3>1
      <3>2. CASE p # Pair
        <4>1. p \in Now /\ origin'[p] = origin[p] /\ pc \notin Before
          BY <2>1, <2>2, <2>3, <3>2 DEF Before
        <4>2. \E i \in 1..(proc.turn - 1) :
                  PairAt(i) = p /\ proc.runs[i].version = origin[p].version
          BY <2>1, <4>1 DEF OriginInv
        <4> QED BY <2>1, <4>1, <4>2
      <3> QED BY <3>1, <3>2
    <2>5. ASSUME NEW m \in ModelSet, proc'.version[m] # ABSENT
          PROVE  \E p \in Now' : p[2] = m
      BY <2>1, <2>2, <2>5 DEF OriginInv
    <2>6. ASSUME NEW i \in 1..(proc'.turn - 1), proc'.runs[i].version # ABSENT
          PROVE  \E p \in Now' : p[2] = PairAt(i)[2]
      BY <2>1, <2>2, <2>6 DEF OriginInv
    <2> QED BY <2>1, <2>4, <2>5, <2>6 DEF OriginInv, Before
  <1>9. CASE Extract
    <2>1. CASE pc' = "generate" /\ proc' = NextTurn(Record("wont_run", 0))
      BY <1>9, <1>e, <2>1 DEF Extract
    <2>2. CASE pc' = "sandbox" /\ proc' = proc
      BY <1>9, <1>d, <2>2 DEF Extract, Before
    <2> QED BY <1>9, <2>1, <2>2 DEF Extract
  <1>10. CASE \E writes, clean \in BOOLEAN : Sandbox(writes, clean)
    <2> PICK writes \in BOOLEAN, clean \in BOOLEAN : Sandbox(writes, clean)
      BY <1>10
    <2>1. pc = "sandbox" /\ pc' = "generate" /\ UNCHANGED <<origin, starts>>
      BY DEF Sandbox
    <2>2. jail'[Pair] \in Nat
      BY <2>1, InATurn, StateStep, CostAssumption DEF InTurn, StateInv
    <2>3. \/ proc' = NextTurn(Record("ok", jail'[Pair]))
          \/ proc' = NextTurn(Record("wont_run", 0))
      BY DEF Sandbox
    <2> QED BY <1>e, <2>1, <2>2, <2>3
  <1>11. CASE \E rejected \in SUBSET RunsWith("ok"), evidence \in BOOLEAN :
                  Assemble(rejected, evidence)
    <2>1. /\ pc = "generate" /\ pc' = "json" /\ UNCHANGED <<origin, starts>>
          /\ proc'.turn = proc.turn /\ proc'.runs = proc.runs
          /\ proc'.version = proc.version
      BY <1>11, <1>a DEF Assemble, ProcessType
    <2> QED BY <1>d, <2>1 DEF Before
  <1>12. CASE WriteJson \/ SetAside \/ \E p \in Pairs : Evict(p)
    <2>1. /\ proc' = proc /\ UNCHANGED <<origin, starts>>
          /\ pc' = pc \/ (pc = "json" /\ pc' = "md")
      BY <1>12 DEF WriteJson, SetAside, Evict
    <2> QED BY <1>d, <2>1 DEF Before
  <1> QED BY <1>1, <1>2, <1>3, <1>4, <1>5, <1>6, <1>7, <1>8, <1>9, <1>10, <1>11,
             <1>12 DEF Next

LEMMA Originates == Spec => []OriginInv
  <1>1. Init => OriginInv
    <2> SUFFICES ASSUME Init PROVE OriginInv
      OBVIOUS
    <2>1. proc.turn = 1 /\ pc = "idle" /\ proc.version = [m \in ModelSet |-> ABSENT]
      BY NobodyIs, ProcessIs DEF Init
    <2> QED BY <2>1 DEF OriginInv, Before
  <1>2. StateInv /\ LoopInv /\ OriginInv /\ [Next]_vars => OriginInv'
    <2> SUFFICES ASSUME StateInv, LoopInv, OriginInv, [Next]_vars PROVE OriginInv'
      OBVIOUS
    <2>1. CASE UNCHANGED vars
      BY <2>1 DEF vars, OriginInv, Now, Pair, Model
    <2> QED BY <2>1, OriginStep
  <1> QED BY <1>1, <1>2, Typed, PTL DEF Spec

\* A result reported as reportable is above the floor, records every run with the
\* version asked for, and some member of it has executed under both models.  Each
\* model has answered this invocation, all it answered came from that version, and
\* without a fault every response is in the cache (run_p2_codegen.py 464-554).
THEOREM ReportableMeansEarned == Spec => []ReportableIsEarned
  <1>1. StateInv /\ LoopInv /\ RecordInv /\ EarnedInv /\ OriginInv => ReportableIsEarned
    <2> SUFFICES ASSUME StateInv, LoopInv, RecordInv, EarnedInv, OriginInv, pc = "md",
                        files.executed.json.reportable
                 PROVE  /\ ~below /\ files.executed.json.evidence
                        /\ \A i \in 1..Turns : proc.runs[i].version = PairAt(i)[2]
                        /\ \A m \in ModelSet :
                               \E p \in Pairs : p[2] = m /\ origin[p].run = starts
                        /\ \A p \in Pairs :
                               origin[p].run = starts => origin[p].version = p[2]
                        /\ faults = 0 => \A p \in Pairs : cache[p] # ABSENT
                        /\ \E k \in DOMAIN Members : \A i \in 1..Turns :
                               PairAt(i)[1] = Members[k] => i \in RunsWith("ok")
      BY DEF ReportableIsEarned
    <2>1. files.executed.json = proc.result /\ pc \in After
      BY DEF RecordInv, After
    <2>2. /\ ~below /\ proc.result.evidence
          /\ RunsWith("generation_error") = {}
          /\ \A i \in 1..Turns : proc.runs[i].version = PairAt(i)[2]
          /\ \E k \in DOMAIN Members : \A m \in ModelSet :
                 \E i \in RunsWith("ok") : proc.runs[i].pair = <<Members[k], m>>
      BY <2>1 DEF EarnedInv
    <2>3. proc.turn = Turns + 1 /\ DOMAIN proc.runs = 1..Turns
          /\ \A i \in 1..Turns : proc.runs[i].pair = PairAt(i)
      BY <2>1, Lengths DEF StateInv, LoopInv, ProcessType
    <2>4. ASSUME faults = 0, NEW p \in Pairs PROVE cache[p] # ABSENT
      <3>1. PICK i \in 1..Turns : PairAt(i) = p
        BY EveryPairHasATurn
      <3>2. proc.runs[i].status # "generation_error"
        BY <2>2, <2>3, <3>1 DEF RunsWith
      <3>3. i \in 1..(proc.turn - 1)
        BY <2>3, <3>1, Lengths
      <3> QED BY <2>4, <3>1, <3>2, <3>3 DEF EarnedInv
    <2>5. PICK k \in DOMAIN Members : \A m \in ModelSet :
              \E i \in RunsWith("ok") : proc.runs[i].pair = <<Members[k], m>>
      BY <2>2
    <2>6. ASSUME NEW i \in 1..Turns, PairAt(i)[1] = Members[k]
          PROVE  i \in RunsWith("ok")
      <3>1. PairAt(i) = <<Members[k], PairAt(i)[2]>> /\ PairAt(i)[2] \in ModelSet
        BY <2>6, PairInPairs DEF PairAt
      <3>2. PICK j \in RunsWith("ok") : proc.runs[j].pair = PairAt(i)
        BY <2>5, <3>1
      <3>3. j \in 1..Turns /\ PairAt(j) = PairAt(i)
        BY <2>3, <3>2 DEF RunsWith
      <3>4. i = j
        BY <3>3, EachPairOnce
      <3> QED BY <3>2, <3>4
    <2>7. ASSUME NEW m \in ModelSet
          PROVE  \E p \in Pairs : p[2] = m /\ origin[p].run = starts
      <3>1. PICK i \in RunsWith("ok") : proc.runs[i].pair = <<Members[k], m>>
        BY <2>5
      <3>2. i \in 1..Turns /\ PairAt(i)[2] = m
        BY <2>3, <3>1 DEF RunsWith
      <3>3. proc.runs[i].version = m /\ m # ABSENT
        <4>1. proc.runs[i].version = m
          BY <2>2, <3>2
        <4> QED BY <4>1, VersionAssumption
      <3>4. i \in 1..(proc.turn - 1)
        BY <2>3, <3>2, Lengths
      <3> QED BY <3>2, <3>3, <3>4 DEF OriginInv, Now
    <2>8. ASSUME NEW p \in Pairs, origin[p].run = starts
          PROVE  origin[p].version = p[2]
      <3>1. p \in Now /\ pc \notin Before /\ pc \notin {"extract", "sandbox"}
        BY <2>8 DEF Now, Before
      <3>2. PICK i \in 1..(proc.turn - 1) :
                PairAt(i) = p /\ proc.runs[i].version = origin[p].version
        BY <3>1 DEF OriginInv
      <3>3. i \in 1..Turns
        BY <2>3, <3>2, Lengths
      <3> QED BY <2>2, <3>2, <3>3
    <2> QED BY <2>1, <2>2, <2>4, <2>5, <2>6, <2>7, <2>8
  <1> QED BY <1>1, Typed, RecordsStand, Earned, Originates, PTL

-----------------------------------------------------------------------------
(* What is spent was foreseen.                                              *)

\* How many of the loop's questions have been asked.
Asked == IF pc \in InTurn THEN proc.turn ELSE proc.turn - 1

LEMMA Times ==
    /\ \A b, x, y \in Nat : x <= y => b * x <= b * y
    /\ \A b, x \in Nat : b * x \in Nat /\ b * (x + 1) = b * x + b
  OBVIOUS

\* Questions that lie ahead stay the same or become fewer while no entry leaves
\* the cache; an eviction adds one at most, the answer in hand takes one away.
LEMMA AheadFinite ==
    ASSUME NEW m
    PROVE  IsFiniteSet(Ahead(m)) /\ Cardinality(Ahead(m)) \in Nat
  <1>1. Ahead(m) \in SUBSET Pairs
    BY DEF Ahead
  <1> QED BY <1>1, PairsFinite, FS_Subset, FS_CardinalityType

LEMMA AheadShrinks ==
    ASSUME NEW m, NEW S, S \subseteq Ahead(m)
    PROVE  Cardinality(S) \in Nat /\ Cardinality(S) <= Cardinality(Ahead(m))
  <1>1. S \in SUBSET Ahead(m)
    OBVIOUS
  <1> QED BY <1>1, AheadFinite, FS_Subset, FS_CardinalityType

\* A step that neither spends nor takes anything from the cache.
LEMMA SpendKept ==
    ASSUME StateInv, LoopInv, SpendInv, faults' = faults,
           pc \notin Before, pc' \notin Before,
           \A p \in Pairs : cache'[p] = ABSENT => cache[p] = ABSENT,
           proc'.turn \in 1..(Turns + 1), Asked <= Asked',
           proc'.total = proc.total, proc'.spent = proc.spent, proc'.live = proc.live,
           proc'.misses = proc.misses, proc'.opts = proc.opts
    PROVE  SpendInv'
  <1>1. ASSUME NEW m \in ModelSet
        PROVE  /\ proc.spent[m] + CallBound * Cardinality(Ahead(m)')
                       <= CallBound * (proc.misses[m] + faults)
    <2>1. Asked \in Nat /\ Asked' \in Nat
      BY Lengths DEF LoopInv, Asked
    <2>2. Ahead(m)' \subseteq Ahead(m)
      BY <2>1 DEF Ahead, Asked
    <2>3. /\ Cardinality(Ahead(m)') \in Nat /\ Cardinality(Ahead(m)) \in Nat
          /\ Cardinality(Ahead(m)') <= Cardinality(Ahead(m))
      BY <2>2, AheadFinite, AheadShrinks
    <2>4. CallBound * Cardinality(Ahead(m)') <= CallBound * Cardinality(Ahead(m))
      BY <2>3, Times, CostAssumption
    <2>5. proc.spent[m] \in Nat /\ proc.misses[m] \in Nat /\ faults \in Nat /\ CallBound \in Nat
      BY CostAssumption DEF StateInv, ProcessType
    <2>6. proc.spent[m] + CallBound * Cardinality(Ahead(m))
              <= CallBound * (proc.misses[m] + faults)
      BY DEF SpendInv
    <2> DEFINE x == CallBound * Cardinality(Ahead(m)')
               y == CallBound * Cardinality(Ahead(m))
               z == CallBound * (proc.misses[m] + faults)
    <2>7. x \in Nat /\ y \in Nat /\ z \in Nat
      <3>1. \A b, c \in Nat : b * c \in Nat
        BY Times
      <3>2. proc.misses[m] + faults \in Nat
        BY <2>5
      <3>3. z \in Nat
        BY ONLY <2>5, <3>1, <3>2
      <3>4. x \in Nat /\ y \in Nat
        BY ONLY <2>3, <2>5, <3>1
      <3> QED BY <3>3, <3>4
    <2> HIDE DEF x, y, z
    <2>8. x <= y /\ proc.spent[m] + y <= z
      BY <2>4, <2>6 DEF x, y, z
    <2>9. proc.spent[m] + x <= z
      BY <2>5, <2>7, <2>8
    <2> QED BY <2>9 DEF x, z
  <1> QED BY <1>1 DEF SpendInv

\* A step after which nothing is held.
LEMMA SpendFresh ==
    ASSUME LoopInv', pc' \in Before
    PROVE  SpendInv'
  <1>1. proc' = Process(proc'.opts)
    BY DEF LoopInv
  <1>2. proc'.total = 0 /\ proc'.spent = [m \in ModelSet |-> 0]
    BY <1>1, ProcessIs
  <1> QED BY <1>2, CostAssumption DEF SpendInv

LEMMA SpendStep ==
    ASSUME StateInv, LoopInv, SpendInv, Next
    PROVE  SpendInv'
  <1> USE DEF Exit, Goto, stores, ledger
  <1>a. /\ cache \in [Pairs -> Responses \cup {ABSENT}] /\ proc \in ProcessType
        /\ faults \in Nat /\ CallBound \in Nat
    BY CostAssumption DEF StateInv
  <1>b. StateInv' /\ LoopInv'
    BY StateStep, LoopStep
  <1>c. proc.turn \in 1..(Turns + 1) /\ proc'.turn \in 1..(Turns + 1) /\ Turns \in Nat
    BY <1>b, Lengths DEF LoopInv
  <1>d. ASSUME Asking \/ pc \in InTurn, pc' = "generate", UNCHANGED <<cache, faults>>,
               NEW status \in {"ok", "wont_run", "generation_error"}, NEW output \in Nat,
               proc' = NextTurn(Record(status, output))
        PROVE  SpendInv'
    <2>1. /\ proc'.turn = proc.turn + 1 /\ proc'.misses = proc.misses
          /\ proc'.spent = proc.spent /\ proc'.total = proc.total
          /\ proc'.live = proc.live /\ proc'.opts = proc.opts
      BY <1>d, TurnEnds
    <2>2. Asked <= Asked' /\ pc \notin Before /\ pc' \notin Before
      BY <1>c, <1>d, <2>1 DEF Asked, Asking, Before, InTurn
    <2> QED BY <1>c, <1>d, <2>1, <2>2, SpendKept
  <1>1. CASE pc' \in Before
    BY <1>1, <1>b, SpendFresh
  <1>2. CASE \E credentials \in BOOLEAN : Preflight(credentials)
    <2> PICK credentials \in BOOLEAN : Preflight(credentials)
      BY <1>2
    <2> SUFFICES ASSUME pc' # "idle" PROVE SpendInv'
      BY <1>1 DEF Before
    <2> DEFINE live == {m \in ModelSet : Misses[m] > 0}
    <2>1. /\ pc = "preflight" /\ pc' = "generate" /\ UNCHANGED <<cache, faults>>
          /\ proc' = [proc EXCEPT !.live = live, !.misses = Misses]
          /\ ~ \E m \in ModelSet : Misses[m] * CallBound > proc.opts.cap
      BY DEF Preflight
    <2>2. /\ proc'.total = proc.total /\ proc'.spent = proc.spent
          /\ proc'.opts = proc.opts /\ proc'.misses = Misses
      BY <1>a, <2>1 DEF ProcessType
    <2>3. proc.total = 0 /\ proc.spent = [m \in ModelSet |-> 0]
      <3>1. proc = Process(proc.opts)
        BY <2>1 DEF LoopInv, Before
      <3> QED BY <3>1, ProcessIs
    <2>4. ASSUME NEW m \in ModelSet
          PROVE  /\ CallBound * Cardinality(Ahead(m)') <= CallBound * (Misses[m] + faults)
                 /\ CallBound * Misses[m] <= proc.opts.cap
      <3> DEFINE M == {p \in Pairs : p[2] = m /\ cache[p] = ABSENT}
      <3>1. IsFiniteSet(M) /\ Misses[m] = Cardinality(M)
        <4>1. M \in SUBSET Pairs
          OBVIOUS
        <4> QED BY <4>1, PairsFinite, FS_Subset DEF Misses
      <3>2. Ahead(m)' \in SUBSET M
        BY <2>1 DEF Ahead
      <3> HIDE DEF M
      <3>3. /\ Cardinality(Ahead(m)') \in Nat /\ Misses[m] \in Nat
            /\ Cardinality(Ahead(m)') <= Misses[m]
        BY <3>1, <3>2, FS_Subset, FS_CardinalityType
      <3>4. Cardinality(Ahead(m)') <= Misses[m] + faults /\ Misses[m] + faults \in Nat
        BY <1>a, <3>3
      <3>5. CallBound * Cardinality(Ahead(m)') <= CallBound * (Misses[m] + faults)
        BY <1>a, <3>3, <3>4, Times
      <3>6. \A x \in Nat : x * CallBound = CallBound * x /\ CallBound * x \in Nat
        BY <1>a
      <3>7. proc.opts.cap \in Nat
        BY <1>a DEF ProcessType
      <3>8. CallBound * Misses[m] <= proc.opts.cap
        BY <2>1, <3>3, <3>6, <3>7
      <3> QED BY <3>5, <3>8
    <2>5. ASSUME NEW m \in ModelSet
          PROVE  0 + CallBound * Cardinality(Ahead(m)') <= CallBound * (Misses[m] + faults)
      <3>1. CallBound * Cardinality(Ahead(m)') \in Nat
        <4>1. Ahead(m)' \in SUBSET Pairs
          BY DEF Ahead
        <4>2. Cardinality(Ahead(m)') \in Nat
          BY <4>1, PairsFinite, FS_Subset, FS_CardinalityType
        <4> QED BY <1>a, <4>2, Times
      <3> QED BY <2>4, <3>1
    <2> QED BY <2>1, <2>2, <2>3, <2>4, <2>5, CostAssumption DEF SpendInv
  <1>3. CASE \E cost \in Costs, version \in ModelSet, reply \in Responses :
                CallAnswered(cost, version, reply)
    <2> PICK cost \in Costs, version \in ModelSet, reply \in Responses :
                CallAnswered(cost, version, reply)
      BY <1>3
    <2> SUFFICES ASSUME pc' # "idle" PROVE SpendInv'
      BY <1>1 DEF Before
    <2>1. /\ Asking /\ cache[Pair] = ABSENT /\ Model \in proc.live /\ pc' = "put"
          /\ UNCHANGED <<cache, faults>> /\ proc' = Charged(cost, version, reply)
          /\ ~ (proc'.total > UsdCap)
      BY AnsweredIs
    <2>2. /\ proc'.turn = proc.turn /\ proc'.live = proc.live /\ proc'.opts = proc.opts
          /\ proc'.misses = proc.misses
          /\ proc'.spent = [proc.spent EXCEPT ![Model] = @ + cost]
      BY <1>a, <2>1, ChargedIs
    <2>3. cost \in Nat /\ cost <= CallBound
      BY CostAssumption
    <2>4. proc.turn \in 1..Turns /\ Pair \in Pairs /\ Model \in ModelSet
      BY <2>1, InATurn
    <2>5. pc = "generate"
      BY <2>1 DEF Asking
    <2>6. Asked = proc.turn - 1 /\ Asked' = proc.turn
      BY <2>1, <2>2, <2>5 DEF Asked, InTurn
    <2>7. ASSUME NEW m \in ModelSet
          PROVE  proc'.spent[m] + CallBound * Cardinality(Ahead(m)')
                     <= CallBound * (proc.misses[m] + faults)
      <3>1. proc.spent[m] + CallBound * Cardinality(Ahead(m))
                <= CallBound * (proc.misses[m] + faults)
        BY <2>5 DEF SpendInv, Before
      <3>2. Ahead(m)' \subseteq Ahead(m) \ {Pair}
        BY <2>1, <2>4, <2>6 DEF Ahead, Asked, Pair
      <3>3. Cardinality(Ahead(m)) \in Nat /\ IsFiniteSet(Ahead(m))
        BY AheadFinite
      <3>4. proc.spent[m] \in Nat /\ proc.misses[m] \in Nat
        BY <1>a DEF ProcessType
      <3> DEFINE x == Cardinality(Ahead(m)')
                 y == Cardinality(Ahead(m))
                 z == CallBound * (proc.misses[m] + faults)
      <3>5. z \in Nat
        BY <1>a, <3>4, Times
      <3>6. CASE m = Model
        <4>1. Pair \in Ahead(m)
          <5>1. \A i \in 1..(proc.turn - 1) : PairAt(i) # Pair
            <6> SUFFICES ASSUME NEW i \in 1..(proc.turn - 1), PairAt(i) = PairAt(proc.turn)
                         PROVE  FALSE
              BY DEF Pair
            <6>1. i \in 1..Turns /\ i # proc.turn
              BY <1>c, <2>4
            <6> QED BY <2>4, <6>1, EachPairOnce
          <5> QED BY <2>1, <2>4, <2>6, <3>6, <5>1 DEF Ahead, Asked, Model
        <4>2. Cardinality(Ahead(m) \ {Pair}) = y - 1 /\ IsFiniteSet(Ahead(m) \ {Pair})
          BY <3>3, <4>1, FS_RemoveElement
        <4>3. Ahead(m)' \in SUBSET (Ahead(m) \ {Pair})
          BY <3>2
        <4>4. x \in Nat /\ x <= y - 1
          BY <4>2, <4>3, FS_Subset, FS_CardinalityType
        <4>5. proc'.spent[m] = proc.spent[m] + cost
          BY <1>a, <2>2, <2>4, <3>6 DEF ProcessType
        <4> HIDE DEF x, y, z
        <4>6. x + 1 \in Nat /\ x + 1 <= y /\ y \in Nat
          BY <3>3, <4>4 DEF y
        <4>7. CallBound * (x + 1) <= CallBound * y /\ CallBound * (x + 1) = CallBound * x + CallBound
              /\ CallBound * x \in Nat /\ CallBound * y \in Nat
          BY <1>a, <4>4, <4>6, Times
        <4>8. proc.spent[m] + CallBound * y <= z
          BY <3>1 DEF y, z
        <4>9. proc.spent[m] + cost + CallBound * x <= z
          <5> DEFINE u == CallBound * x
                     v == CallBound * y
          <5>1. u \in Nat /\ v \in Nat /\ u + CallBound <= v /\ proc.spent[m] + v <= z
            BY <4>7, <4>8
          <5> HIDE DEF u, v
          <5>2. proc.spent[m] + cost + u <= z
            BY <1>a, <2>3, <3>4, <3>5, <5>1
          <5> QED BY <5>2 DEF u
        <4> QED BY <4>5, <4>9 DEF x, z
      <3>7. CASE m # Model
        <4>1. proc'.spent[m] = proc.spent[m]
          BY <1>a, <2>2, <3>7 DEF ProcessType
        <4>2. x \in Nat /\ x <= y
          BY <3>2, AheadShrinks
        <4> HIDE DEF x, y, z
        <4>3. y \in Nat
          BY <3>3 DEF y
        <4>4. CallBound * x <= CallBound * y /\ CallBound * x \in Nat /\ CallBound * y \in Nat
          BY <1>a, <4>2, <4>3, Times
        <4>5. proc.spent[m] + CallBound * y <= z
          BY <3>1 DEF y, z
        <4>6. proc.spent[m] + CallBound * x <= z
          BY <3>4, <3>5, <4>4, <4>5
        <4> QED BY <4>1, <4>6 DEF x, z
      <3> QED BY <3>6, <3>7
    <2>8. proc'.total <= UsdCap
      <3>1. proc'.total \in Nat /\ UsdCap \in Nat
        BY <1>b, CostAssumption DEF StateInv, ProcessType
      <3> QED BY <2>1, <3>1
    <2>9. ASSUME NEW m \in ModelSet, m \notin proc'.live
          PROVE  proc'.spent[m] = 0
      BY <1>a, <2>1, <2>2, <2>9 DEF SpendInv, ProcessType
    <2>10. \A m \in ModelSet : CallBound * proc.misses[m] <= proc.opts.cap
      BY <2>5 DEF SpendInv, Before
    <2> QED BY <2>1, <2>2, <2>7, <2>8, <2>9, <2>10 DEF SpendInv
  <1>4. CASE \E p \in Pairs : Evict(p)
    <2> PICK e \in Pairs : Evict(e)
      BY <1>4
    <2> SUFFICES ASSUME pc' \notin Before PROVE SpendInv'
      BY <1>1
    <2>1. /\ UNCHANGED <<pc, proc>> /\ faults' = faults + 1
          /\ cache' = [cache EXCEPT ![e] = ABSENT]
      BY DEF Evict
    <2>2. ASSUME NEW m \in ModelSet
          PROVE  proc.spent[m] + CallBound * Cardinality(Ahead(m)')
                     <= CallBound * (proc.misses[m] + (faults + 1))
      <3>1. proc.spent[m] + CallBound * Cardinality(Ahead(m))
                <= CallBound * (proc.misses[m] + faults)
        BY <2>1 DEF SpendInv
      <3>2. Ahead(m)' \in SUBSET (Ahead(m) \cup {e})
        BY <1>a, <2>1 DEF Ahead
      <3>3. Cardinality(Ahead(m)) \in Nat /\ IsFiniteSet(Ahead(m))
        BY AheadFinite
      <3> DEFINE x == Cardinality(Ahead(m)')
                 y == Cardinality(Ahead(m))
                 k == proc.misses[m] + faults
      <3>4. /\ IsFiniteSet(Ahead(m) \cup {e}) /\ Cardinality(Ahead(m) \cup {e}) \in Nat
            /\ Cardinality(Ahead(m) \cup {e}) <= y + 1
        <4>1. Cardinality(Ahead(m) \cup {e})
                  = IF e \in Ahead(m) THEN Cardinality(Ahead(m)) ELSE Cardinality(Ahead(m)) + 1
          BY <3>3, FS_AddElement
        <4>2. IsFiniteSet(Ahead(m) \cup {e})
          BY <3>3, FS_AddElement
        <4> QED BY <3>3, <4>1, <4>2
      <3>5. x \in Nat /\ x <= Cardinality(Ahead(m) \cup {e})
        BY <3>2, <3>4, FS_Subset, FS_CardinalityType
      <3>6. x <= y + 1 /\ y \in Nat
        BY <3>3, <3>4, <3>5
      <3>7. proc.spent[m] \in Nat /\ proc.misses[m] \in Nat
        BY <1>a DEF ProcessType
      <3>8. k \in Nat /\ proc.misses[m] + (faults + 1) = k + 1
        BY <1>a, <3>7
      <3>9. proc.spent[m] + CallBound * y <= CallBound * k
        BY <3>1
      <3> HIDE DEF x, y, k
      <3>10. /\ CallBound * x <= CallBound * (y + 1) /\ CallBound * x \in Nat
             /\ CallBound * (y + 1) = CallBound * y + CallBound /\ CallBound * y \in Nat
             /\ CallBound * (k + 1) = CallBound * k + CallBound /\ CallBound * k \in Nat
        <4>1. y + 1 \in Nat
          BY <3>6
        <4> QED BY <1>a, <3>5, <3>6, <3>8, <4>1, Times
      <3>11. proc.spent[m] + CallBound * x <= CallBound * (k + 1)
        <4> DEFINE u == CallBound * x
                   v == CallBound * y
                   w == CallBound * k
        <4>1. /\ u \in Nat /\ v \in Nat /\ w \in Nat /\ u <= v + CallBound
              /\ CallBound * (k + 1) = w + CallBound /\ proc.spent[m] + v <= w
          BY <3>9, <3>10
        <4> HIDE DEF u, v, w
        <4>2. proc.spent[m] + u <= w + CallBound
          BY <1>a, <3>7, <4>1
        <4> QED BY <4>1, <4>2 DEF u
      <3> QED BY <3>8, <3>11 DEF x, k
    <2> QED BY <2>1, <2>2 DEF SpendInv
  <1>5. CASE CallFails
    <2>1. Asking /\ pc' = "generate" /\ UNCHANGED <<cache, faults>>
          /\ proc' = NextTurn(Record("generation_error", 0))
      BY <1>5 DEF CallFails, Asking
    <2> QED BY <2>1, <1>d
  <1>6. CASE Extract
    <2>1. pc = "extract" /\ UNCHANGED <<cache, faults>>
      BY <1>6 DEF Extract
    <2>2. CASE pc' = "generate" /\ proc' = NextTurn(Record("wont_run", 0))
      BY <1>d, <2>1, <2>2 DEF InTurn
    <2>3. CASE pc' = "sandbox" /\ proc' = proc
      <3>1. Asked <= Asked' /\ pc \notin Before /\ pc' \notin Before
        BY <1>c, <2>1, <2>3 DEF Asked, InTurn, Before
      <3> QED BY <1>c, <2>1, <2>3, <3>1, SpendKept
    <2> QED BY <1>6, <2>2, <2>3 DEF Extract
  <1>7. CASE \E writes, clean \in BOOLEAN : Sandbox(writes, clean)
    <2> PICK writes \in BOOLEAN, clean \in BOOLEAN : Sandbox(writes, clean)
      BY <1>7
    <2>1. pc = "sandbox" /\ pc' = "generate" /\ UNCHANGED <<cache, faults>>
      BY DEF Sandbox
    <2>2. jail'[Pair] \in Nat
      BY <1>b, <2>1, InATurn, CostAssumption DEF InTurn, StateInv
    <2>3. \/ proc' = NextTurn(Record("ok", jail'[Pair]))
          \/ proc' = NextTurn(Record("wont_run", 0))
      BY DEF Sandbox
    <2> QED BY <1>d, <2>1, <2>2, <2>3 DEF InTurn
  <1>8. CASE Replay \/ Put \/ WriteJson
             \/ \E rejected \in SUBSET RunsWith("ok"), evidence \in BOOLEAN :
                    Assemble(rejected, evidence)
    <2>1. /\ proc'.turn = proc.turn /\ faults' = faults
          /\ proc'.total = proc.total /\ proc'.spent = proc.spent /\ proc'.live = proc.live
          /\ proc'.misses = proc.misses /\ proc'.opts = proc.opts
      BY <1>8, <1>a DEF Replay, Put, WriteJson, Assemble, ProcessType
    <2>2. \A p \in Pairs : cache'[p] = ABSENT => cache[p] = ABSENT
      <3>1. CASE Put
        BY <1>a, <3>1 DEF Put
      <3> QED BY <1>8, <3>1 DEF Replay, WriteJson, Assemble
    <2>3. /\ pc \in {"generate", "put", "json"}
          /\ pc' \in {"extract", "json", "md"}
          /\ pc = "put" => pc' = "extract"
      BY <1>8 DEF Replay, Put, WriteJson, Assemble, Asking
    <2>4. Asked <= Asked' /\ pc \notin Before /\ pc' \notin Before
      BY <1>c, <2>1, <2>3 DEF Asked, InTurn, Before
    <2> QED BY <1>c, <2>1, <2>2, <2>4, SpendKept
  <1>9. CASE SetAside
    BY <1>1, <1>9 DEF SetAside, Before
  <1>10. CASE \/ \E opts \in Options : Start(opts)
              \/ RefuseGate \/ Route \/ CloseOutResult \/ CloseOutReport
              \/ UnexpectedMiss \/ WriteReport \/ Crash
    BY <1>1, <1>10 DEF Start, RefuseGate, Route, CloseOutResult, CloseOutReport,
                       UnexpectedMiss, WriteReport, Crash, Before
  <1> QED BY <1>2, <1>3, <1>4, <1>5, <1>6, <1>7, <1>8, <1>9, <1>10 DEF Next

\* A process spends on a model no more than its pre-flight foresaw and what was
\* evicted since, nothing on a model without misses, and stops at the cap
\* (preflight.py 111-181, live_client.py 53-103).
THEOREM SpendIsForeseen == Spec => []SpendWithinPreflight
  <1>1. Init => SpendInv
    <2> SUFFICES ASSUME Init PROVE SpendInv
      OBVIOUS
    <2>1. proc.total = 0 /\ proc.spent = [m \in ModelSet |-> 0] /\ pc = "idle"
      BY NobodyIs, ProcessIs DEF Init
    <2> QED BY <2>1, CostAssumption DEF SpendInv, Before
  <1>2. StateInv /\ LoopInv /\ SpendInv /\ [Next]_vars => SpendInv'
    <2> SUFFICES ASSUME StateInv, LoopInv, SpendInv, [Next]_vars PROVE SpendInv'
      OBVIOUS
    <2>1. CASE UNCHANGED vars
      BY <2>1 DEF vars, SpendInv, Ahead
    <2> QED BY <2>1, SpendStep
  <1>3. StateInv /\ LoopInv /\ SpendInv => SpendWithinPreflight
    <2> SUFFICES ASSUME StateInv, LoopInv, SpendInv, NEW m \in ModelSet
                 PROVE  /\ proc.spent[m] <= CallBound * (proc.misses[m] + faults)
                        /\ faults = 0 => proc.spent[m] <= proc.opts.cap
      BY DEF SpendWithinPreflight, SpendInv
    <2>1. /\ proc.spent[m] \in Nat /\ proc.misses[m] \in Nat /\ faults \in Nat
          /\ CallBound \in Nat /\ proc.opts.cap \in Nat
      BY CostAssumption DEF StateInv, ProcessType
    <2>2. proc.misses[m] + faults \in Nat
      BY <2>1
    <2> DEFINE z == CallBound * (proc.misses[m] + faults)
               y == CallBound * Cardinality(Ahead(m))
    <2>3. z \in Nat /\ y \in Nat
      BY <2>1, <2>2, AheadFinite, Times
    <2>4. CASE pc \in Before
      <3>1. proc = Process(proc.opts)
        BY <2>4 DEF LoopInv
      <3>2. proc.spent[m] = 0
        BY <3>1, ProcessIs
      <3> HIDE DEF z
      <3>3. proc.spent[m] <= z /\ proc.spent[m] <= proc.opts.cap
        BY <2>1, <2>3, <3>2
      <3> QED BY <3>3 DEF z
    <2>5. CASE pc \notin Before
      <3>1. proc.spent[m] + y <= z /\ CallBound * proc.misses[m] <= proc.opts.cap
        BY <2>5 DEF SpendInv
      <3>2. faults = 0 => z = CallBound * proc.misses[m]
        BY <2>1
      <3> HIDE DEF y, z
      <3>3. proc.spent[m] <= z /\ (faults = 0 => proc.spent[m] <= proc.opts.cap)
        BY <2>1, <2>3, <3>1, <3>2
      <3> QED BY <3>3 DEF z
    <2> QED BY <2>4, <2>5
  <1> QED BY <1>1, <1>2, <1>3, Typed, PTL DEF Spec

=============================================================================
