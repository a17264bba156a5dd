------------------------- MODULE LibrarianRunProofs -------------------------
(***************************************************************************)
(* What holds of every sequence of invocations of the extraction of one     *)
(* paper, for any fields, lists, replies, options and number of deaths and  *)
(* spoiled cache entries: what a cached run used is what a later run would   *)
(* replay, each strategy ends in exactly one outcome, a directory with a    *)
(* manifest holds the whole spec set of its run or none, a cached run after  *)
(* a completed one calls no vendor and ends alike, and the raw archive is    *)
(* that of the run that has just ended.                                     *)
(***************************************************************************)
EXTENDS LibrarianRun, SequenceTheorems, FiniteSetTheorems, TLAPS

-----------------------------------------------------------------------------
(* The inductive invariants.                                                *)

Questioning == {"ask", "call", "put", "archive", "answered"}
RepliesTo(f) == IF f = ENUM THEN EnumReplies ELSE FieldReplies[f]
Entries == {ABSENT, CORRUPT} \cup UNION {RepliesTo(f) : f \in FieldSet \cup {ENUM}}
Lists == EnumReplies \cup {GoldList, <<>>}
Events == [kind : {"assembly_incomplete", "emission_error"}, name : Names]
Results == [specs : Seq(Names), events : Seq(Events)]
Usages == [calls : Nat, retries : Nat]

TypeInv ==
    /\ disk \in [Keys -> Entries]
    /\ \A k \in Keys : disk[k] \in {ABSENT, CORRUPT} \cup RepliesTo(k[2])
    /\ mem \in [Clients \X Names \X FieldSet -> Entries]
    /\ out \in [specs : Seq(Names), events : Seq(Events),
                manifest : Usages \cup {NONE}, raw : [Clients -> Nat]]
    /\ pc \in {"idle", "enumerated", "merge", "emit", "write", "manifest", "early"}
              \cup Questioning
    /\ opts \in [live : BOOLEAN, cache : BOOLEAN]
    /\ work \in [todo : Seq(Names), field : DOMAIN Fields, client : Clients,
                 attempt : Nat, reply : Entries \cup {NONE}]
    /\ lists \in [Clients -> Lists]
    /\ result \in Results
    /\ usage \in Usages
    /\ code \in {"none", "running", "raised", "review", "paper_failed", "specs",
                 "no_specs", "crashed"}
    /\ starts \in Nat /\ faults \in Nat
    /\ pc = "answered" /\ Enumerating => work.reply \in EnumReplies
    /\ pc \in {"put", "archive"} => work.reply \in RepliesTo(Field)
    /\ pc \in {"merge", "emit"} => ~Enumerating
    /\ pc \in {"enumerated", "write", "manifest"} => Enumerating

\* An answer on its way to the caches is what the disk will hold of it, or the
\* entry is spoiled.
ReplayInv ==
    /\ pc \in {"call", "put"} /\ opts.cache => ~Readable(disk[Key])
    /\ pc = "archive" /\ opts.cache => disk[Key] \in {work.reply, CORRUPT}
    /\ ReplaysAgree

\* The strategies that are done and those to do are those of the enumeration.
Accounted ==
    /\ Len(result.specs) + Len(result.events) + Len(work.todo) = Len(Strategies)
    /\ NamesIn(result.specs) \cup EventNames(result.events) \cup NamesIn(work.todo)
           = NamesIn(Strategies)

OutcomeInv ==
    /\ pc \in Questioning \cup {"enumerated"} /\ Enumerating => result = NoResult
    /\ pc \in Questioning \cup {"merge", "emit"} /\ ~Enumerating => Accounted
    /\ pc \in {"write", "manifest"} => Accounted
    /\ PaperRan => /\ Len(result.specs) + Len(result.events) = Len(Strategies)
                   /\ NamesIn(result.specs) \cup EventNames(result.events)
                          = NamesIn(Strategies)

\* The directory: empty while the paper runs, filled in order at the end.
OutputInv ==
    /\ pc # "idle" => out.manifest = NONE
    /\ pc \notin {"idle", "early"} => code = "running"
    /\ pc \notin {"idle", "write", "manifest"} => out.specs = <<>>
    /\ pc = "write" =>
           /\ Len(out.specs) <= Len(result.specs)
           /\ \A i \in 1..Len(out.specs) : out.specs[i] = result.specs[i]
    /\ pc = "manifest" =>
           out.specs = result.specs /\ (result.events # <<>> => out.events = result.events)
    /\ pc = "early" => code = "paper_failed" \/ (code = "review" /\ result = NoResult)
    /\ PaperRan =>
           out.specs = result.specs /\ (result.events # <<>> => out.events = result.events)
    /\ NoPartialSpecSet

-----------------------------------------------------------------------------
(* The question at hand, and types.                                         *)

WorkType == [todo : Seq(Names), field : DOMAIN Fields, client : Clients,
             attempt : Nat, reply : Entries \cup {NONE}]

LEMMA FirstField == 1 \in DOMAIN Fields /\ DOMAIN Fields = 1..Len(Fields) /\ Len(Fields) \in Nat
  BY BoundAssumption DEF FieldSet

LEMMA NoWorkTyped ==
    /\ NoWork \in WorkType /\ NoWork.todo = <<>>
    /\ \A s \in Seq(Names) : [NoWork EXCEPT !.todo = s] \in WorkType
                             /\ [NoWork EXCEPT !.todo = s].todo = s
  <1>1. 1 \in DOMAIN Fields
    BY FirstField
  <1>2. NoWork \in WorkType
    BY <1>1 DEF NoWork, WorkType, Clients
  <1> QED BY <1>2 DEF NoWork, WorkType

LEMMA Question ==
    ASSUME TypeInv
    PROVE  /\ Key \in Keys /\ Key[2] = Field /\ Field \in FieldSet \cup {ENUM}
           /\ Enumerating <=> Field = ENUM
           /\ VendorReplies = RepliesTo(Field)
           /\ RepliesTo(Field) \subseteq Entries
           /\ {ABSENT, CORRUPT} \cap RepliesTo(Field) = {}
           /\ ~Enumerating => /\ Label \in Names
                              /\ MemKey \in Clients \X Names \X FieldSet
  <1>1. work \in WorkType
    BY DEF TypeInv, WorkType
  <1>2. Field \in FieldSet \cup {ENUM} /\ (Enumerating <=> Field = ENUM)
    BY <1>1, BoundAssumption DEF Field, FieldSet, WorkType
  <1>3. Key \in Keys /\ Key[2] = Field
    BY <1>1, <1>2 DEF Key, Keys, WorkType
  <1>4. VendorReplies = RepliesTo(Field)
    BY <1>2 DEF VendorReplies, RepliesTo
  <1>5. {ABSENT, CORRUPT} \cap RepliesTo(Field) = {}
    BY <1>2, ReplyAssumption DEF RepliesTo
  <1>6. RepliesTo(Field) \subseteq Entries
    BY <1>2 DEF Entries
  <1>7. ASSUME ~Enumerating
        PROVE  Label \in Names /\ MemKey \in Clients \X Names \X FieldSet
    <2>1. Label \in Names /\ work.client \in Clients
      BY <1>1, <1>7 DEF Label, Enumerating, WorkType
    <2>2. Field \in FieldSet
      BY <1>2, <1>7
    <2> QED BY <2>1, <2>2 DEF MemKey
  <1> QED BY <1>2, <1>3, <1>4, <1>5, <1>6, <1>7

LEMMA Popped ==
    ASSUME NEW S, NEW s \in Seq(S), s # <<>>
    PROVE  /\ Head(s) \in S /\ Tail(s) \in Seq(S)
           /\ Len(s) = Len(Tail(s)) + 1
           /\ Len(s) = 1 => Tail(s) = <<>>
           /\ NamesIn(s) = {Head(s)} \cup NamesIn(Tail(s))
  <1>1. Len(s) \in Nat \ {0} /\ Head(s) = s[1] /\ Head(s) \in S
    OBVIOUS
  <1>2. Tail(s) \in Seq(S) /\ Len(Tail(s)) = Len(s) - 1
    OBVIOUS
  <1>3. \A i \in 1..Len(Tail(s)) : Tail(s)[i] = s[i + 1]
    OBVIOUS
  <1>4. Len(s) = 1 => Tail(s) = <<>>
    <2> DEFINE t == Tail(s)
    <2> SUFFICES ASSUME Len(s) = 1 PROVE t = <<>>
      OBVIOUS
    <2>1. t \in Seq(S) /\ Len(t) = 0
      BY <1>2
    <2> HIDE DEF t
    <2> QED BY <2>1, EmptySeq
  <1>5. NamesIn(s) \subseteq {Head(s)} \cup NamesIn(Tail(s))
    <2> SUFFICES ASSUME NEW i \in 1..Len(s), i # 1
                 PROVE  s[i] \in NamesIn(Tail(s))
      BY <1>1 DEF NamesIn
    <2>1. i - 1 \in 1..Len(Tail(s)) /\ (i - 1) + 1 = i
      BY <1>1, <1>2
    <2>2. Tail(s)[i - 1] = s[i]
      BY <1>3, <2>1
    <2>3. i - 1 \in DOMAIN Tail(s)
      BY <1>2, <2>1
    <2> HIDE DEF NamesIn
    <2>4. Tail(s)[i - 1] \in NamesIn(Tail(s))
      BY <2>3 DEF NamesIn
    <2> QED BY <2>2, <2>4
  <1>6. {Head(s)} \cup NamesIn(Tail(s)) \subseteq NamesIn(s)
    <2>1. Head(s) \in NamesIn(s)
      BY <1>1 DEF NamesIn
    <2>2. ASSUME NEW i \in 1..Len(Tail(s)) PROVE Tail(s)[i] \in NamesIn(s)
      BY <1>1, <1>2, <1>3 DEF NamesIn
    <2> QED BY <1>2, <2>1, <2>2 DEF NamesIn
  <1> QED BY <1>1, <1>2, <1>4, <1>5, <1>6

LEMMA NoMemTyped == NoMem \in [Clients \X Names \X FieldSet -> Entries]
  BY DEF NoMem, Entries

LEMMA FreshTyped == NoResult \in Results /\ NoUsage \in Usages
  BY DEF NoResult, Results, NoUsage, Usages

LEMMA InitTyped == Init => TypeInv
  <1> SUFFICES ASSUME Init PROVE TypeInv
    OBVIOUS
  <1>1. disk \in [Keys -> Entries] /\ \A k \in Keys : disk[k] = ABSENT
    BY DEF Init, Entries
  <1>2. out \in [specs : Seq(Names), events : Seq(Events),
                 manifest : Usages \cup {NONE}, raw : [Clients -> Nat]]
    BY DEF Init
  <1>3. lists \in [Clients -> Lists]
    BY DEF Init, Lists
  <1>4. work \in WorkType /\ Enumerating
    BY NoWorkTyped DEF Init, Enumerating
  <1> QED BY <1>1, <1>2, <1>3, <1>4, NoMemTyped, FreshTyped
          DEF Init, TypeInv, WorkType, Questioning

LEMMA TypeStep ==
    ASSUME TypeInv, Next
    PROVE  TypeInv'
  <1> USE DEF cacheVars, faultVars
  <1>a. work \in WorkType
    BY DEF TypeInv, WorkType
  <1>b. lists \in [Clients -> Lists] /\ usage \in Usages /\ result \in Results
        /\ code \in {"none", "running", "raised", "review", "paper_failed", "specs",
                     "no_specs", "crashed"}
    BY DEF TypeInv
  <1>c. out \in [specs : Seq(Names), events : Seq(Events),
                 manifest : Usages \cup {NONE}, raw : [Clients -> Nat]]
    BY DEF TypeInv
  <1>1. CASE Ask
    <2>1. CASE /\ Remembered # ABSENT /\ pc' = "answered"
               /\ work' = [work EXCEPT !.reply = Remembered]
      <3>1. ~Enumerating
        BY <2>1 DEF Remembered
      <3>2. Remembered \in Entries
        BY <3>1, Question DEF Remembered, TypeInv
      <3>3. work' \in WorkType /\ work'.todo = work.todo
        BY <1>a, <2>1, <3>2 DEF WorkType
      <3> QED BY <1>1, <2>1, <3>1, <3>3 DEF Ask, TypeInv, WorkType, Questioning, Enumerating
    <2>2. CASE /\ Remembered = ABSENT /\ pc' = "archive" /\ Readable(disk[Key])
               /\ work' = [work EXCEPT !.reply = disk[Key]]
      <3>1. disk[Key] \in RepliesTo(Field)
        BY <2>2, Question DEF TypeInv, Readable
      <3>2. disk[Key] \in Entries
        BY <3>1, Question
      <3>3. /\ work' \in WorkType /\ work'.todo = work.todo /\ work'.field = work.field
            /\ work'.reply = disk[Key]
        BY <1>a, <2>2, <3>2 DEF WorkType
      <3>4. Field' = Field
        BY <3>3 DEF Field, Enumerating
      <3> QED BY <1>1, <2>2, <3>1, <3>3, <3>4 DEF Ask, TypeInv, WorkType, Questioning
    <2>3. CASE /\ Remembered = ABSENT /\ pc' = "call"
               /\ work' = [work EXCEPT !.attempt = 0]
      <3>1. work' \in WorkType
        BY <1>a, <2>3 DEF WorkType
      <3> QED BY <1>1, <2>3, <3>1 DEF Ask, TypeInv, WorkType, Questioning
    <2> QED BY <1>1, <2>1, <2>2, <2>3 DEF Ask
  <1>2. CASE VendorAnswers
    <2> PICK reply \in VendorReplies : work' = [work EXCEPT !.reply = reply]
      BY <1>2 DEF VendorAnswers
    <2>1. reply \in RepliesTo(Field) /\ reply \in Entries
      BY Question
    <2>2. /\ work' \in WorkType /\ work'.todo = work.todo /\ work'.field = work.field
          /\ work'.reply = reply
      BY <1>a, <2>1 DEF WorkType
    <2>3. Field' = Field
      BY <2>2 DEF Field, Enumerating
    <2>4. usage' \in Usages
      BY <1>2, <1>a, <1>b DEF VendorAnswers, Usages, WorkType
    <2> QED BY <1>2, <2>1, <2>2, <2>3, <2>4 DEF VendorAnswers, TypeInv, WorkType, Questioning
  <1>3. CASE \E retryable \in BOOLEAN : VendorFails(retryable)
    <2> PICK retryable \in BOOLEAN : VendorFails(retryable)
      BY <1>3
    <2>1. CASE pc' = "call" /\ work' = [work EXCEPT !.attempt = @ + 1] /\ UNCHANGED code
      <3>1. work.attempt + 1 \in Nat
        BY <1>a DEF WorkType
      <3>2. work' \in WorkType
        BY <1>a, <2>1, <3>1 DEF WorkType
      <3> QED BY <2>1, <3>2 DEF VendorFails, TypeInv, WorkType, Questioning
    <2>2. CASE pc' = "early" /\ code' = "paper_failed" /\ UNCHANGED work
      BY <2>2 DEF VendorFails, TypeInv, WorkType, Questioning
    <2> QED BY <2>1, <2>2 DEF VendorFails
  <1>4. CASE DiskPut
    <2>1. work.reply \in RepliesTo(Field) /\ work.reply \in Entries
      BY <1>4, Question DEF DiskPut, TypeInv
    <2>2. disk' \in [Keys -> Entries]
          /\ \A k \in Keys : disk'[k] \in {ABSENT, CORRUPT} \cup RepliesTo(k[2])
      <3>1. disk' \in {disk, [disk EXCEPT ![Key] = work.reply]}
        BY <1>4 DEF DiskPut
      <3>2. Key \in Keys /\ Key[2] = Field
        BY Question
      <3> HIDE DEF Key
      <3> QED BY <2>1, <3>1, <3>2 DEF TypeInv
    <2>3. Field' = Field
      BY <1>4 DEF DiskPut, Field, Enumerating
    <2> QED BY <1>4, <2>1, <2>2, <2>3 DEF DiskPut, TypeInv, Questioning
  <1>5. CASE Archive
    <2>1. pc = "archive" /\ work.reply \in RepliesTo(Field) /\ work.reply \in Entries
      BY <1>5, Question DEF Archive, TypeInv
    <2>2. mem' \in [Clients \X Names \X FieldSet -> Entries]
      <3>1. mem' \in {mem, [mem EXCEPT ![MemKey] = work.reply]}
        BY <1>5 DEF Archive
      <3> HIDE DEF MemKey
      <3> QED BY <2>1, <3>1 DEF TypeInv
    <2>3. out' \in [specs : Seq(Names), events : Seq(Events),
                    manifest : Usages \cup {NONE}, raw : [Clients -> Nat]]
      <3>1. work.client \in Clients
        BY <1>a DEF WorkType
      <3>2. [out.raw EXCEPT ![work.client] = @ + 1] \in [Clients -> Nat]
        BY <1>c, <3>1
      <3>3. out' \in {out, [out EXCEPT !.raw = [out.raw EXCEPT ![work.client] = @ + 1]]}
        BY <1>5, <1>c DEF Archive
      <3> QED BY <1>c, <3>2, <3>3
    <2>4. Enumerating => work.reply \in EnumReplies
      BY <2>1, Question DEF RepliesTo
    <2>5. /\ pc' = "answered" /\ Enumerating' = Enumerating
          /\ UNCHANGED <<disk, opts, work, lists, result, usage, code, faultVars>>
      BY <1>5 DEF Archive, Enumerating
    <2> QED BY <2>2, <2>3, <2>4, <2>5 DEF TypeInv, Questioning
  <1>6. CASE NextClient
    <2>1. work' \in WorkType /\ work'.todo = work.todo
      BY <1>6, <1>a DEF NextClient, WorkType, Clients
    <2>2. lists' \in [Clients -> Lists]
      <3>1. Enumerating => work.reply \in Lists
        BY <1>6 DEF NextClient, TypeInv, Lists
      <3> QED BY <1>6, <1>b, <3>1 DEF NextClient
    <2>3. /\ pc' \in {"ask", "enumerated", "merge"}
          /\ pc' = "enumerated" => Enumerating
          /\ pc' = "merge" => ~Enumerating
          /\ Enumerating' = Enumerating
      BY <1>6, <2>1 DEF NextClient, Enumerating
    <2>4. pc' = "merge" => ~Enumerating'
      BY <1>6, <2>3 DEF NextClient
    <2>5. pc' = "enumerated" => Enumerating'
      BY <1>6, <2>3 DEF NextClient
    <2> QED BY <1>6, <2>1, <2>2, <2>3, <2>4, <2>5 DEF NextClient, TypeInv, WorkType, Questioning
  <1>7. CASE Enumerated
    <2> DEFINE s == StrategiesOf(lists["model_a"])
    <2>1. s \in Seq(Names)
      BY <1>b, ReplyAssumption DEF Lists, Clients
    <2> HIDE DEF s
    <2>2. CASE UNCHANGED work /\ pc' \in {"idle", "early"} /\ code' \in {"raised", "review"}
      BY <1>7, <2>2 DEF Enumerated, TypeInv, Questioning, WorkType
    <2>3. CASE /\ work' = [NoWork EXCEPT !.todo = s] /\ UNCHANGED code
               /\ pc' = IF s = <<>> THEN "write" ELSE "ask"
      <3>1. work' \in WorkType /\ work'.todo = s
        BY <2>1, <2>3, NoWorkTyped
      <3>2. pc' = "write" => Enumerating'
        BY <2>3, <3>1 DEF Enumerating
      <3> QED BY <1>7, <2>3, <3>1, <3>2 DEF Enumerated, TypeInv, Questioning, WorkType
    <2> QED BY <1>7, <2>2, <2>3 DEF Enumerated, s
  <1>8. ASSUME LeaveConstruction, pc \in {"merge", "emit"}, result' \in Results,
               UNCHANGED <<cacheVars, out, opts, lists, usage, code, faultVars>>
        PROVE  TypeInv'
    <2>1. work.todo \in Seq(Names) /\ work.todo # <<>>
      BY <1>8, <1>a DEF TypeInv, WorkType, Enumerating
    <2>2. Tail(work.todo) \in Seq(Names)
          /\ (Len(work.todo) = 1 => Tail(work.todo) = <<>>)
      BY <2>1, Popped
    <2>3. work' \in WorkType /\ work'.todo = Tail(work.todo)
      BY <1>8, <2>2, NoWorkTyped DEF LeaveConstruction
    <2>4. pc' \in {"write", "ask"} /\ (pc' = "write" => Enumerating')
      BY <1>8, <2>2, <2>3 DEF LeaveConstruction, Enumerating
    <2> QED BY <1>8, <2>3, <2>4 DEF TypeInv, Questioning, WorkType
  <1>d. ASSUME pc \in {"merge", "emit"},
               NEW kind \in {"assembly_incomplete", "emission_error"}
        PROVE  /\ [result EXCEPT !.events = Append(@, Event(kind))] \in Results
               /\ [result EXCEPT !.specs = Append(@, Label)] \in Results
    <2>1. Label \in Names
      BY <1>d, Question DEF TypeInv
    <2>2. Event(kind) \in Events
      BY <2>1 DEF Event, Events
    <2>3. /\ Append(result.events, Event(kind)) \in Seq(Events)
          /\ Append(result.specs, Label) \in Seq(Names)
      BY <1>b, <2>1, <2>2 DEF Results
    <2> QED BY <1>b, <2>3 DEF Results
  <1>9. CASE Merge
    <2>1. CASE pc' = "idle" /\ code' = "raised" /\ UNCHANGED <<work, result>>
      BY <1>9, <2>1 DEF Merge, TypeInv, WorkType, Questioning
    <2>2. CASE /\ result' = [result EXCEPT !.events = Append(@, Event("assembly_incomplete"))]
               /\ LeaveConstruction /\ UNCHANGED code
      <3>1. result' \in Results
        BY <1>9, <1>d, <2>2 DEF Merge
      <3> QED BY <1>8, <1>9, <2>2, <3>1 DEF Merge
    <2>3. CASE pc' = "emit" /\ UNCHANGED <<work, result, code>>
      <3>1. ~Enumerating /\ Enumerating' = Enumerating
        BY <1>9, <2>3 DEF Merge, TypeInv, Enumerating
      <3> QED BY <1>9, <2>3, <3>1 DEF Merge, TypeInv, WorkType, Questioning
    <2>4. CASE /\ work.field # Len(Fields) /\ pc' = "ask"
               /\ work' = [work EXCEPT !.field = @ + 1] /\ UNCHANGED <<result, code>>
      <3>1. work.field + 1 \in DOMAIN Fields
        BY <1>a, <2>4, FirstField DEF WorkType
      <3>2. work' \in WorkType
        BY <1>a, <2>4, <3>1 DEF WorkType
      <3> QED BY <1>9, <2>4, <3>2 DEF Merge, TypeInv, WorkType, Questioning
    <2> QED BY <1>9, <2>1, <2>2, <2>3, <2>4 DEF Merge
  <1>10. CASE Emit
    <2>1. result' \in Results
      BY <1>10, <1>d DEF Emit
    <2> QED BY <1>8, <1>10, <2>1 DEF Emit
  <1>11. CASE WriteSpec
    <2>1. Len(out.specs) + 1 \in DOMAIN result.specs
      BY <1>11, <1>b, <1>c DEF WriteSpec, Results
    <2>2. result.specs[Len(out.specs) + 1] \in Names
      BY <1>b, <2>1 DEF Results
    <2>3. Append(out.specs, result.specs[Len(out.specs) + 1]) \in Seq(Names)
      BY <1>c, <2>2
    <2>4. out' \in [specs : Seq(Names), events : Seq(Events),
                    manifest : Usages \cup {NONE}, raw : [Clients -> Nat]]
      BY <1>11, <1>c, <2>3 DEF WriteSpec
    <2>5. Enumerating' = Enumerating
      BY <1>11 DEF WriteSpec, Enumerating
    <2> QED BY <1>11, <2>4, <2>5 DEF WriteSpec, TypeInv, Questioning
  <1>12. CASE WriteEvents
    <2>1. out' \in [specs : Seq(Names), events : Seq(Events),
                    manifest : Usages \cup {NONE}, raw : [Clients -> Nat]]
      BY <1>12, <1>b, <1>c DEF WriteEvents, Results
    <2>2. Enumerating' /\ pc' = "manifest"
      BY <1>12 DEF WriteEvents, Enumerating, TypeInv
    <2> QED BY <1>12, <2>1, <2>2 DEF WriteEvents, TypeInv, Questioning
  <1>13. CASE Complete \/ EarlyExit
    <2>1. out' \in [specs : Seq(Names), events : Seq(Events),
                    manifest : Usages \cup {NONE}, raw : [Clients -> Nat]]
      <3>1. out' = [out EXCEPT !.manifest = usage] /\ usage \in Usages \cup {NONE}
        BY <1>13, <1>b DEF Complete, EarlyExit
      <3> DEFINE M == Usages \cup {NONE}
      <3>2. usage \in M /\ out \in [specs : Seq(Names), events : Seq(Events),
                                   manifest : M, raw : [Clients -> Nat]]
        BY <1>c, <3>1
      <3> HIDE DEF M
      <3>3. [out EXCEPT !.manifest = usage] \in
                [specs : Seq(Names), events : Seq(Events), manifest : M,
                 raw : [Clients -> Nat]]
        BY <3>2
      <3> QED BY <3>1, <3>3 DEF M
    <2>2. code' \in {code, "specs", "review", "no_specs"}
      BY <1>13 DEF Complete, EarlyExit, ExitCode
    <2> QED BY <1>13, <2>1, <2>2 DEF Complete, EarlyExit, TypeInv, Questioning
  <1>14. CASE \E o \in Options : Start(o.live, o.cache)
    <2> PICK o \in Options : Start(o.live, o.cache)
      BY <1>14
    <2> USE DEF Start, Begin
    <2>1. opts' \in [live : BOOLEAN, cache : BOOLEAN]
      BY BoundAssumption
    <2>2. out' \in [specs : Seq(Names), events : Seq(Events),
                    manifest : Usages \cup {NONE}, raw : [Clients -> Nat]]
      <3> DEFINE M == Usages \cup {NONE}
                 R == [Clients -> Nat]
                 r == [m \in Clients |-> 0]
      <3>1. /\ r \in R /\ NONE \in M /\ <<>> \in Seq(Names)
            /\ out \in [specs : Seq(Names), events : Seq(Events), manifest : M, raw : R]
            /\ out' = [out EXCEPT !.specs = <<>>, !.manifest = NONE, !.raw = r]
        BY <1>c
      <3> HIDE DEF M, R, r
      <3>2. [out EXCEPT !.specs = <<>>, !.manifest = NONE, !.raw = r] \in
                [specs : Seq(Names), events : Seq(Events), manifest : M, raw : R]
        BY <3>1
      <3> QED BY <3>1, <3>2 DEF M, R
    <2>3. lists' \in [Clients -> Lists]
      BY DEF Lists
    <2>4. work' \in WorkType /\ Enumerating' /\ starts' \in Nat
      BY NoWorkTyped DEF Enumerating, TypeInv
    <2> QED BY <2>1, <2>2, <2>3, <2>4, NoMemTyped, FreshTyped
            DEF TypeInv, WorkType, Questioning
  <1>15. CASE Crash
    <2>1. lists' \in [Clients -> Lists] /\ faults' \in Nat
      BY <1>15 DEF Crash, Lists, TypeInv
    <2> QED BY <1>15, <2>1, NoWorkTyped, NoMemTyped, FreshTyped
            DEF Crash, TypeInv, WorkType, Questioning
  <1>16. CASE \E k \in Keys : SpoilEntry(k)
    <2> PICK k \in Keys : SpoilEntry(k)
      BY <1>16
    <2>1. disk' \in [Keys -> Entries]
          /\ \A j \in Keys : disk'[j] \in {ABSENT, CORRUPT} \cup RepliesTo(j[2])
      BY DEF SpoilEntry, TypeInv, Entries
    <2>2. faults' \in Nat /\ pc' \in {"idle", "ask"}
      BY DEF SpoilEntry, TypeInv
    <2> QED BY <2>1, <2>2 DEF SpoilEntry, TypeInv, Questioning
  <1> QED BY <1>1, <1>2, <1>3, <1>4, <1>5, <1>6, <1>7, <1>9, <1>10, <1>11, <1>12, <1>13,
             <1>14, <1>15, <1>16 DEF Next, Step

-----------------------------------------------------------------------------
(* What was used is what a later run replays.                               *)

LEMMA ReplayStep ==
    ASSUME TypeInv, ReplayInv, Next
    PROVE  ReplayInv'
  <1> USE DEF cacheVars, faultVars
  <1>a. work \in WorkType /\ ABSENT # CORRUPT
    BY ReplyAssumption DEF TypeInv, WorkType
  <1>b. /\ DOMAIN mem = Clients \X Names \X FieldSet
        /\ DOMAIN disk = Keys
        /\ \A x \in Clients \X Names \X FieldSet : <<x[1], x[3]>> \in Keys
    BY DEF TypeInv, Keys
  <1>c. Key \in Keys
    BY Question
  <1>1. CASE Ask
    <2>1. work'.todo = work.todo /\ work'.field = work.field /\ work'.client = work.client
      BY <1>1, <1>a DEF Ask, WorkType
    <2>2. Key' = Key
      BY <2>1 DEF Key, Field, Enumerating
    <2>3. pc' = "call" /\ opts.cache => ~Readable(disk[Key])
      BY <1>1 DEF Ask
    <2>4. pc' = "archive" => work'.reply = disk[Key]
      BY <1>1, <1>a DEF Ask, WorkType
    <2>5. pc # "idle" /\ pc' \in {"answered", "archive", "call"}
          /\ UNCHANGED <<disk, mem, opts>>
      BY <1>1 DEF Ask
    <2> HIDE DEF Key
    <2>6. Readable(disk[Key])' = Readable(disk[Key])
      BY <2>2, <2>5 DEF Readable
    <2>7. ReplaysAgree'
      BY <2>5 DEF ReplayInv, ReplaysAgree
    <2> QED BY <2>2, <2>3, <2>4, <2>5, <2>6, <2>7 DEF ReplayInv
  <1>2. CASE VendorAnswers \/ \E retryable \in BOOLEAN : VendorFails(retryable)
    <2>1. work'.todo = work.todo /\ work'.field = work.field /\ work'.client = work.client
      BY <1>2, <1>a DEF VendorAnswers, VendorFails, WorkType
    <2>2. Key' = Key
      BY <2>1 DEF Key, Field, Enumerating
    <2>3. pc = "call" /\ pc' \in {"put", "call", "early"} /\ UNCHANGED <<disk, mem, opts>>
      BY <1>2 DEF VendorAnswers, VendorFails
    <2> HIDE DEF Key
    <2>4. ReplaysAgree'
      BY <2>3 DEF ReplayInv, ReplaysAgree
    <2> QED BY <2>2, <2>3, <2>4 DEF ReplayInv, Readable
  <1>3. CASE DiskPut
    <2>1. Key' = Key /\ UNCHANGED <<mem, opts, work>> /\ pc = "put" /\ pc' = "archive"
      BY <1>3 DEF DiskPut, Key, Field, Enumerating
    <2> HIDE DEF Key
    <2>2. disk' = IF opts.cache /\ disk[Key] = ABSENT
                  THEN [disk EXCEPT ![Key] = work.reply] ELSE disk
      BY <1>3 DEF DiskPut
    <2>3. opts.cache => disk'[Key] \in {work.reply, CORRUPT}
      BY <2>1, <2>2, <1>b, <1>c DEF ReplayInv, Readable
    <2>4. ReplaysAgree'
      <3> SUFFICES ASSUME opts.cache, NEW x \in Clients \X Names \X FieldSet,
                          mem[x] # ABSENT
                   PROVE  disk'[<<x[1], x[3]>>] \in {mem[x], CORRUPT}
        BY <2>1, <1>b DEF ReplaysAgree
      <3> DEFINE k == <<x[1], x[3]>>
      <3>1. disk[k] \in {mem[x], CORRUPT} /\ k \in Keys
        BY <2>1, <1>b DEF ReplayInv, ReplaysAgree
      <3> HIDE DEF k
      <3>2. disk'[k] = disk[k]
        BY <3>1, <1>a, <1>b, <2>2
      <3> QED BY <3>1, <3>2 DEF k
    <2> QED BY <2>1, <2>3, <2>4 DEF ReplayInv
  <1>4. CASE Archive
    <2>1. pc = "archive" /\ pc' = "answered" /\ UNCHANGED <<disk, opts>>
      BY <1>4 DEF Archive
    <2>2. ReplaysAgree'
      <3>1. CASE UNCHANGED mem
        BY <3>1, <2>1 DEF ReplayInv, ReplaysAgree
      <3>2. CASE ~Enumerating /\ mem' = [mem EXCEPT ![MemKey] = work.reply]
        <4>1. MemKey \in DOMAIN mem
          BY <3>2, <1>b, Question
        <4>2. opts.cache => disk[<<MemKey[1], MemKey[3]>>] \in {work.reply, CORRUPT}
          BY <2>1 DEF ReplayInv, MemKey, Key
        <4> HIDE DEF MemKey
        <4> QED BY <2>1, <3>2, <4>1, <4>2 DEF ReplayInv, ReplaysAgree
      <3> QED BY <1>4, <3>1, <3>2 DEF Archive
    <2> QED BY <2>1, <2>2 DEF ReplayInv
  <1>5. CASE \/ NextClient \/ Enumerated \/ Merge \/ Emit
             \/ WriteSpec \/ WriteEvents \/ Complete \/ EarlyExit
    <2>1. pc # "idle" /\ pc' \notin {"call", "put", "archive"} /\ UNCHANGED <<disk, mem, opts>>
      BY <1>5 DEF NextClient, Enumerated, Merge, Emit, LeaveConstruction,
                  WriteSpec, WriteEvents, Complete, EarlyExit
    <2> QED BY <2>1 DEF ReplayInv, ReplaysAgree
  <1>6. CASE \E o \in Options : Start(o.live, o.cache)
    BY <1>6 DEF Start, Begin, ReplayInv, ReplaysAgree, NoMem
  <1>7. CASE Crash
    BY <1>7 DEF Crash, ReplayInv, ReplaysAgree
  <1>8. CASE \E k \in Keys : SpoilEntry(k)
    <2> PICK k \in Keys : SpoilEntry(k)
      BY <1>8
    <2>1. /\ pc' \in {"idle", "ask"} /\ UNCHANGED <<pc, mem, opts>>
          /\ disk' = [disk EXCEPT ![k] = CORRUPT]
      BY DEF SpoilEntry
    <2>2. \A j \in Keys : disk'[j] \in {disk[j], CORRUPT}
      BY <2>1, <1>b
    <2> QED BY <1>b, <2>1, <2>2 DEF ReplayInv, ReplaysAgree
  <1> QED BY <1>1, <1>2, <1>3, <1>4, <1>5, <1>6, <1>7, <1>8 DEF Next, Step

LEMMA ReplayInit == Init => ReplayInv
  BY DEF Init, ReplayInv, ReplaysAgree

LEMMA Stutter == TypeInv /\ UNCHANGED vars => TypeInv'
  BY DEF vars, TypeInv, Enumerating, Field

LEMMA Typed == Spec => []TypeInv
  BY InitTyped, TypeStep, Stutter, PTL DEF Spec

\* Whatever a cached run has used is what the disk cache would give a later run,
\* unless that entry was spoiled: no vendor's later answer, and no earlier entry,
\* ever comes between what was used and what is replayed (real_client.py
\* 1063-1092).
THEOREM CachesAgree == Spec => []ReplaysAgree
  <1>1. ReplayInv /\ UNCHANGED vars => ReplayInv'
    BY DEF vars, ReplayInv, ReplaysAgree, Readable, Key, Field, Enumerating
  <1>2. ReplayInv => ReplaysAgree
    BY DEF ReplayInv
  <1> QED BY <1>1, <1>2, Typed, ReplayInit, ReplayStep, PTL DEF Spec

-----------------------------------------------------------------------------
(* One outcome per construction, and no partial spec set.                   *)

LEMMA Appended ==
    ASSUME NEW S, NEW s \in Seq(S), NEW e \in S
    PROVE  /\ Len(Append(s, e)) = Len(s) + 1
           /\ NamesIn(Append(s, e)) = NamesIn(s) \cup {e}
           /\ EventNames(Append(s, e)) = EventNames(s) \cup {e.name}
  <1> DEFINE t == Append(s, e)
             n == Len(s)
  <1>1. /\ n \in Nat /\ DOMAIN s = 1..n /\ DOMAIN t = 1..(n + 1) /\ Len(t) = n + 1
        /\ \A i \in 1..n : t[i] = s[i]
        /\ t[n + 1] = e
    OBVIOUS
  <1> HIDE DEF t, n
  <1>2. 1..(n + 1) = (1..n) \cup {n + 1}
    BY <1>1
  <1>3. NamesIn(t) = NamesIn(s) \cup {e}
    BY <1>1, <1>2 DEF NamesIn
  <1>4. EventNames(t) = EventNames(s) \cup {e.name}
    BY <1>1, <1>2 DEF EventNames
  <1> QED BY <1>1, <1>3, <1>4 DEF t, n

LEMMA Nothing ==
    /\ NamesIn(<<>>) = {} /\ EventNames(<<>>) = {} /\ Len(<<>>) = 0
    /\ NoResult.specs = <<>> /\ NoResult.events = <<>>
  BY DEF NamesIn, EventNames, NoResult

LEMMA Counts ==
    \A a, b, c \in Nat : /\ a + b + 0 = a + b
                         /\ (a + 1) + b + c = a + b + (c + 1)
                         /\ a + (b + 1) + c = a + b + (c + 1)
  OBVIOUS

\* A construction that is done passes from those to do to those with an outcome.
LEMMA Leaving ==
    ASSUME TypeInv, Accounted, pc \in {"merge", "emit"}, LeaveConstruction,
           UNCHANGED lists,
           \/ \E kind \in {"assembly_incomplete", "emission_error"} :
                 result' = [result EXCEPT !.events = Append(@, Event(kind))]
           \/ result' = [result EXCEPT !.specs = Append(@, Label)]
    PROVE  Accounted' /\ (pc' = "ask" => ~Enumerating')
  <1> DEFINE t == work.todo
  <1>1. t \in Seq(Names) /\ t # <<>> /\ result \in Results /\ Label = Head(t)
    BY DEF TypeInv, Enumerating, Label
  <1>2. /\ Label \in Names /\ Tail(t) \in Seq(Names) /\ Len(t) = Len(Tail(t)) + 1
        /\ NamesIn(t) = {Label} \cup NamesIn(Tail(t))
    BY <1>1, Popped
  <1>3. work'.todo = Tail(t)
    BY <1>2, NoWorkTyped DEF LeaveConstruction
  <1>4. pc' = "ask" => ~Enumerating'
    <2> SUFFICES ASSUME pc' = "ask" PROVE Tail(t) # <<>>
      BY <1>3 DEF Enumerating
    <2>1. Len(t) # 1
      BY DEF LeaveConstruction
    <2> HIDE DEF t
    <2>2. Tail(t) = <<>> => Len(Tail(t)) = 0
      BY Nothing
    <2>3. Tail(t) = <<>> => Len(t) = 1
      BY <1>2, <2>2
    <2>4. Len(t) # 1
      BY <2>1 DEF t
    <2> QED BY <2>3, <2>4
  <1>5. /\ result.specs \in Seq(Names) /\ result.events \in Seq(Events)
        /\ Len(result.specs) \in Nat /\ Len(result.events) \in Nat /\ Len(Tail(t)) \in Nat
    BY <1>1, <1>2 DEF Results
  <1>6. Strategies' = Strategies
    BY DEF Strategies
  <1>7. Accounted'
    <2>1. CASE result' = [result EXCEPT !.specs = Append(@, Label)]
      <3>1. result'.specs = Append(result.specs, Label) /\ result'.events = result.events
        BY <1>1, <2>1 DEF Results
      <3>2. /\ Len(result'.specs) = Len(result.specs) + 1
            /\ NamesIn(result'.specs) = NamesIn(result.specs) \cup {Label}
        BY <1>2, <1>5, <3>1, Appended
      <3>3. /\ Len(result.specs) + Len(result.events) + Len(t) = Len(Strategies)
            /\ NamesIn(result.specs) \cup EventNames(result.events) \cup NamesIn(t)
                   = NamesIn(Strategies)
        BY DEF Accounted
      <3> HIDE DEF t
      <3>4. Len(result'.specs) + Len(result'.events) + Len(work'.todo) = Len(Strategies)
        <4> DEFINE a == Len(result.specs)
                   b == Len(result.events)
                   c == Len(Tail(t))
        <4>1. /\ a \in Nat /\ b \in Nat /\ c \in Nat
              /\ a + b + (c + 1) = Len(Strategies)
          BY <1>2, <1>5, <3>3
        <4>2. Len(work'.todo) = c
              /\ Len(result'.specs) = a + 1 /\ Len(result'.events) = b
          BY <1>3, <3>1, <3>2
        <4> HIDE DEF a, b, c
        <4>3. (a + 1) + b + c = Len(Strategies)
          BY <4>1, Counts
        <4> QED BY <4>2, <4>3, Zenon
      <3>5. NamesIn(result'.specs) \cup EventNames(result'.events) \cup NamesIn(work'.todo)
                = NamesIn(Strategies)
        BY <1>2, <1>3, <3>1, <3>2, <3>3
      <3> QED BY <1>6, <3>4, <3>5 DEF Accounted
    <2>2. CASE \E kind \in {"assembly_incomplete", "emission_error"} :
                  result' = [result EXCEPT !.events = Append(@, Event(kind))]
      <3> PICK kind \in {"assembly_incomplete", "emission_error"} :
                  result' = [result EXCEPT !.events = Append(@, Event(kind))]
        BY <2>2
      <3>1. result'.events = Append(result.events, Event(kind))
            /\ result'.specs = result.specs
        BY <1>1 DEF Results
      <3>2. Event(kind) \in Events /\ Event(kind).name = Label
        BY <1>2 DEF Event, Events
      <3>3. /\ Len(result'.events) = Len(result.events) + 1
            /\ EventNames(result'.events) = EventNames(result.events) \cup {Label}
        BY <1>5, <3>1, <3>2, Appended
      <3>4. /\ Len(result.specs) + Len(result.events) + Len(t) = Len(Strategies)
            /\ NamesIn(result.specs) \cup EventNames(result.events) \cup NamesIn(t)
                   = NamesIn(Strategies)
        BY DEF Accounted
      <3> HIDE DEF t
      <3>5. Len(result'.specs) + Len(result'.events) + Len(work'.todo) = Len(Strategies)
        <4> DEFINE a == Len(result.specs)
                   b == Len(result.events)
                   c == Len(Tail(t))
        <4>1. /\ a \in Nat /\ b \in Nat /\ c \in Nat
              /\ a + b + (c + 1) = Len(Strategies)
          BY <1>2, <1>5, <3>4
        <4>2. Len(work'.todo) = c
              /\ Len(result'.specs) = a /\ Len(result'.events) = b + 1
          BY <1>3, <3>1, <3>3
        <4> HIDE DEF a, b, c
        <4>3. a + (b + 1) + c = Len(Strategies)
          BY <4>1, Counts
        <4> QED BY <4>2, <4>3, Zenon
      <3>6. NamesIn(result'.specs) \cup EventNames(result'.events) \cup NamesIn(work'.todo)
                = NamesIn(Strategies)
        BY <1>2, <1>3, <3>1, <3>3, <3>4
      <3> QED BY <1>6, <3>5, <3>6 DEF Accounted
    <2> QED BY <2>1, <2>2
  <1> QED BY <1>4, <1>7

LEMMA OutcomeStep ==
    ASSUME TypeInv, OutcomeInv, OutputInv, Next
    PROVE  OutcomeInv'
  <1> USE DEF cacheVars, faultVars
  <1>a. work \in WorkType
    BY DEF TypeInv, WorkType
  <1>1. CASE \/ Ask \/ VendorAnswers \/ DiskPut \/ Archive
             \/ \E retryable \in BOOLEAN : VendorFails(retryable)
    <2>1. work'.todo = work.todo
      BY <1>1, <1>a DEF Ask, VendorAnswers, DiskPut, Archive, VendorFails, WorkType
    <2>2. pc \in Questioning /\ pc' \in Questioning \cup {"early"}
          /\ UNCHANGED <<result, lists>>
      BY <1>1 DEF Ask, VendorAnswers, DiskPut, Archive, VendorFails, Questioning
    <2>3. Enumerating' = Enumerating /\ Accounted' = Accounted
      BY <2>1, <2>2 DEF Enumerating, Accounted, Strategies
    <2> QED BY <2>2, <2>3 DEF OutcomeInv, PaperRan, Questioning
  <1>2. CASE NextClient
    <2>1. work'.todo = work.todo /\ UNCHANGED result
      BY <1>2, <1>a DEF NextClient, WorkType
    <2>2. /\ pc = "answered" /\ pc' \in {"ask", "enumerated", "merge"}
          /\ pc' = "enumerated" => Enumerating
          /\ Enumerating' = Enumerating
      BY <1>2, <2>1 DEF NextClient, Enumerating
    <2>3. Enumerating => result' = NoResult
      BY <2>1, <2>2 DEF OutcomeInv, Questioning
    <2>4. ~Enumerating => Accounted'
      <3> SUFFICES ASSUME ~Enumerating PROVE Accounted'
        OBVIOUS
      <3>1. UNCHANGED lists
        BY <1>2 DEF NextClient
      <3> QED BY <2>1, <2>2, <3>1 DEF OutcomeInv, Accounted, Strategies, Questioning
    <2> QED BY <2>2, <2>3, <2>4 DEF OutcomeInv, PaperRan, Questioning
  <1>3. CASE Enumerated
    <2>1. result = NoResult /\ UNCHANGED <<result, lists>>
      BY <1>3 DEF Enumerated, OutcomeInv, TypeInv
    <2>2. CASE UNCHANGED work /\ pc' \in {"idle", "early"} /\ code' \in {"raised", "review"}
      BY <2>1, <2>2 DEF OutcomeInv, PaperRan, Questioning
    <2>3. CASE /\ work' = [NoWork EXCEPT !.todo = Strategies]
               /\ pc' = IF Strategies = <<>> THEN "write" ELSE "ask"
      <3>1. Strategies \in Seq(Names) /\ Strategies' = Strategies
        BY <2>1, ReplyAssumption DEF Strategies, TypeInv, Lists, Clients
      <3>2. work'.todo = Strategies
        BY <2>3, <3>1, NoWorkTyped
      <3>3. Accounted' /\ (pc' = "ask" => ~Enumerating')
        BY <2>1, <2>3, <3>1, <3>2, Nothing DEF Accounted, Enumerating
      <3> QED BY <2>3, <3>3 DEF OutcomeInv, PaperRan, Questioning
    <2> QED BY <1>3, <2>2, <2>3 DEF Enumerated, Strategies
  <1>4. CASE Merge
    <2>1. ~Enumerating /\ Accounted /\ UNCHANGED lists /\ pc = "merge"
      BY <1>4 DEF Merge, TypeInv, OutcomeInv
    <2>2. CASE pc' = "idle" /\ code' = "raised"
      BY <2>2 DEF OutcomeInv, PaperRan, Questioning
    <2>3. CASE /\ result' = [result EXCEPT !.events = Append(@, Event("assembly_incomplete"))]
               /\ LeaveConstruction
      <3>1. Accounted' /\ (pc' = "ask" => ~Enumerating') /\ pc' \in {"ask", "write"}
        BY <2>1, <2>3, Leaving DEF LeaveConstruction
      <3> QED BY <3>1 DEF OutcomeInv, PaperRan, Questioning
    <2>4. CASE /\ pc' \in {"emit", "ask"} /\ UNCHANGED <<result, code>>
               /\ work' \in {work, [work EXCEPT !.field = @ + 1]}
      <3>1. work'.todo = work.todo
        BY <1>a, <2>4 DEF WorkType
      <3>2. Accounted' /\ ~Enumerating'
        BY <2>1, <2>4, <3>1 DEF Accounted, Strategies, Enumerating
      <3> QED BY <2>4, <3>2 DEF OutcomeInv, PaperRan, Questioning
    <2> QED BY <1>4, <2>2, <2>3, <2>4 DEF Merge
  <1>5. CASE Emit
    <2>1. ~Enumerating /\ Accounted /\ UNCHANGED lists /\ pc = "emit" /\ LeaveConstruction
      BY <1>5 DEF Emit, TypeInv, OutcomeInv
    <2>2. Accounted' /\ (pc' = "ask" => ~Enumerating') /\ pc' \in {"ask", "write"}
      BY <1>5, <2>1, Leaving DEF LeaveConstruction, Emit
    <2> QED BY <2>2 DEF OutcomeInv, PaperRan, Questioning
  <1>6. CASE WriteSpec \/ WriteEvents
    <2>1. pc = "write" /\ pc' \in {"write", "manifest"} /\ UNCHANGED <<result, lists, work>>
      BY <1>6 DEF WriteSpec, WriteEvents
    <2>2. Accounted'
      BY <2>1 DEF OutcomeInv, Accounted, Strategies
    <2> QED BY <2>1, <2>2 DEF OutcomeInv, PaperRan, Questioning
  <1>7. CASE Complete
    <2>1. pc = "manifest" /\ pc' = "idle" /\ UNCHANGED <<result, lists>> /\ work.todo = <<>>
      BY <1>7 DEF Complete, TypeInv, Enumerating
    <2>2. /\ Len(result.specs) + Len(result.events) = Len(Strategies)
          /\ NamesIn(result.specs) \cup EventNames(result.events) = NamesIn(Strategies)
      <3>1. Accounted /\ Len(result.specs) \in Nat /\ Len(result.events) \in Nat
        BY <2>1 DEF OutcomeInv, TypeInv, Results
      <3>2. Len(work.todo) = 0 /\ NamesIn(work.todo) = {}
        BY <2>1, Nothing
      <3>3. Len(result.specs) + Len(result.events) = Len(Strategies)
        <4> DEFINE a == Len(result.specs)
                   b == Len(result.events)
        <4>1. a \in Nat /\ b \in Nat /\ a + b + 0 = Len(Strategies)
          BY <3>1, <3>2 DEF Accounted
        <4> HIDE DEF a, b
        <4>2. a + b = Len(Strategies)
          BY <4>1, Counts
        <4> QED BY <4>2 DEF a, b
      <3>4. NamesIn(result.specs) \cup EventNames(result.events) = NamesIn(Strategies)
        BY <3>1, <3>2 DEF Accounted
      <3> QED BY <3>3, <3>4
    <2> QED BY <2>1, <2>2 DEF OutcomeInv, Questioning, Strategies
  <1>8. CASE EarlyExit
    <2>1. pc' = "idle" /\ UNCHANGED <<result, code>>
          /\ (code = "paper_failed" \/ result = NoResult)
      BY <1>8 DEF EarlyExit, OutputInv
    <2> QED BY <2>1 DEF OutcomeInv, PaperRan, Questioning
  <1>9. CASE \E o \in Options : Start(o.live, o.cache)
    <2>1. pc' \in {"ask", "enumerated"} /\ result' = NoResult /\ work'.todo = <<>>
      BY <1>9, NoWorkTyped DEF Start, Begin
    <2> QED BY <2>1 DEF OutcomeInv, PaperRan, Questioning, Enumerating
  <1>10. CASE Crash
    BY <1>10 DEF Crash, OutcomeInv, PaperRan, Questioning
  <1>11. CASE \E k \in Keys : SpoilEntry(k)
    <2>1. UNCHANGED <<pc, work, lists, result, code>>
      BY <1>11 DEF SpoilEntry
    <2> QED BY <2>1 DEF OutcomeInv, PaperRan, Questioning, Enumerating, Accounted, Strategies
  <1> QED BY <1>1, <1>2, <1>3, <1>4, <1>5, <1>6, <1>7, <1>8, <1>9, <1>10, <1>11
          DEF Next, Step

LEMMA OutputStep ==
    ASSUME TypeInv, OutcomeInv, OutputInv, Next
    PROVE  OutputInv'
  <1> USE DEF cacheVars, faultVars
  <1>a. /\ out \in [specs : Seq(Names), events : Seq(Events),
                    manifest : Usages \cup {NONE}, raw : [Clients -> Nat]]
        /\ result \in Results
    BY DEF TypeInv
  <1>1. CASE \/ Ask \/ VendorAnswers \/ DiskPut \/ Archive \/ NextClient \/ Emit
             \/ \E retryable \in BOOLEAN : VendorFails(retryable)
             \/ Merge /\ pc' # "idle"
    <2>1. out'.specs = out.specs /\ out'.manifest = out.manifest
      BY <1>1, <1>a DEF Ask, VendorAnswers, DiskPut, Archive, NextClient, Emit,
                        VendorFails, Merge, LeaveConstruction
    <2>2. /\ pc \in Questioning \cup {"merge", "emit"}
          /\ pc' \in Questioning \cup {"merge", "emit", "enumerated", "write", "early"}
          /\ (pc' = "early" => code' = "paper_failed")
          /\ (pc' # "early" => UNCHANGED code)
      BY <1>1 DEF Ask, VendorAnswers, DiskPut, Archive, NextClient, Emit,
                  VendorFails, Merge, LeaveConstruction, Questioning
    <2>3. out.specs = <<>> /\ out.manifest = NONE /\ code = "running"
      BY <2>2 DEF OutputInv, Questioning
    <2>4. pc' = "write" => result' \in Results
      BY TypeStep DEF TypeInv
    <2>5. pc' = "write" => Len(out'.specs) = 0 /\ Len(result'.specs) \in Nat
      BY <2>1, <2>3, <2>4, Nothing DEF Results
    <2> QED BY <2>1, <2>2, <2>3, <2>5 DEF OutputInv, NoPartialSpecSet, PaperRan, Questioning
  <1>2. CASE Merge /\ pc' = "idle"
    <2>1. code' = "raised" /\ UNCHANGED out /\ pc = "merge"
      BY <1>2 DEF Merge, LeaveConstruction
    <2> QED BY <1>2, <2>1 DEF OutputInv, NoPartialSpecSet, PaperRan
  <1>3. CASE Enumerated
    <2>1. UNCHANGED <<out, result>> /\ pc = "enumerated" /\ result = NoResult
      BY <1>3 DEF Enumerated, OutcomeInv, TypeInv
    <2>2. \/ pc' = "idle" /\ code' = "raised"
          \/ pc' = "early" /\ code' = "review"
          \/ pc' \in {"write", "ask"} /\ UNCHANGED code
      BY <1>3 DEF Enumerated
    <2>3. out.specs = <<>> /\ out.manifest = NONE /\ code = "running"
      BY <2>1 DEF OutputInv
    <2>4. Len(out.specs) = 0 /\ Len(result.specs) \in Nat
      BY <1>a, <2>3, Nothing DEF Results
    <2> QED BY <2>1, <2>2, <2>3, <2>4 DEF OutputInv, NoPartialSpecSet, PaperRan
  <1>4. CASE WriteSpec
    <2> DEFINE n == Len(out.specs)
               e == result.specs[n + 1]
    <2>1. /\ out.specs \in Seq(Names) /\ result.specs \in Seq(Names)
          /\ n \in Nat /\ Len(result.specs) \in Nat /\ n < Len(result.specs)
      BY <1>4, <1>a DEF WriteSpec, Results
    <2>2. out'.specs = Append(out.specs, e) /\ out'.manifest = out.manifest
      BY <1>4, <1>a DEF WriteSpec
    <2>3. /\ Len(out'.specs) = n + 1
          /\ \A i \in 1..n : out'.specs[i] = out.specs[i]
          /\ out'.specs[n + 1] = e
      BY <2>1, <2>2
    <2>4. \A i \in 1..n : out.specs[i] = result.specs[i]
      BY <1>4 DEF WriteSpec, OutputInv
    <2>5. \A i \in 1..Len(out'.specs) : out'.specs[i] = result.specs[i]
      <3>1. \A i \in 1..(n + 1) : i \in 1..n \/ i = n + 1
        BY <2>1
      <3> HIDE DEF n
      <3> QED BY <2>3, <2>4, <3>1 DEF e
    <2>6. Len(out'.specs) <= Len(result.specs)
      BY <2>1, <2>3
    <2>7. pc = "write" /\ UNCHANGED <<pc, result, code>>
          /\ out'.manifest = NONE /\ code = "running"
      BY <1>4, <2>2 DEF WriteSpec, OutputInv
    <2> QED BY <2>5, <2>6, <2>7 DEF OutputInv, NoPartialSpecSet, PaperRan
  <1>5. CASE WriteEvents
    <2>1. /\ out.specs \in Seq(Names) /\ result.specs \in Seq(Names)
          /\ Len(out.specs) = Len(result.specs)
          /\ \A i \in 1..Len(out.specs) : out.specs[i] = result.specs[i]
      BY <1>5, <1>a DEF WriteEvents, Results, OutputInv
    <2>2. out.specs = result.specs
      BY <2>1, SeqEqual
    <2>3. /\ out'.specs = out.specs /\ out'.manifest = out.manifest
          /\ result.events # <<>> => out'.events = result.events
      BY <1>5, <1>a DEF WriteEvents
    <2>4. pc' = "manifest" /\ UNCHANGED <<result, code>> /\ pc = "write"
          /\ out.manifest = NONE /\ code = "running"
      BY <1>5 DEF WriteEvents, OutputInv
    <2> QED BY <2>2, <2>3, <2>4 DEF OutputInv, NoPartialSpecSet, PaperRan
  <1>6. CASE Complete
    <2>1. /\ out'.specs = result.specs
          /\ (result.events # <<>> => out'.events = result.events)
      BY <1>6, <1>a DEF Complete, OutputInv
    <2>2. code' \in {"specs", "review", "no_specs"} /\ pc' = "idle" /\ UNCHANGED result
      BY <1>6 DEF Complete, ExitCode
    <2> QED BY <2>1, <2>2 DEF OutputInv, NoPartialSpecSet
  <1>7. CASE EarlyExit
    <2>1. out'.specs = <<>> /\ out.specs = <<>>
      BY <1>7, <1>a DEF EarlyExit, OutputInv
    <2>2. /\ pc' = "idle" /\ UNCHANGED <<result, code>>
          /\ (code = "paper_failed" \/ (code = "review" /\ result = NoResult))
      BY <1>7 DEF EarlyExit, OutputInv
    <2> QED BY <2>1, <2>2, Nothing DEF OutputInv, NoPartialSpecSet, PaperRan
  <1>8. CASE \E o \in Options : Start(o.live, o.cache)
    <2>1. /\ pc' \in {"ask", "enumerated"} /\ code' = "running"
          /\ out'.specs = <<>> /\ out'.manifest = NONE
      BY <1>8, <1>a DEF Start, Begin
    <2> QED BY <2>1 DEF OutputInv, NoPartialSpecSet, PaperRan
  <1>9. CASE Crash
    BY <1>9 DEF Crash, OutputInv, NoPartialSpecSet, PaperRan
  <1>10. CASE \E k \in Keys : SpoilEntry(k)
    <2>1. UNCHANGED <<pc, out, result, code>>
      BY <1>10 DEF SpoilEntry
    <2> QED BY <2>1 DEF OutputInv, NoPartialSpecSet, PaperRan
  <1> QED BY <1>1, <1>2, <1>3, <1>4, <1>5, <1>6, <1>7, <1>8, <1>9, <1>10 DEF Next, Step

RunInv == TypeInv /\ OutcomeInv /\ OutputInv

LEMMA RunHolds == Spec => []RunInv
  <1>1. Init => RunInv
    <2>1. Init => OutcomeInv /\ OutputInv
      BY DEF Init, OutcomeInv, OutputInv, PaperRan, NoPartialSpecSet, Questioning
    <2> QED BY <2>1, InitTyped DEF RunInv
  <1>2. RunInv /\ Next => RunInv'
    BY TypeStep, OutcomeStep, OutputStep DEF RunInv
  <1>3. RunInv /\ UNCHANGED vars => RunInv'
    BY Stutter DEF vars, RunInv, OutcomeInv, OutputInv, PaperRan, NoPartialSpecSet,
                   Accounted, Strategies, Enumerating
  <1> QED BY <1>1, <1>2, <1>3, PTL DEF Spec

\* Once a paper has run, every construction of its enumeration has exactly one
\* outcome, a spec or an event, and the output directory shows this run's and
\* nothing of an earlier invocation's (emission.py, run_librarian.py 893-975).
THEOREM OneOutcomeEach == Spec => []OneOutcomePerConstruction
  <1>1. RunInv => OneOutcomePerConstruction
    BY DEF RunInv, OutcomeInv, OutputInv, OneOutcomePerConstruction
  <1> QED BY <1>1, RunHolds, PTL

\* Where there is a manifest, the specs beside it are the whole spec set of its
\* run, and there are none after a failure: no sequence of deaths, retries and
\* invocations leaves a part of a set behind one (run_librarian.py 866-877).
THEOREM SpecSetIsWhole == Spec => []NoPartialSpecSet
  <1>1. RunInv => NoPartialSpecSet
    BY DEF RunInv, OutputInv
  <1> QED BY <1>1, RunHolds, PTL


-----------------------------------------------------------------------------
(* A cached run after a completed one calls nobody and ends alike.          *)

\* What a disk cache makes of a construction: the prompts do not name it.
AnswerIn(d, c, f) == AnswerFrom(d[<<c, f>>])
SignalIn(d, f) == FillSignalRef(AnswerIn(d, "model_a", f), AnswerIn(d, "model_b", f))
UnassembledIn(d) == SignalIn(d, SortSignal) = NONE
ControlIn(d) == "control_axis" \in FieldSet /\ SignalIn(d, "control_axis") # NONE
SortKindIn(d) ==
    IF "sort_kind" \in FieldSet
    THEN FillField(AnswerIn(d, "model_a", "sort_kind"),
                   AnswerIn(d, "model_b", "sort_kind")).value
    ELSE NONE
RefusedIn(d) ==
    \/ SortKindIn(d) \in {"independent", "conditional"} /\ ~ControlIn(d)
    \/ SortKindIn(d) = "single" /\ ControlIn(d)
KindIn(d) == IF UnassembledIn(d) THEN "assembly_incomplete"
             ELSE IF RefusedIn(d) THEN "emission_error" ELSE "spec"

\* The outcomes of the first n constructions of a list, all of one kind.
OutcomeIn(d, s, n) ==
    IF n = 0 THEN NoResult
    ELSE IF KindIn(d) = "spec"
    THEN [specs |-> [i \in 1 .. n |-> s[i]], events |-> <<>>]
    ELSE [specs |-> <<>>,
          events |-> [i \in 1 .. n |-> [kind |-> KindIn(d), name |-> s[i]]]]

\* The cache answers what a construction asks: every field, or those up to the
\* signal without which nothing is assembled.
Answered(d, f) == \A c \in Clients : Readable(d[<<c, f>>])
Before(i) == \A j \in 1 .. i - 1 : Fields[j] # SortSignal
Settled(d) ==
    /\ Answered(d, SortSignal)
    /\ \A i \in DOMAIN Fields : Before(i) \/ ~UnassembledIn(d) => Answered(d, Fields[i])

\* The enumeration is the cached one, or the authored one.
ListIn(d, live, list, m) ==
    IF live THEN Readable(d[<<m, ENUM>>]) /\ list = d[<<m, ENUM>>] ELSE list = GoldList

Unspoiled == \A k \in Keys : disk[k] # CORRUPT
Replaying == opts.cache /\ Unspoiled /\ pc # "idle"
Listed(m) == ListIn(disk, opts.live, lists[m], m)
InMind(c, i) == mem[<<c, Label, Fields[i]>>] # ABSENT
Done == Len(Strategies) - Len(work.todo)

\* The lists of an invocation are those that the disk holds.
ListInv ==
    /\ Enumerating /\ pc \in Questioning =>
           opts.live /\ (work.client = "model_b" => Listed("model_a"))
    /\ pc = "answered" /\ Enumerating => Readable(disk[Key]) /\ work.reply = disk[Key]
    /\ pc \in {"enumerated", "write", "manifest"} \/ ~Enumerating =>
           \A m \in Clients : Listed(m)

\* The questions that are behind a construction have been answered.
ConstructionInv ==
    ~Enumerating =>
        /\ \A i \in 1 .. work.field - 1 :
               /\ \A c \in Clients : InMind(c, i)
               /\ Fields[i] = SortSignal => ~UnassembledIn(disk)
        /\ work.client = "model_b" /\ pc \in Questioning => InMind("model_a", work.field)
        /\ pc = "answered" => InMind(work.client, work.field)
        /\ pc \in {"merge", "emit"} =>
               work.client = "model_a" /\ \A c \in Clients : InMind(c, work.field)
        /\ pc = "emit" => work.field = Len(Fields) /\ ~UnassembledIn(disk)

\* The constructions that are behind have the outcome the disk gives them.
ProgressInv ==
    pc \in {"write", "manifest"} \/ ~Enumerating =>
        /\ Done \in Nat
        /\ \A i \in 1 .. Len(work.todo) : work.todo[i] = Strategies[Done + i]
        /\ Done > 0 => Settled(disk)
        /\ result = OutcomeIn(disk, Strategies, Done)

ResumeInv == Replaying => ListInv /\ ConstructionInv /\ ProgressInv

\* The latest completed run is what the disk makes of the paper, and a run after
\* it has called nobody.
LastInv ==
    last # NONE =>
        /\ Unspoiled
        /\ last.lists \in [Clients -> Lists]
        /\ \A m \in Clients : ListIn(disk, last.live, last.lists[m], m)
        /\ LET s == StrategiesOf(last.lists["model_a"])
           IN /\ Len(s) > 0 => Settled(disk)
              /\ last.result = OutcomeIn(disk, s, Len(s))
FreeInv ==
    last # NONE /\ pc # "idle" /\ opts.cache /\ last.live = opts.live =>
        pc \notin {"call", "put"} /\ usage = NoUsage

-----------------------------------------------------------------------------

Grows(d, e) == \A k \in Keys : d[k] # ABSENT => e[k] = d[k]

LEMMA SortKey ==
    /\ SortSignal \in FieldSet
    /\ \A c \in Clients, f \in FieldSet \cup {ENUM} : <<c, f>> \in Keys
  BY BoundAssumption DEF Keys

LEMMA FieldIndex == \A f \in FieldSet : \E i \in DOMAIN Fields : Fields[i] = f
  BY DEF FieldSet

LEMMA FieldKeys == \A i \in DOMAIN Fields : Fields[i] \in FieldSet
  BY DEF FieldSet

\* What is answered stays as it is.
LEMMA StaysAnswered ==
    ASSUME NEW d, NEW e, Grows(d, e), NEW f \in FieldSet, Answered(d, f)
    PROVE  Answered(e, f) /\ \A c \in Clients : AnswerIn(e, c, f) = AnswerIn(d, c, f)
  <1>1. \A c \in Clients : e[<<c, f>>] = d[<<c, f>>]
    BY SortKey DEF Grows, Answered, Readable
  <1> QED BY <1>1 DEF Answered, AnswerIn, Readable

LEMMA StaysAssembled ==
    ASSUME NEW d, NEW e, Grows(d, e), Answered(d, SortSignal)
    PROVE  UnassembledIn(e) <=> UnassembledIn(d)
  BY StaysAnswered, SortKey DEF UnassembledIn, SignalIn, Clients

LEMMA StaysSettled ==
    ASSUME NEW d, NEW e, Grows(d, e), Settled(d)
    PROVE  Settled(e) /\ KindIn(e) = KindIn(d)
  <1>1. UnassembledIn(e) <=> UnassembledIn(d)
    BY StaysAssembled DEF Settled
  <1>2. Settled(e)
    <2>1. Answered(e, SortSignal)
      BY StaysAnswered, SortKey DEF Settled
    <2>2. ASSUME NEW i \in DOMAIN Fields, Before(i) \/ ~UnassembledIn(e)
          PROVE  Answered(e, Fields[i])
      BY <1>1, <2>2, StaysAnswered, FieldKeys DEF Settled
    <2> QED BY <2>1, <2>2 DEF Settled
  <1>3. KindIn(e) = KindIn(d)
    <2>1. CASE UnassembledIn(d)
      BY <1>1, <2>1 DEF KindIn
    <2>2. CASE ~UnassembledIn(d)
      <3>1. ASSUME NEW f \in FieldSet
            PROVE  \A c \in Clients : AnswerIn(e, c, f) = AnswerIn(d, c, f)
        <4>1. Answered(d, f)
          BY <2>2, FieldIndex DEF Settled
        <4> QED BY <4>1, StaysAnswered
      <3>2. ControlIn(e) <=> ControlIn(d)
        BY <3>1 DEF ControlIn, SignalIn, Clients
      <3>3. SortKindIn(e) = SortKindIn(d)
        BY <3>1 DEF SortKindIn, Clients
      <3> QED BY <1>1, <2>2, <3>2, <3>3 DEF KindIn, RefusedIn
    <2> QED BY <2>1, <2>2
  <1> QED BY <1>2, <1>3

LEMMA StaysListed ==
    ASSUME NEW d, NEW e, Grows(d, e), NEW live, NEW list, NEW m \in Clients,
           ListIn(d, live, list, m)
    PROVE  ListIn(e, live, list, m)
  BY SortKey DEF ListIn, Grows, Readable

\* One more construction has one more outcome, of the same kind.
LEMMA NextOutcome ==
    ASSUME NEW d, NEW s \in Seq(Names), NEW n \in Nat, n + 1 <= Len(s)
    PROVE  /\ KindIn(d) = "spec" =>
                  OutcomeIn(d, s, n + 1) =
                      [specs |-> Append(OutcomeIn(d, s, n).specs, s[n + 1]),
                       events |-> OutcomeIn(d, s, n).events]
           /\ KindIn(d) # "spec" =>
                  OutcomeIn(d, s, n + 1) =
                      [specs |-> OutcomeIn(d, s, n).specs,
                       events |-> Append(OutcomeIn(d, s, n).events,
                                         [kind |-> KindIn(d), name |-> s[n + 1]])]
  <1> DEFINE K == KindIn(d)
             r == OutcomeIn(d, s, n)
             t == OutcomeIn(d, s, n + 1)
  <1>1. CASE K = "spec"
    <2> DEFINE xs(m) == [i \in 1 .. m |-> s[i]]
    <2>1. xs(n + 1) = Append(xs(n), s[n + 1])
      OBVIOUS
    <2>2. n = 0 => xs(n) = <<>>
      OBVIOUS
    <2>3. r = [specs |-> xs(n), events |-> <<>>]
      BY <1>1, <2>2 DEF OutcomeIn, NoResult
    <2>4. t = [specs |-> xs(n + 1), events |-> <<>>]
      BY <1>1 DEF OutcomeIn
    <2> HIDE DEF xs, r, t, K
    <2>5. t = [specs |-> Append(r.specs, s[n + 1]), events |-> r.events]
      BY <2>1, <2>3, <2>4
    <2> QED BY <1>1, <2>5 DEF r, t, K
  <1>2. CASE K # "spec"
    <2> DEFINE e(i) == [kind |-> K, name |-> s[i]]
               xs(m) == [i \in 1 .. m |-> e(i)]
    <2> HIDE DEF e
    <2>1. xs(n + 1) = Append(xs(n), e(n + 1))
      OBVIOUS
    <2>2. n = 0 => xs(n) = <<>>
      OBVIOUS
    <2>3. r = [specs |-> <<>>, events |-> xs(n)]
      BY <1>2, <2>2 DEF OutcomeIn, NoResult, e
    <2>4. t = [specs |-> <<>>, events |-> xs(n + 1)]
      BY <1>2 DEF OutcomeIn, e
    <2> HIDE DEF xs, r, t, K
    <2>5. t = [specs |-> r.specs, events |-> Append(r.events, e(n + 1))]
      BY <2>1, <2>3, <2>4
    <2> QED BY <1>2, <2>5 DEF r, t, K, e
  <1> QED BY <1>1, <1>2

-----------------------------------------------------------------------------

\* What a cached run remembers is what its unspoiled cache answers.
LEMMA MindIsDisk ==
    ASSUME TypeInv, ReplayInv, Replaying, ~Enumerating
    PROVE  /\ \A c \in Clients, i \in DOMAIN Fields :
                  InMind(c, i) => Readable(disk[<<c, Fields[i]>>])
           /\ \A f \in FieldSet :
                  (\A c \in Clients : mem[<<c, Label, f>>] # ABSENT) =>
                      /\ Answered(disk, f)
                      /\ \A c \in Clients : AnswerOf(c, f) = AnswerIn(disk, c, f)
  <1>1. ASSUME NEW c \in Clients, NEW f \in FieldSet, mem[<<c, Label, f>>] # ABSENT
        PROVE  disk[<<c, f>>] = mem[<<c, Label, f>>] /\ Readable(disk[<<c, f>>])
    <2> DEFINE x == <<c, Label, f>>
    <2>1. x \in DOMAIN mem /\ x[1] = c /\ x[3] = f
      BY Question DEF TypeInv
    <2>2. disk[<<x[1], x[3]>>] \in {mem[x], CORRUPT}
      BY <1>1, <2>1 DEF ReplayInv, ReplaysAgree, Replaying
    <2>3. disk[<<c, f>>] # CORRUPT
      BY SortKey DEF Replaying, Unspoiled
    <2> QED BY <1>1, <2>1, <2>2, <2>3 DEF Readable
  <1>2. \A c \in Clients, i \in DOMAIN Fields :
            InMind(c, i) => Readable(disk[<<c, Fields[i]>>])
    BY <1>1, FieldKeys DEF InMind
  <1>3. ASSUME NEW f \in FieldSet, \A c \in Clients : mem[<<c, Label, f>>] # ABSENT
        PROVE  Answered(disk, f) /\ \A c \in Clients : AnswerOf(c, f) = AnswerIn(disk, c, f)
    BY <1>1, <1>3 DEF Answered, AnswerOf, AnswerIn
  <1> QED BY <1>2, <1>3

\* Only an entry that is absent is written, unless one is spoiled.
LEMMA DiskStep ==
    ASSUME TypeInv, Next
    PROVE  \/ Grows(disk, disk') /\ (Unspoiled' <=> Unspoiled)
           \/ last' = NONE /\ ~Unspoiled'
  <1> USE DEF cacheVars, faultVars
  <1>1. CASE DiskPut
    <2>1. Key \in Keys /\ work.reply # CORRUPT /\ DOMAIN disk = Keys
      BY <1>1, Question DEF DiskPut, TypeInv
    <2>2. disk' = disk \/ (disk[Key] = ABSENT /\ disk' = [disk EXCEPT ![Key] = work.reply])
      BY <1>1 DEF DiskPut
    <2> HIDE DEF Key
    <2>3. Grows(disk, disk')
      BY <2>1, <2>2 DEF Grows
    <2>4. \A k \in Keys : disk'[k] = CORRUPT <=> disk[k] = CORRUPT
      BY <2>1, <2>2, ReplyAssumption
    <2> QED BY <2>3, <2>4 DEF Unspoiled
  <1>2. CASE \E k \in Keys : SpoilEntry(k)
    BY <1>2 DEF SpoilEntry, TypeInv, Unspoiled
  <1>3. CASE UNCHANGED disk
    BY <1>3 DEF Grows, Unspoiled
  <1> QED BY <1>1, <1>2, <1>3 DEF Next, Step, Ask, VendorAnswers, Archive, NextClient,
          VendorFails, Enumerated, Merge, Emit, WriteSpec, WriteEvents, Complete,
          EarlyExit, Start, Begin, Crash

\* The question steps keep the lists, the outcomes and the place they are at.
AnswerStep == Ask \/ VendorAnswers \/ DiskPut \/ Archive
              \/ \E retryable \in BOOLEAN : VendorFails(retryable)

LEMMA AnswerFrame ==
    ASSUME TypeInv, AnswerStep
    PROVE  /\ pc \in Questioning /\ pc' \in Questioning \cup {"early"}
           /\ UNCHANGED <<lists, result, opts>>
           /\ work'.todo = work.todo /\ work'.field = work.field
           /\ work'.client = work.client
           /\ Enumerating' = Enumerating /\ Label' = Label /\ Key' = Key
           /\ Strategies' = Strategies /\ Done' = Done
  <1> USE DEF cacheVars, faultVars
  <1>1. work \in WorkType
    BY DEF TypeInv, WorkType
  <1>2. /\ pc \in Questioning /\ pc' \in Questioning \cup {"early"}
        /\ UNCHANGED <<lists, result, opts>>
    BY DEF AnswerStep, Ask, VendorAnswers, DiskPut, Archive, VendorFails, Questioning
  <1>3. /\ work'.todo = work.todo /\ work'.field = work.field
        /\ work'.client = work.client
    BY <1>1 DEF AnswerStep, Ask, VendorAnswers, DiskPut, Archive, VendorFails, WorkType
  <1> QED BY <1>2, <1>3 DEF Enumerating, Label, Key, Field, Strategies, Done

\* A construction that is left makes way for the next, from its first field.
LEMMA Left ==
    ASSUME TypeInv, pc \in {"merge", "emit"}, LeaveConstruction
    PROVE  /\ work'.todo = Tail(work.todo) /\ work'.field = 1 /\ work'.client = "model_a"
           /\ pc' \in {"ask", "write"} /\ (pc' = "ask" => ~Enumerating')
           /\ work.todo \in Seq(Names) /\ Label = Head(work.todo)
           /\ Len(work.todo) \in Nat /\ Tail(work.todo) \in Seq(Names)
           /\ Len(work.todo) = Len(Tail(work.todo)) + 1
  <1> DEFINE t == work.todo
  <1>1. t \in Seq(Names) /\ t # <<>>
    BY DEF TypeInv, Enumerating
  <1>2. Tail(t) \in Seq(Names) /\ Len(t) = Len(Tail(t)) + 1
    BY <1>1, Popped
  <1>3. work' = [NoWork EXCEPT !.todo = Tail(t)]
    BY DEF LeaveConstruction
  <1>4. work'.todo = Tail(t) /\ work'.field = 1 /\ work'.client = "model_a"
    BY <1>3 DEF NoWork
  <1>5. pc' = "ask" => ~Enumerating'
    <2>1. pc' = "ask" => Len(t) # 1
      BY DEF LeaveConstruction
    <2> HIDE DEF t
    <2>2. Tail(t) = <<>> => Len(Tail(t)) = 0
      BY Nothing
    <2>3. Tail(t) = <<>> => Len(t) = 1
      BY <1>2, <2>2
    <2> QED BY <1>4, <2>1, <2>3 DEF Enumerating
  <1> QED BY <1>1, <1>2, <1>4, <1>5 DEF LeaveConstruction, Label

\* An invocation goes on, or is a new one.
LEMMA Resumed ==
    ASSUME TypeInv, Next, Replaying'
    PROVE  \/ \E o \in Options : Start(o.live, o.cache)
           \/ /\ Replaying /\ Grows(disk, disk') /\ UNCHANGED opts
              /\ AnswerStep \/ NextClient \/ Enumerated \/ Merge \/ Emit \/ WriteSpec \/ WriteEvents
  <1> USE DEF cacheVars, faultVars
  <1>1. Grows(disk, disk') /\ Unspoiled
    BY DiskStep DEF Replaying
  <1>2. pc' # "idle" /\ Unspoiled' /\ opts'.cache
    BY DEF Replaying
  <1>3. CASE AnswerStep \/ NextClient \/ Enumerated \/ Merge \/ Emit \/ WriteSpec \/ WriteEvents
    <2>1. UNCHANGED opts /\ pc # "idle"
      BY <1>3 DEF AnswerStep, Ask, VendorAnswers, DiskPut, Archive, VendorFails, NextClient,
                  Enumerated, Merge, Emit, WriteSpec, WriteEvents
    <2> QED BY <1>1, <1>2, <1>3, <2>1 DEF Replaying
  <1>4. ~Complete /\ ~EarlyExit /\ ~Crash
    BY <1>2 DEF Complete, EarlyExit, Crash
  <1>5. ~\E k \in Keys : SpoilEntry(k)
    BY <1>2 DEF SpoilEntry, TypeInv, Unspoiled
  <1> QED BY <1>3, <1>4, <1>5 DEF Next, Step, AnswerStep

\* A new invocation has asked nothing.
LEMMA ResumeStart ==
    ASSUME NEW live, NEW cache, Start(live, cache)
    PROVE  (ListInv /\ ConstructionInv /\ ProgressInv)'
  <1>1. /\ Enumerating' /\ work'.client = "model_a" /\ opts'.live = live
        /\ pc' = IF live THEN "ask" ELSE "enumerated"
        /\ lists' = [m \in Clients |-> IF live THEN <<>> ELSE GoldList]
    BY NoWorkTyped DEF Start, Begin, Enumerating, NoWork
  <1>2. ListInv'
    BY <1>1 DEF ListInv, Listed, ListIn, Questioning
  <1> QED BY <1>1, <1>2 DEF ConstructionInv, ProgressInv

LEMMA ListStep ==
    ASSUME TypeInv, ReplayInv, Replaying, ListInv, Grows(disk, disk'), UNCHANGED opts, Replaying',
           AnswerStep \/ NextClient \/ Enumerated \/ Merge \/ Emit \/ WriteSpec \/ WriteEvents
    PROVE  ListInv'
  <1> USE DEF cacheVars, faultVars
  <1>a. work \in WorkType /\ DOMAIN lists = Clients /\ Key \in Keys
    BY Question DEF TypeInv, WorkType
  <1>b. ASSUME NEW m \in Clients, Listed(m), lists'[m] = lists[m]
        PROVE  Listed(m)'
    BY <1>b, StaysListed DEF Listed
  <1>1. CASE AnswerStep
    <2>1. UNCHANGED lists /\ pc \in Questioning /\ pc' \in Questioning \cup {"early"}
          /\ work'.client = work.client /\ Enumerating' = Enumerating /\ Key' = Key
      BY <1>1, AnswerFrame
    <2>2. \A m \in Clients : Listed(m) => Listed(m)'
      BY <1>b, <2>1
    <2>3. pc' = "answered" /\ Enumerating => Readable(disk'[Key]) /\ work'.reply = disk'[Key]
      <3> SUFFICES ASSUME pc' = "answered", Enumerating
                   PROVE  Readable(disk'[Key]) /\ work'.reply = disk'[Key]
        OBVIOUS
      <3>1. ~Ask
        BY DEF Ask, Remembered
      <3>2. Archive
        BY <1>1, <3>1 DEF AnswerStep, VendorAnswers, DiskPut, VendorFails
      <3>3. /\ pc = "archive" /\ UNCHANGED <<disk, work>>
            /\ disk[Key] \in {work.reply, CORRUPT}
        BY <3>2 DEF Archive, ReplayInv, Replaying
      <3>4. work.reply \notin {ABSENT, CORRUPT}
        BY <3>3, Question DEF TypeInv
      <3>5. disk[Key] # CORRUPT
        BY <1>a DEF Replaying, Unspoiled
      <3> QED BY <3>3, <3>4, <3>5 DEF Readable
    <2> HIDE DEF Key
    <2>4. Enumerating' /\ pc' \in Questioning =>
              opts'.live /\ (work'.client = "model_b" => Listed("model_a")')
      BY <2>1, <2>2 DEF ListInv, Clients
    <2>5. ~Enumerating' => \A m \in Clients : Listed(m)'
      BY <2>1, <2>2 DEF ListInv
    <2> QED BY <2>1, <2>3, <2>4, <2>5 DEF ListInv, Questioning
  <1>2. CASE NextClient
    <2>1. /\ pc = "answered" /\ pc' \in {"ask", "enumerated", "merge"}
          /\ work'.todo = work.todo /\ Enumerating' = Enumerating /\ UNCHANGED disk
      BY <1>2, <1>a DEF NextClient, WorkType, Enumerating
    <2>2. CASE ~Enumerating
      <3>1. UNCHANGED lists
        BY <1>2, <2>2 DEF NextClient
      <3>2. \A m \in Clients : Listed(m)'
        BY <1>b, <2>2, <3>1 DEF ListInv
      <3> QED BY <2>1, <2>2, <3>2 DEF ListInv
    <2>3. CASE Enumerating
      <3>1. /\ opts.live /\ Key = <<work.client, ENUM>> /\ Readable(disk[Key])
            /\ work.reply = disk[Key] /\ (work.client = "model_b" => Listed("model_a"))
        BY <2>1, <2>3 DEF ListInv, Questioning, Key, Field
      <3>2. lists' = [lists EXCEPT ![work.client] = work.reply] /\ work.client \in Clients
        BY <1>2, <1>a, <2>3 DEF NextClient, WorkType
      <3>3. lists'[work.client] = disk[<<work.client, ENUM>>]
        BY <1>a, <3>1, <3>2
      <3>4. ASSUME NEW m \in Clients, m = work.client
            PROVE  Listed(m)'
        BY <2>1, <3>1, <3>3, <3>4 DEF Listed, ListIn
      <3>5. CASE work.client = "model_a"
        <4>1. pc' = "ask"
          BY <1>2, <3>5 DEF NextClient
        <4>2. Listed("model_a")'
          BY <3>4, <3>5 DEF Clients
        <4> QED BY <2>1, <2>3, <3>1, <4>1, <4>2 DEF ListInv
      <3>6. CASE work.client = "model_b"
        <4>1. pc' = "enumerated"
          BY <1>2, <2>3, <3>6 DEF NextClient
        <4>2. lists'["model_a"] = lists["model_a"]
          BY <3>2, <3>6, <1>a DEF Clients
        <4>3. Listed("model_a")'
          BY <1>b, <3>1, <3>6, <4>2 DEF Clients
        <4> QED BY <3>4, <3>6, <4>1, <4>3 DEF ListInv, Clients, Questioning
      <3> QED BY <3>2, <3>5, <3>6 DEF Clients
    <2> QED BY <2>2, <2>3
  <1>3. CASE Enumerated \/ Merge \/ Emit \/ WriteSpec \/ WriteEvents
    <2>1. \A m \in Clients : Listed(m)
      BY <1>3 DEF Enumerated, Merge, Emit, WriteSpec, WriteEvents, TypeInv, ListInv
    <2>2. UNCHANGED lists
      BY <1>3 DEF Enumerated, Merge, Emit, WriteSpec, WriteEvents
    <2>3. \A m \in Clients : Listed(m)'
      BY <1>b, <2>1, <2>2
    <2>4. pc' \in Questioning => pc' = "ask" /\ ~Enumerating'
      <3>1. CASE Enumerated
        <4>1. lists["model_a"] \in Lists
          BY DEF TypeInv, Clients
        <4>2. Strategies \in Seq(Names)
          BY <4>1, ReplyAssumption DEF Strategies, Lists
        <4>3. pc' \in {"idle", "early", "write"} \/
                  (pc' = "ask" /\ Strategies # <<>> /\ work' = [NoWork EXCEPT !.todo = Strategies])
          BY <3>1 DEF Enumerated, Strategies
        <4> QED BY <4>2, <4>3, NoWorkTyped DEF Enumerating, Questioning
      <3>2. CASE Merge
        <4>1. CASE LeaveConstruction
          BY <3>2, <4>1, Left DEF Merge, Questioning
        <4>2. CASE pc' \in {"idle", "emit", "ask"} /\ work' \in {work, [work EXCEPT !.field = @ + 1]}
          <5>1. work'.todo = work.todo /\ ~Enumerating
            BY <3>2, <1>a, <4>2 DEF WorkType, Merge, TypeInv
          <5> QED BY <4>2, <5>1 DEF Questioning, Enumerating
        <4> QED BY <3>2, <4>1, <4>2 DEF Merge
      <3>3. CASE Emit
        BY <3>3, Left DEF Emit, Questioning
      <3>4. CASE WriteSpec \/ WriteEvents
        BY <3>4 DEF WriteSpec, WriteEvents, Questioning
      <3> QED BY <1>3, <3>1, <3>2, <3>3, <3>4
    <2> QED BY <2>3, <2>4 DEF ListInv, Questioning
  <1> QED BY <1>1, <1>2, <1>3


\* The question at hand is answered, and stays so.
LEMMA MindGrows ==
    ASSUME TypeInv, AnswerStep, ~Enumerating
    PROVE  /\ \A c \in Clients, i \in DOMAIN Fields : InMind(c, i) => InMind(c, i)'
           /\ pc' = "answered" => mem'[MemKey] # ABSENT
  <1> USE DEF cacheVars, faultVars
  <1>1. DOMAIN mem = Clients \X Names \X FieldSet /\ MemKey \in DOMAIN mem /\ Label' = Label
    BY Question, AnswerFrame DEF TypeInv
  <1>2. CASE Archive
    <2>1. work.reply # ABSENT /\ mem' = [mem EXCEPT ![MemKey] = work.reply]
      BY <1>2, Question DEF Archive, TypeInv
    <2> HIDE DEF MemKey
    <2>2. mem'[MemKey] # ABSENT /\ \A x \in DOMAIN mem : mem[x] # ABSENT => mem'[x] # ABSENT
      BY <1>1, <2>1
    <2>3. \A c \in Clients, i \in DOMAIN Fields : <<c, Label, Fields[i]>> \in DOMAIN mem
      BY <1>1, Question, FieldKeys
    <2> QED BY <1>1, <2>2, <2>3 DEF InMind
  <1>3. CASE ~Archive
    <2>1. UNCHANGED mem
      BY <1>3 DEF AnswerStep, Ask, VendorAnswers, DiskPut, VendorFails
    <2>2. pc' = "answered" => mem[MemKey] # ABSENT
      BY <1>3 DEF AnswerStep, Ask, VendorAnswers, DiskPut, VendorFails, Remembered
    <2> HIDE DEF MemKey
    <2> QED BY <1>1, <2>1, <2>2 DEF InMind
  <1> QED BY <1>2, <1>3

LEMMA ConstructionStep ==
    ASSUME TypeInv, ReplayInv, Replaying, ConstructionInv, Grows(disk, disk'), Replaying',
           AnswerStep \/ NextClient \/ Enumerated \/ Merge \/ Emit \/ WriteSpec \/ WriteEvents
    PROVE  ConstructionInv'
  <1> USE DEF cacheVars, faultVars
  <1>a. /\ work \in WorkType /\ DOMAIN Fields = 1 .. Len(Fields) /\ Len(Fields) \in Nat
        /\ work.field \in DOMAIN Fields /\ work.client \in Clients
    BY FirstField DEF TypeInv, WorkType
  <1>1. CASE AnswerStep
    <2> SUFFICES ASSUME ~Enumerating' PROVE ConstructionInv'
      BY DEF ConstructionInv
    <2>1. /\ pc \in Questioning /\ pc' \in Questioning \cup {"early"}
          /\ work'.field = work.field /\ work'.client = work.client
          /\ Label' = Label /\ ~Enumerating
      BY <1>1, AnswerFrame
    <2>2. /\ \A c \in Clients, i \in DOMAIN Fields : InMind(c, i) => InMind(c, i)'
          /\ pc' = "answered" => mem'[MemKey] # ABSENT
      BY <1>1, <2>1, MindGrows
    <2>3. MemKey = <<work.client, Label, Fields[work.field]>>
      BY <2>1 DEF MemKey, Field
    <2>4. \A c \in Clients : c = work.client => (pc' = "answered" => InMind(c, work.field)')
      BY <2>1, <2>2, <2>3 DEF InMind
    <2>5. ASSUME NEW i \in 1 .. work.field - 1
          PROVE  /\ \A c \in Clients : InMind(c, i)'
                 /\ Fields[i] = SortSignal => ~UnassembledIn(disk')
      <3>1. i \in DOMAIN Fields
        BY <1>a
      <3>2. (\A c \in Clients : InMind(c, i)) /\ (Fields[i] = SortSignal => ~UnassembledIn(disk))
        BY <2>1 DEF ConstructionInv
      <3>3. Fields[i] = SortSignal => Answered(disk, SortSignal)
        BY <2>1, <3>1, <3>2, MindIsDisk DEF Answered
      <3> QED BY <2>2, <3>1, <3>2, <3>3, StaysAssembled
    <2>6. work.client = "model_b" => InMind("model_a", work.field)'
      BY <1>a, <2>1, <2>2 DEF ConstructionInv, Clients
    <2>7. pc' \notin {"merge", "emit"}
      BY <2>1 DEF Questioning
    <2>8. pc' = "answered" => InMind(work.client, work.field)'
      BY <1>a, <2>1, <2>4 DEF InMind
    <2> HIDE DEF InMind
    <2> QED BY <2>1, <2>5, <2>6, <2>7, <2>8 DEF ConstructionInv, InMind
  <1>2. CASE NextClient
    <2> SUFFICES ASSUME ~Enumerating' PROVE ConstructionInv'
      BY DEF ConstructionInv
    <2>1. /\ pc = "answered" /\ UNCHANGED <<disk, mem>>
          /\ work'.todo = work.todo /\ work'.field = work.field
          /\ work'.client = IF work.client = "model_a" THEN "model_b" ELSE "model_a"
      BY <1>2, <1>a DEF NextClient, WorkType
    <2>2. ~Enumerating /\ Label' = Label
      BY <2>1 DEF Enumerating, Label
    <2>3. pc' = IF work.client = "model_a" THEN "ask" ELSE "merge"
      BY <1>2, <2>2 DEF NextClient
    <2>4. \A c \in Clients, i \in DOMAIN Fields : InMind(c, i)' = InMind(c, i)
      BY <2>1, <2>2 DEF InMind
    <2>5. InMind(work.client, work.field)
          /\ (work.client = "model_b" => InMind("model_a", work.field))
      BY <2>1, <2>2 DEF ConstructionInv, Questioning
    <2>6. \A i \in 1 .. work.field - 1 :
              /\ \A c \in Clients : InMind(c, i)'
              /\ Fields[i] = SortSignal => ~UnassembledIn(disk')
      <3>1. \A i \in 1 .. work.field - 1 : i \in DOMAIN Fields
        BY <1>a
      <3> QED BY <2>1, <2>2, <2>4, <3>1 DEF ConstructionInv
    <2>7. CASE work.client = "model_a"
      BY <1>a, <2>1, <2>3, <2>4, <2>5, <2>6, <2>7 DEF ConstructionInv, Clients, InMind
    <2>8. CASE work.client = "model_b"
      <3>1. \A c \in Clients : InMind(c, work.field)
        BY <2>5, <2>8 DEF Clients
      <3>2. \A c \in Clients : InMind(c, work.field)'
        BY <1>a, <2>1, <2>2, <3>1 DEF InMind
      <3>3. pc' = "merge" /\ work'.client = "model_a" /\ "merge" \notin Questioning
        BY <2>1, <2>3, <2>8 DEF Questioning
      <3> QED BY <2>1, <2>6, <3>2, <3>3 DEF ConstructionInv
    <2> QED BY <1>a, <2>7, <2>8 DEF Clients
  <1>b. ASSUME work'.field = 1, work'.client = "model_a", pc' = "ask"
        PROVE  ConstructionInv'
    BY <1>b DEF ConstructionInv
  <1>3. CASE Enumerated
    <2>1. CASE UNCHANGED work
      BY <1>3, <2>1 DEF Enumerated, TypeInv, ConstructionInv, Enumerating
    <2>2. CASE /\ work' = [NoWork EXCEPT !.todo = Strategies]
               /\ pc' = IF Strategies = <<>> THEN "write" ELSE "ask"
      <3>1. work'.field = 1 /\ work'.client = "model_a" /\ work'.todo = Strategies
        BY <2>2 DEF NoWork
      <3>2. pc' = "write" => Enumerating'
        BY <2>2, <3>1 DEF Enumerating
      <3> QED BY <1>b, <2>2, <3>1, <3>2 DEF ConstructionInv
    <2> QED BY <1>3, <2>1, <2>2 DEF Enumerated, Strategies
  <1>4. CASE Merge
    <2>a. ~Enumerating /\ pc = "merge" /\ UNCHANGED <<disk, mem>>
      BY <1>4 DEF Merge, TypeInv
    <2>1. CASE LeaveConstruction
      <3>1. work'.field = 1 /\ work'.client = "model_a" /\ pc' \in {"ask", "write"}
        BY <2>a, <2>1, Left
      <3>2. CASE pc' = "write"
        BY <3>1, <3>2 DEF ConstructionInv, Questioning
      <3> QED BY <1>b, <3>1, <3>2
    <2>2. CASE /\ ~(Field = SortSignal /\ SignalOf(Field) = NONE)
               /\ \/ work.field = Len(Fields) /\ pc' = "emit" /\ UNCHANGED work
                  \/ /\ work.field # Len(Fields) /\ pc' = "ask"
                     /\ work' = [work EXCEPT !.field = @ + 1]
      <3>1. Field = Fields[work.field] /\ Field \in FieldSet
        BY <1>a, <2>a, FieldKeys DEF Field
      <3>2. /\ work.client = "model_a"
            /\ \A c \in Clients : InMind(c, work.field)
            /\ \A i \in 1 .. work.field - 1 :
                   /\ \A c \in Clients : InMind(c, i)
                   /\ Fields[i] = SortSignal => ~UnassembledIn(disk)
        BY <2>a DEF ConstructionInv
      <3>3. Fields[work.field] = SortSignal => ~UnassembledIn(disk)
        <4>1. \A c \in Clients : AnswerOf(c, Field) = AnswerIn(disk, c, Field)
          BY <2>a, <3>1, <3>2, MindIsDisk DEF InMind
        <4>2. SignalOf(Field) = SignalIn(disk, Field)
          BY <4>1 DEF SignalOf, SignalIn, Clients
        <4> QED BY <2>2, <3>1, <4>2 DEF UnassembledIn
      <3>4. \A i \in 1 .. work.field :
                   /\ \A c \in Clients : InMind(c, i)
                   /\ Fields[i] = SortSignal => ~UnassembledIn(disk)
        <4>1. \A i \in 1 .. work.field : i \in 1 .. work.field - 1 \/ i = work.field
          BY <1>a
        <4> QED BY <3>2, <3>3, <4>1
      <3>5. work'.todo = work.todo /\ work'.client = work.client
            /\ Label' = Label /\ ~Enumerating'
        BY <1>a, <2>a, <2>2 DEF WorkType, Label, Enumerating
      <3>6. \A c \in Clients, i \in DOMAIN Fields : InMind(c, i)' = InMind(c, i)
        BY <2>a, <3>5 DEF InMind
      <3>7. \A i \in 1 .. work.field :
                   /\ \A c \in Clients : InMind(c, i)'
                   /\ Fields[i] = SortSignal => ~UnassembledIn(disk')
        <4>1. \A i \in 1 .. work.field : i \in DOMAIN Fields
          BY <1>a
        <4> QED BY <2>a, <3>4, <3>6, <4>1
      <3>8. CASE work.field = Len(Fields) /\ pc' = "emit" /\ UNCHANGED work
        <4>1. ~UnassembledIn(disk')
          <5>1. PICK i \in DOMAIN Fields : Fields[i] = SortSignal
            BY SortKey, FieldIndex
          <5> QED BY <1>a, <3>7, <3>8, <5>1
        <4>2. \A i \in 1 .. work.field - 1 : i \in 1 .. work.field
          BY <1>a
        <4>3. work.field \in 1 .. work.field
          BY <1>a
        <4>4. \A c \in Clients : InMind(c, work.field)'
          BY <2>a, <3>4, <3>5, <3>8, <4>3 DEF InMind
        <4> QED BY <3>2, <3>5, <3>7, <3>8, <4>1, <4>2, <4>4 DEF ConstructionInv, Questioning
      <3>9. CASE /\ work.field # Len(Fields) /\ pc' = "ask"
                 /\ work' = [work EXCEPT !.field = @ + 1]
        <4>1. work'.field = work.field + 1
          BY <1>a, <3>9 DEF WorkType
        <4>2. \A i \in 1 .. work'.field - 1 : i \in 1 .. work.field
          BY <1>a, <4>1
        <4> QED BY <3>2, <3>5, <3>7, <3>9, <4>2 DEF ConstructionInv
      <3> QED BY <2>2, <3>8, <3>9
    <2>3. pc' # "idle"
      BY DEF Replaying
    <2> QED BY <1>4, <2>1, <2>2, <2>3 DEF Merge
  <1>5. CASE Emit
    <2>1. work'.field = 1 /\ work'.client = "model_a" /\ pc' \in {"ask", "write"}
      BY <1>5, Left DEF Emit
    <2>2. CASE pc' = "write"
      BY <2>1, <2>2 DEF ConstructionInv, Questioning
    <2> QED BY <1>b, <2>1, <2>2
  <1>6. CASE WriteSpec \/ WriteEvents
    <2>1. Enumerating'
      BY <1>6 DEF WriteSpec, WriteEvents, TypeInv, Enumerating
    <2> QED BY <2>1 DEF ConstructionInv
  <1> QED BY <1>1, <1>2, <1>3, <1>4, <1>5, <1>6


\* The construction at hand gets the outcome that the disk gives it.
LEMMA OneMore ==
    ASSUME TypeInv, ProgressInv, ~Enumerating, pc \in {"merge", "emit"}, LeaveConstruction,
           UNCHANGED <<disk, lists>>, Settled(disk),
           IF KindIn(disk) = "spec"
           THEN result' = [result EXCEPT !.specs = Append(@, Label)]
           ELSE result' = [result EXCEPT !.events = Append(@, Event(KindIn(disk)))]
    PROVE  ProgressInv'
  <1> DEFINE t == work.todo
             n == Done
             s == Strategies
  <1>1. /\ work'.todo = Tail(t) /\ t \in Seq(Names) /\ Label = Head(t)
        /\ Len(t) \in Nat /\ Tail(t) \in Seq(Names) /\ Len(t) = Len(Tail(t)) + 1
    BY Left
  <1>2. /\ n \in Nat /\ \A i \in 1 .. Len(t) : t[i] = s[n + i]
        /\ result = OutcomeIn(disk, s, n) /\ n = Len(s) - Len(t)
    BY DEF ProgressInv, Done
  <1>3. s \in Seq(Names) /\ s' = s /\ result \in Results /\ Len(s) \in Nat
    <2>1. lists["model_a"] \in Lists /\ result \in Results
      BY DEF TypeInv, Clients
    <2>2. s \in Seq(Names)
      BY <2>1, ReplyAssumption DEF Strategies, Lists
    <2> QED BY <2>1, <2>2 DEF Strategies
  <1> HIDE DEF s, t, n
  <1>4. Done' = n + 1 /\ n + 1 <= Len(s)
    <2>1. Done' = Len(s) - Len(Tail(t))
      BY <1>1, <1>3 DEF Done, s
    <2>2. Len(Tail(t)) \in Nat
      BY <1>1
    <2> QED BY <1>1, <1>2, <1>3, <2>1, <2>2
  <1>5. Label = s[n + 1]
    <2>1. 1 \in 1 .. Len(t) /\ Label = t[1]
      BY <1>1
    <2> QED BY <1>2, <2>1
  <1>6. result' = OutcomeIn(disk, s, n + 1)
    <2>1. CASE KindIn(disk) = "spec"
      <3>1. result' = [specs |-> Append(result.specs, s[n + 1]), events |-> result.events]
        BY <1>3, <1>5, <2>1 DEF Results
      <3> DEFINE r == OutcomeIn(disk, s, n)
      <3>2. OutcomeIn(disk, s, n + 1) =
                [specs |-> Append(r.specs, s[n + 1]), events |-> r.events]
        <4>1. n \in Nat /\ n + 1 <= Len(s) /\ s \in Seq(Names)
          BY <1>2, <1>3, <1>4
        <4> QED BY ONLY <2>1, <4>1, NextOutcome, Zenon
      <3> QED BY <1>2, <3>1, <3>2, Zenon
    <2>2. CASE KindIn(disk) # "spec"
      <3>1. result' = [specs |-> result.specs,
                       events |-> Append(result.events, [kind |-> KindIn(disk), name |-> s[n + 1]])]
        BY <1>3, <1>5, <2>2 DEF Results, Event
      <3> DEFINE r == OutcomeIn(disk, s, n)
      <3>2. OutcomeIn(disk, s, n + 1) =
                [specs |-> r.specs,
                 events |-> Append(r.events, [kind |-> KindIn(disk), name |-> s[n + 1]])]
        <4>1. n \in Nat /\ n + 1 <= Len(s) /\ s \in Seq(Names)
          BY <1>2, <1>3, <1>4
        <4> QED BY ONLY <2>2, <4>1, NextOutcome, Zenon
      <3> QED BY <1>2, <3>1, <3>2, Zenon
    <2> QED BY <2>1, <2>2
  <1>7. \A i \in 1 .. Len(work'.todo) : work'.todo[i] = s[(n + 1) + i]
    <2> SUFFICES ASSUME NEW i \in 1 .. Len(Tail(t)) PROVE Tail(t)[i] = s[(n + 1) + i]
      BY <1>1
    <2>1. Tail(t)[i] = t[i + 1] /\ i + 1 \in 1 .. Len(t)
      BY <1>1
    <2>2. t[i + 1] = s[n + (i + 1)] /\ n + (i + 1) = (n + 1) + i
      BY <1>2, <2>1
    <2> QED BY <2>1, <2>2
  <1> DEFINE d == disk'
  <1>8. Settled(d) /\ result' = OutcomeIn(d, s, n + 1)
    BY <1>6
  <1> HIDE DEF d
  <1>9. s' = s /\ n + 1 \in Nat
    BY <1>2, <1>3
  <1> QED BY <1>4, <1>7, <1>8, <1>9 DEF ProgressInv, s, d

LEMMA ProgressStep ==
    ASSUME TypeInv, ReplayInv, OutcomeInv, Replaying, ConstructionInv, ProgressInv,
           Grows(disk, disk'), Replaying',
           AnswerStep \/ NextClient \/ Enumerated \/ Merge \/ Emit \/ WriteSpec \/ WriteEvents
    PROVE  ProgressInv'
  <1> USE DEF cacheVars, faultVars
  <1>a. /\ work \in WorkType /\ work.field \in DOMAIN Fields /\ Len(Fields) \in Nat
        /\ DOMAIN Fields = 1 .. Len(Fields)
    BY FirstField DEF TypeInv, WorkType
  <1>b. ASSUME pc \in {"write", "manifest"} \/ ~Enumerating, work'.todo = work.todo,
               UNCHANGED <<lists, result>>
        PROVE  ProgressInv'
    <2>1. Strategies' = Strategies /\ Done' = Done
      BY <1>b DEF Strategies, Done
    <2>2. /\ Done \in Nat
          /\ \A i \in 1 .. Len(work.todo) : work.todo[i] = Strategies[Done + i]
          /\ Done > 0 => Settled(disk)
          /\ result = OutcomeIn(disk, Strategies, Done)
      BY <1>b DEF ProgressInv
    <2> HIDE DEF Done, Strategies
    <2>3. /\ Done > 0 => Settled(disk')
          /\ result = OutcomeIn(disk', Strategies, Done)
      <3>1. CASE Done = 0
        BY <2>2, <3>1 DEF OutcomeIn
      <3>2. CASE Done > 0
        BY <2>2, <3>2, StaysSettled DEF OutcomeIn
      <3> QED BY <2>2, <3>1, <3>2
    <2> QED BY <1>b, <2>1, <2>2, <2>3 DEF ProgressInv
  <1>1. CASE AnswerStep
    <2>1. /\ pc' \in Questioning \cup {"early"} /\ UNCHANGED <<lists, result>>
          /\ work'.todo = work.todo /\ Enumerating' = Enumerating
      BY <1>1, AnswerFrame
    <2>2. CASE Enumerating
      BY <2>1, <2>2 DEF ProgressInv, Questioning
    <2> QED BY <1>b, <2>1, <2>2
  <1>2. CASE NextClient
    <2>1. work'.todo = work.todo /\ UNCHANGED result /\ pc' \in {"ask", "enumerated", "merge"}
      BY <1>2, <1>a DEF NextClient, WorkType
    <2>2. CASE Enumerating
      <3>1. Enumerating'
        BY <2>1, <2>2 DEF Enumerating
      <3> QED BY <2>1, <3>1 DEF ProgressInv
    <2>3. CASE ~Enumerating
      <3>1. UNCHANGED lists
        BY <1>2, <2>3 DEF NextClient
      <3> QED BY <1>b, <2>1, <2>3, <3>1
    <2> QED BY <2>2, <2>3
  <1>3. CASE Enumerated
    <2>1. /\ result = NoResult /\ UNCHANGED <<result, lists>> /\ Enumerating
      BY <1>3 DEF Enumerated, OutcomeInv, TypeInv
    <2>2. CASE UNCHANGED work /\ pc' \in {"idle", "early"}
      <3>1. Enumerating'
        BY <2>1, <2>2 DEF Enumerating
      <3> QED BY <2>2, <3>1 DEF ProgressInv
    <2>3. CASE work' = [NoWork EXCEPT !.todo = Strategies]
      <3>1. work'.todo = Strategies /\ Strategies' = Strategies
        BY <2>1, <2>3 DEF NoWork, Strategies
      <3>2. Strategies \in Seq(Names)
        <4>1. lists["model_a"] \in Lists
          BY DEF TypeInv, Clients
        <4> QED BY <4>1, ReplyAssumption DEF Strategies, Lists
      <3>3. Done' = 0
        BY <3>1, <3>2 DEF Done
      <3>4. \A i \in 1 .. Len(Strategies) : Strategies[i] = Strategies[0 + i]
        BY <3>2
      <3> HIDE DEF Strategies, Done
      <3>5. result' = OutcomeIn(disk', Strategies, 0)
        BY <2>1 DEF OutcomeIn
      <3> QED BY <3>1, <3>3, <3>4, <3>5 DEF ProgressInv
    <2> QED BY <1>3, <2>2, <2>3 DEF Enumerated, Strategies
  <1>4. CASE Merge
    <2>a. ~Enumerating /\ pc = "merge" /\ UNCHANGED <<disk, lists>>
      BY <1>4 DEF Merge, TypeInv
    <2>1. CASE /\ Field = SortSignal /\ SignalOf(Field) = NONE
               /\ result' = [result EXCEPT !.events = Append(@, Event("assembly_incomplete"))]
               /\ LeaveConstruction
      <3>1. /\ Fields[work.field] = SortSignal /\ SortSignal \in FieldSet
            /\ \A c \in Clients : InMind(c, work.field)
            /\ \A i \in 1 .. work.field - 1 : \A c \in Clients : InMind(c, i)
        BY <2>a, <2>1, SortKey DEF Field, ConstructionInv
      <3>2. /\ Answered(disk, SortSignal)
            /\ \A c \in Clients : AnswerOf(c, SortSignal) = AnswerIn(disk, c, SortSignal)
        BY <2>a, <3>1, MindIsDisk DEF InMind
      <3>3. UnassembledIn(disk)
        BY <2>1, <3>2 DEF SignalOf, UnassembledIn, SignalIn, Clients
      <3>4. Settled(disk)
        <4>1. ASSUME NEW i \in DOMAIN Fields, Before(i)
              PROVE  Answered(disk, Fields[i])
          <5>1. ~(work.field \in 1 .. i - 1)
            BY <3>1, <4>1 DEF Before
          <5>2. i \in 1 .. work.field - 1 \/ i = work.field
            BY <1>a, <5>1
          <5>3. \A c \in Clients : InMind(c, i)
            BY <3>1, <5>2
          <5> QED BY <2>a, <5>3, MindIsDisk DEF Answered
        <4> QED BY <3>2, <3>3, <4>1 DEF Settled
      <3>5. KindIn(disk) = "assembly_incomplete"
        BY <3>3 DEF KindIn
      <3> QED BY <2>a, <2>1, <3>4, <3>5, OneMore
    <2>2. CASE /\ work' \in {work, [work EXCEPT !.field = @ + 1]} /\ UNCHANGED result
      <3>1. work'.todo = work.todo
        BY <1>a, <2>2 DEF WorkType
      <3> QED BY <1>b, <2>a, <2>2, <3>1
    <2> QED BY <1>4, <2>1, <2>2 DEF Merge
  <1>5. CASE Emit
    <2>a. ~Enumerating /\ pc = "emit" /\ UNCHANGED <<disk, lists>> /\ LeaveConstruction
      BY <1>5 DEF Emit, TypeInv
    <2>1. /\ work.field = Len(Fields) /\ ~UnassembledIn(disk)
          /\ \A c \in Clients : InMind(c, work.field)
          /\ \A i \in 1 .. work.field - 1 : \A c \in Clients : InMind(c, i)
      BY <2>a DEF ConstructionInv
    <2>2. \A i \in DOMAIN Fields : \A c \in Clients : InMind(c, i)
      <3>1. \A i \in DOMAIN Fields : i \in 1 .. work.field - 1 \/ i = work.field
        BY <1>a, <2>1
      <3> QED BY <2>1, <3>1
    <2>3. ASSUME NEW f \in FieldSet
          PROVE  /\ Answered(disk, f)
                 /\ \A c \in Clients : AnswerOf(c, f) = AnswerIn(disk, c, f)
      <3>1. \A c \in Clients : mem[<<c, Label, f>>] # ABSENT
        BY <2>2, FieldIndex DEF InMind
      <3> QED BY <2>a, <3>1, MindIsDisk
    <2>4. Settled(disk)
      BY <2>3, SortKey, FieldKeys DEF Settled
    <2>5. ControlPresent <=> ControlIn(disk)
      BY <2>3 DEF ControlPresent, ControlIn, SignalOf, SignalIn, Clients
    <2>6. SortKind = SortKindIn(disk)
      BY <2>3 DEF SortKind, SortKindIn, Merged, Clients
    <2>7. StructureRefused <=> RefusedIn(disk)
      BY <2>5, <2>6 DEF StructureRefused, RefusedIn
    <2>8. KindIn(disk) = IF StructureRefused THEN "emission_error" ELSE "spec"
      BY <2>1, <2>7 DEF KindIn
    <2>9. IF KindIn(disk) = "spec"
          THEN result' = [result EXCEPT !.specs = Append(@, Label)]
          ELSE result' = [result EXCEPT !.events = Append(@, Event(KindIn(disk)))]
      BY <1>5, <2>8 DEF Emit
    <2> QED BY <2>a, <2>4, <2>9, OneMore
  <1>6. CASE WriteSpec \/ WriteEvents
    <2>1. pc = "write" /\ UNCHANGED <<work, lists, result>>
      BY <1>6 DEF WriteSpec, WriteEvents
    <2> QED BY <1>b, <2>1
  <1> QED BY <1>1, <1>2, <1>3, <1>4, <1>5, <1>6

LEMMA ResumeStep ==
    ASSUME TypeInv, ReplayInv, OutcomeInv, ResumeInv, Next
    PROVE  ResumeInv'
  <1> SUFFICES ASSUME Replaying' PROVE (ListInv /\ ConstructionInv /\ ProgressInv)'
    BY DEF ResumeInv
  <1>1. CASE \E o \in Options : Start(o.live, o.cache)
    BY <1>1, ResumeStart
  <1>2. CASE /\ Replaying /\ Grows(disk, disk') /\ UNCHANGED opts
             /\ AnswerStep \/ NextClient \/ Enumerated \/ Merge \/ Emit \/ WriteSpec \/ WriteEvents
    BY <1>2, ListStep, ConstructionStep, ProgressStep DEF ResumeInv
  <1> QED BY <1>1, <1>2, Resumed


-----------------------------------------------------------------------------

\* The latest completed run is what the disk makes of the paper.
LEMMA LastStep ==
    ASSUME TypeInv, ResumeInv, LastInv, Next
    PROVE  LastInv'
  <1>1. CASE last' = NONE
    BY <1>1 DEF LastInv
  <1>2. CASE Complete /\ opts.cache /\ Unspoiled
    <2>1. /\ pc = "manifest" /\ UNCHANGED <<disk, lists, result>> /\ Enumerating
          /\ last' = [live |-> opts.live, lists |-> lists, result |-> result]
      BY <1>2 DEF Complete, cacheVars, TypeInv, Unspoiled
    <2>2. ListInv /\ ProgressInv
      BY <1>2, <2>1 DEF ResumeInv, Replaying
    <2>3. /\ \A m \in Clients : ListIn(disk, opts.live, lists[m], m)
          /\ Done > 0 => Settled(disk)
          /\ result = OutcomeIn(disk, Strategies, Done)
      BY <2>1, <2>2 DEF ListInv, ProgressInv, Listed
    <2>4. Done = Len(Strategies) /\ lists \in [Clients -> Lists]
      <3>1. lists \in [Clients -> Lists] /\ lists["model_a"] \in Lists
        BY DEF TypeInv, Clients
      <3>2. Strategies \in Seq(Names)
        BY <3>1, ReplyAssumption DEF Strategies, Lists
      <3>3. Len(work.todo) = 0 /\ Len(Strategies) \in Nat
        BY <2>1, <3>2 DEF Enumerating
      <3> QED BY <3>1, <3>3 DEF Done
    <2>5. Unspoiled'
      BY <1>2, <2>1 DEF Unspoiled
    <2>6. /\ last'.live = opts.live /\ last'.lists = lists /\ last'.result = result
          /\ disk' = disk
      BY <2>1
    <2> HIDE DEF Done
    <2> QED BY <2>3, <2>4, <2>5, <2>6 DEF LastInv, Strategies
  <1>3. CASE last' # NONE /\ last' = last
    <2>1. Grows(disk, disk') /\ (Unspoiled' <=> Unspoiled)
      BY <1>3, DiskStep
    <2> DEFINE s == StrategiesOf(last.lists["model_a"])
    <2>2. /\ Unspoiled' /\ last.lists \in [Clients -> Lists]
          /\ \A m \in Clients : ListIn(disk, last.live, last.lists[m], m)
          /\ Len(s) > 0 => Settled(disk)
          /\ last.result = OutcomeIn(disk, s, Len(s))
      BY <1>3, <2>1 DEF LastInv
    <2>3. Len(s) \in Nat
      <3>1. last.lists["model_a"] \in Lists
        BY <2>2 DEF Clients
      <3>2. s \in Seq(Names)
        BY <3>1, ReplyAssumption DEF Lists
      <3> QED BY <3>2
    <2> HIDE DEF s
    <2>4. /\ Len(s) > 0 => Settled(disk')
          /\ last.result = OutcomeIn(disk', s, Len(s))
      <3>1. CASE Len(s) = 0
        BY <2>2, <3>1 DEF OutcomeIn
      <3>2. CASE Len(s) > 0
        BY <2>1, <2>2, <3>2, StaysSettled DEF OutcomeIn
      <3> QED BY <2>3, <3>1, <3>2
    <2>5. \A m \in Clients : ListIn(disk', last.live, last.lists[m], m)
      BY <2>1, <2>2, StaysListed
    <2> QED BY <1>3, <2>2, <2>4, <2>5 DEF LastInv, s
  <1>4. last' = last \/ last' = NONE \/ (Complete /\ opts.cache /\ Unspoiled)
    BY DEF Next, Step, Ask, VendorAnswers, DiskPut, Archive, NextClient,
           VendorFails, Enumerated, Merge, Emit, WriteSpec, WriteEvents, Complete,
           EarlyExit, Start, Begin, Crash, SpoilEntry, Unspoiled
  <1> QED BY <1>1, <1>2, <1>3, <1>4

\* After a completed run every question of a cached run is answered by its caches.
LEMMA NoCallNeeded ==
    ASSUME TypeInv, ResumeInv, LastInv, last # NONE, pc = "ask", opts.cache,
           last.live = opts.live
    PROVE  Remembered # ABSENT \/ Readable(disk[Key])
  <1>1. Replaying
    BY DEF LastInv, Replaying
  <1>2. ListInv /\ ConstructionInv /\ ProgressInv
    BY <1>1 DEF ResumeInv
  <1>3. work.client \in Clients /\ work.field \in DOMAIN Fields
    BY DEF TypeInv
  <1>4. CASE Enumerating
    <2>1. opts.live /\ Key = <<work.client, ENUM>>
      BY <1>2, <1>4 DEF ListInv, Questioning, Key, Field
    <2>2. ListIn(disk, last.live, last.lists[work.client], work.client)
      BY <1>3 DEF LastInv
    <2> QED BY <2>1, <2>2 DEF ListIn
  <1>5. CASE ~Enumerating
    <2>1. lists["model_a"] = last.lists["model_a"]
      <3>1. Listed("model_a") /\ ListIn(disk, last.live, last.lists["model_a"], "model_a")
        BY <1>2, <1>5 DEF ListInv, LastInv, Clients
      <3> QED BY <3>1 DEF Listed, ListIn
    <2>2. Len(Strategies) > 0
      <3>1. work.todo \in Seq(Names) /\ work.todo # <<>>
        BY <1>5 DEF TypeInv, Enumerating
      <3>2. Len(work.todo) \in Nat /\ Len(work.todo) > 0
        BY <3>1
      <3>3. lists["model_a"] \in Lists
        BY DEF TypeInv, Clients
      <3>4. Strategies \in Seq(Names)
        BY <3>3, ReplyAssumption DEF Strategies, Lists
      <3>5. Len(Strategies) - Len(work.todo) \in Nat /\ Len(Strategies) \in Nat
        BY <1>2, <1>5, <3>4 DEF ProgressInv, Done
      <3> QED BY <3>2, <3>5
    <2>3. Settled(disk)
      BY <2>1, <2>2 DEF LastInv, Strategies
    <2>4. Before(work.field) \/ ~UnassembledIn(disk)
      <3>1. \A i \in 1 .. work.field - 1 : Fields[i] = SortSignal => ~UnassembledIn(disk)
        BY <1>2, <1>5 DEF ConstructionInv
      <3> QED BY <3>1 DEF Before
    <2>5. Answered(disk, Fields[work.field])
      BY <1>3, <2>3, <2>4 DEF Settled
    <2> QED BY <1>3, <1>5, <2>5 DEF Answered, Key, Field
  <1> QED BY <1>4, <1>5

LEMMA FreeStep ==
    ASSUME TypeInv, ResumeInv, LastInv, FreeInv, Next
    PROVE  FreeInv'
  <1> USE DEF cacheVars, faultVars
  <1> SUFFICES ASSUME last' # NONE, pc' # "idle", opts'.cache, last'.live = opts'.live
               PROVE  pc' \notin {"call", "put"} /\ usage' = NoUsage
    BY DEF FreeInv
  <1>1. CASE \E o \in Options : Start(o.live, o.cache)
    BY <1>1 DEF Start, Begin
  <1>2. ~Complete /\ ~EarlyExit /\ ~Crash /\ ~\E k \in Keys : SpoilEntry(k)
    BY DEF Complete, EarlyExit, Crash, SpoilEntry
  <1>3. CASE AnswerStep \/ NextClient \/ Enumerated \/ Merge \/ Emit \/ WriteSpec \/ WriteEvents
    <2>1. pc # "idle" /\ UNCHANGED <<opts, last>>
      BY <1>3 DEF AnswerStep, Ask, VendorAnswers, DiskPut, Archive, VendorFails, NextClient,
                  Enumerated, Merge, Emit, WriteSpec, WriteEvents
    <2>2. pc \notin {"call", "put"} /\ usage = NoUsage
      BY <2>1 DEF FreeInv
    <2>3. CASE Ask
      <3>1. Remembered # ABSENT \/ Readable(disk[Key])
        BY <2>1, <2>3, NoCallNeeded DEF Ask
      <3>2. pc' \in {"answered", "archive"}
        BY <2>1, <2>3, <3>1 DEF Ask
      <3> QED BY <2>2, <2>3, <3>2 DEF Ask
    <2>4. CASE Archive \/ NextClient \/ Enumerated \/ Merge \/ Emit \/ WriteSpec \/ WriteEvents
      BY <2>2, <2>4 DEF Archive, NextClient, Enumerated, Merge, Emit, WriteSpec, WriteEvents,
                        LeaveConstruction
    <2>5. ~VendorAnswers /\ ~DiskPut /\ ~\E retryable \in BOOLEAN : VendorFails(retryable)
      BY <2>2 DEF VendorAnswers, DiskPut, VendorFails
    <2> QED BY <1>3, <2>3, <2>4, <2>5 DEF AnswerStep
  <1> QED BY <1>1, <1>2, <1>3 DEF Next, Step, AnswerStep

CacheInv == ReplayInv /\ ResumeInv /\ LastInv /\ FreeInv

LEMMA CacheHolds == Spec => []CacheInv
  <1>1. Init => CacheInv
    BY ReplayInit DEF Init, CacheInv, ResumeInv, Replaying, LastInv, FreeInv
  <1>2. RunInv /\ CacheInv /\ Next => CacheInv'
    BY ReplayStep, ResumeStep, LastStep, FreeStep DEF RunInv, CacheInv
  <1>3. RunInv /\ CacheInv /\ UNCHANGED vars => CacheInv'
    <2> SUFFICES ASSUME CacheInv, UNCHANGED vars PROVE CacheInv'
      OBVIOUS
    <2> USE DEF vars
    <2>1. ReplayInv'
      BY DEF CacheInv, ReplayInv, ReplaysAgree, Readable, Key, Field, Enumerating
    <2>2. /\ Enumerating' = Enumerating /\ Done' = Done /\ Strategies' = Strategies
          /\ Unspoiled' = Unspoiled /\ Label' = Label /\ Key' = Key
      BY DEF Enumerating, Done, Strategies, Unspoiled, Label, Key, Field
    <2>3. ResumeInv'
      BY <2>2 DEF CacheInv, ResumeInv, Replaying, ListInv, ConstructionInv, ProgressInv,
                  Listed, InMind
    <2>4. LastInv' /\ FreeInv'
      BY <2>2 DEF CacheInv, LastInv, FreeInv
    <2> QED BY <2>1, <2>3, <2>4 DEF CacheInv
  <1> QED BY <1>1, <1>2, <1>3, RunHolds, PTL DEF Spec

\* A cached run that completes after a completed one, with no entry spoiled in
\* between, has called no vendor and ends with the same lists and the same
\* outcomes, however many other runs, live or not, cached or not, completed or
\* dead, lie between the two (run_librarian.py 855-858).
THEOREM ResumeIsFree == Spec => ZeroCostResume
  <1> DEFINE Free == Complete /\ opts.cache /\ last # NONE /\ last.live = opts.live =>
                         /\ usage = NoUsage
                         /\ lists = last.lists /\ result = last.result
  <1>1. RunInv /\ CacheInv => Free
    <2> SUFFICES ASSUME TypeInv, ResumeInv, LastInv, FreeInv,
                        Complete, opts.cache, last # NONE, last.live = opts.live
                 PROVE  usage = NoUsage /\ lists = last.lists /\ result = last.result
      BY DEF RunInv, CacheInv
    <2>1. pc = "manifest" /\ Enumerating
      BY DEF Complete, TypeInv
    <2>2. ListInv /\ ProgressInv
      BY <2>1 DEF ResumeInv, Replaying, LastInv
    <2>3. usage = NoUsage
      BY <2>1 DEF FreeInv
    <2>4. lists = last.lists
      <3>1. lists \in [Clients -> Lists] /\ last.lists \in [Clients -> Lists]
        BY DEF TypeInv, LastInv
      <3>2. \A m \in Clients : lists[m] = last.lists[m]
        BY <2>1, <2>2 DEF ListInv, LastInv, Listed, ListIn
      <3> QED BY <3>1, <3>2
    <2>5. Done = Len(Strategies)
      <3>1. lists["model_a"] \in Lists
        BY DEF TypeInv, Clients
      <3>2. Strategies \in Seq(Names)
        BY <3>1, ReplyAssumption DEF Strategies, Lists
      <3>3. Len(work.todo) = 0 /\ Len(Strategies) \in Nat
        BY <2>1, <3>2 DEF Enumerating
      <3> QED BY <3>3 DEF Done
    <2>6. result = OutcomeIn(disk, Strategies, Len(Strategies))
      BY <2>1, <2>2, <2>5 DEF ProgressInv
    <2>7. result = last.result
      BY <2>4, <2>6 DEF LastInv, Strategies
    <2> QED BY <2>3, <2>4, <2>7
  <1>2. RunInv /\ CacheInv => [Free]_vars
    BY <1>1
  <1> QED BY <1>2, RunHolds, CacheHolds, PTL DEF ZeroCostResume


-----------------------------------------------------------------------------
(* The raw archive holds the lines of this run.                             *)

\* The lines of the constructions that have an outcome, and of the one at hand.
LinesOf(res) ==
    LET cut == Cardinality(CutShort(res.events))
    IN cut * SortPosition + ((Len(res.specs) + Len(res.events)) - cut) * Len(Fields)
Asked(c) ==
    IF \/ pc \in {"merge", "emit"}
       \/ c = "model_a" /\ work.client = "model_b"
       \/ c = work.client /\ pc = "answered"
    THEN work.field ELSE work.field - 1

\* Of the constructions to come nothing is remembered, and of the one at hand
\* no more than what it has asked.
AtHandInv ==
    /\ Distinct(work.todo)
    /\ pc \in {"merge", "emit"} => work.client = "model_a"
    /\ pc = "emit" => work.field = Len(Fields)
    /\ \A c \in Clients : out.raw[c] = LinesOf(result) + Asked(c)
    /\ \A c \in Clients, j \in DOMAIN work.todo, i \in DOMAIN Fields :
           j > 1 \/ i > Asked(c) => mem[<<c, work.todo[j], Fields[i]>>] = ABSENT

ArchiveInv ==
    /\ pc \in Questioning \cup {"enumerated"} /\ Enumerating =>
           mem = NoMem /\ \A c \in Clients : out.raw[c] = 0
    /\ pc \in Questioning \cup {"merge", "emit"} /\ ~Enumerating /\ Distinct(Strategies) =>
           AtHandInv
    /\ pc \in {"write", "manifest"} \/ PaperRan =>
           (Distinct(Strategies) => \A c \in Clients : out.raw[c] = LinesOf(result))

LEMMA SortPlace ==
    /\ SortPosition \in DOMAIN Fields
    /\ \A i \in DOMAIN Fields : Fields[i] = SortSignal => i = SortPosition
  <1>1. \E i \in DOMAIN Fields : Fields[i] = SortSignal
    BY SortKey, FieldIndex
  <1>2. SortPosition \in DOMAIN Fields /\ Fields[SortPosition] = SortSignal
    BY <1>1 DEF SortPosition
  <1> QED BY <1>2, BoundAssumption DEF Distinct

LEMMA CutAppended ==
    ASSUME NEW s \in Seq(Events), NEW e \in Events
    PROVE  LET n == Cardinality(CutShort(s))
               m == Cardinality(CutShort(Append(s, e)))
           IN /\ n \in Nat
              /\ e.kind = "assembly_incomplete" => m = n + 1
              /\ e.kind # "assembly_incomplete" => m = n
  <1> DEFINE t == Append(s, e)
             k == Len(s) + 1
  <1>1. /\ k \in Nat /\ DOMAIN s = 1 .. Len(s) /\ DOMAIN t = 1 .. k /\ t[k] = e
        /\ \A i \in 1 .. Len(s) : t[i] = s[i]
    OBVIOUS
  <1>2. 1 .. k = (1 .. Len(s)) \cup {k} /\ k \notin 1 .. Len(s)
    OBVIOUS
  <1>3. IsFiniteSet(CutShort(s)) /\ k \notin CutShort(s)
    <2>1. IsFiniteSet(1 .. Len(s))
      BY FS_Interval
    <2>2. CutShort(s) \subseteq 1 .. Len(s)
      BY <1>1 DEF CutShort
    <2> QED BY <1>2, <2>1, <2>2, FS_Subset
  <1> HIDE DEF t, k
  <1>4. CASE e.kind = "assembly_incomplete"
    <2>1. CutShort(t) = CutShort(s) \cup {k}
      BY <1>1, <1>2, <1>4 DEF CutShort
    <2> QED BY <1>3, <1>4, <2>1, FS_AddElement, FS_CardinalityType DEF t
  <1>5. CASE e.kind # "assembly_incomplete"
    <2>1. CutShort(t) = CutShort(s)
      BY <1>1, <1>2, <1>5 DEF CutShort
    <2> QED BY <1>3, <1>5, <2>1, FS_CardinalityType DEF t
  <1> QED BY <1>4, <1>5

LEMMA Multiplied ==
    \A a, b, c \in Nat : /\ (a + 1) * b = a * b + b
                         /\ a * b \in Nat
                         /\ 0 * b = 0
  OBVIOUS

\* An outcome adds the lines of its construction.
LEMMA LinesAppended ==
    ASSUME NEW res \in Results, NEW x \in Names, NEW e \in Events
    PROVE  /\ LinesOf(res) \in Nat
           /\ LinesOf([specs |-> Append(res.specs, x), events |-> res.events])
                  = LinesOf(res) + Len(Fields)
           /\ LinesOf([specs |-> res.specs, events |-> Append(res.events, e)])
                  = LinesOf(res) + IF e.kind = "assembly_incomplete"
                                   THEN SortPosition ELSE Len(Fields)
  <1> DEFINE n == Cardinality(CutShort(res.events))
             a == Len(res.specs)
             b == Len(res.events)
             F == Len(Fields)
             S == SortPosition
  <1>1. /\ n \in Nat /\ n <= b /\ a \in Nat /\ b \in Nat /\ F \in Nat /\ S \in Nat
        /\ res.specs \in Seq(Names) /\ res.events \in Seq(Events)
    <2>1. res.specs \in Seq(Names) /\ res.events \in Seq(Events)
      BY DEF Results
    <2>2. CutShort(res.events) \subseteq 1 .. b
      BY <2>1 DEF CutShort
    <2>3. IsFiniteSet(1 .. b) /\ Cardinality(1 .. b) = b
      BY <2>1, FS_Interval
    <2>4. n \in Nat /\ n <= b
      BY <2>2, <2>3, FS_Subset, FS_CardinalityType
    <2> QED BY <2>1, <2>4, FirstField, SortPlace
  <1>2. /\ Len(Append(res.specs, x)) = a + 1
        /\ Len(Append(res.events, e)) = b + 1
    BY <1>1
  <1>3. /\ e.kind = "assembly_incomplete" => Cardinality(CutShort(Append(res.events, e))) = n + 1
        /\ e.kind # "assembly_incomplete" => Cardinality(CutShort(Append(res.events, e))) = n
    BY <1>1, CutAppended
  <1>4. LinesOf(res) = n * S + ((a + b) - n) * F
    BY DEF LinesOf
  <1>5. LinesOf([specs |-> Append(res.specs, x), events |-> res.events])
            = n * S + (((a + 1) + b) - n) * F
    BY <1>2 DEF LinesOf
  <1>6. LinesOf([specs |-> res.specs, events |-> Append(res.events, e)])
            = IF e.kind = "assembly_incomplete"
              THEN (n + 1) * S + ((a + (b + 1)) - (n + 1)) * F
              ELSE n * S + ((a + (b + 1)) - n) * F
    BY <1>2, <1>3 DEF LinesOf
  <1> HIDE DEF n, a, b, F, S
  <1> DEFINE d == (a + b) - n
  <1>7. d \in Nat /\ ((a + 1) + b) - n = d + 1 /\ (a + (b + 1)) - n = d + 1 /\ (a + (b + 1)) - (n + 1) = d
    BY <1>1
  <1> HIDE DEF d
  <1>8. /\ (d + 1) * F = d * F + F /\ (n + 1) * S = n * S + S
        /\ d * F \in Nat /\ n * S \in Nat
    BY <1>1, <1>7, Multiplied
  <1>9. LinesOf(res) = n * S + d * F
    BY <1>4 DEF d
  <1>10. LinesOf([specs |-> Append(res.specs, x), events |-> res.events]) = LinesOf(res) + F
    BY <1>1, <1>5, <1>7, <1>8, <1>9
  <1>11. LinesOf([specs |-> res.specs, events |-> Append(res.events, e)])
            = LinesOf(res) + IF e.kind = "assembly_incomplete" THEN S ELSE F
    <2>1. CASE e.kind = "assembly_incomplete"
      BY <1>1, <1>6, <1>7, <1>8, <1>9, <2>1
    <2>2. CASE e.kind # "assembly_incomplete"
      BY <1>1, <1>6, <1>7, <1>8, <1>9, <2>2
    <2> QED BY <2>1, <2>2
  <1> QED BY <1>8, <1>9, <1>10, <1>11 DEF F, S

LEMMA LinesTyped == \A res \in Results : LinesOf(res) \in Nat
  <1> SUFFICES ASSUME NEW res \in Results PROVE LinesOf(res) \in Nat
    OBVIOUS
  <1> DEFINE n == Cardinality(CutShort(res.events))
             a == Len(res.specs)
             b == Len(res.events)
             d == (a + b) - n
             F == Len(Fields)
             S == SortPosition
  <1>1. /\ a \in Nat /\ b \in Nat /\ F \in Nat /\ S \in Nat
        /\ CutShort(res.events) \subseteq 1 .. b
    BY FirstField, SortPlace DEF Results, CutShort
  <1>2. n \in Nat /\ n <= b
    <2>1. b \in Nat
      BY <1>1
    <2> HIDE DEF b
    <2>2. IsFiniteSet(1 .. b) /\ Cardinality(1 .. b) = b
      BY <2>1, FS_Interval
    <2> QED BY <1>1, <2>2, FS_Subset, FS_CardinalityType
  <1>3. LinesOf(res) = n * S + d * F
    BY DEF LinesOf
  <1> HIDE DEF n, a, b, F, S
  <1>4. d \in Nat
    BY <1>1, <1>2
  <1> HIDE DEF d
  <1>5. n * S \in Nat /\ d * F \in Nat
    BY <1>1, <1>2, <1>4, Multiplied
  <1> QED BY <1>3, <1>5

LEMMA LinesOfNothing == LinesOf(NoResult) = 0
  <1>1. CutShort(NoResult.events) = {}
    BY DEF CutShort, NoResult
  <1>2. Cardinality(CutShort(NoResult.events)) = 0
    BY <1>1, FS_EmptySet
  <1>3. LinesOf(NoResult) = 0 * SortPosition + (0 + 0 - 0) * Len(Fields)
    BY <1>2, Nothing DEF LinesOf
  <1>4. SortPosition \in Nat /\ Len(Fields) \in Nat
    BY FirstField, SortPlace
  <1>5. 0 * SortPosition = 0 /\ 0 * Len(Fields) = 0
    BY <1>4, Multiplied
  <1> QED BY <1>3, <1>5

\* What the merge or the emission of the construction at hand adds.
LEMMA LinesOfEvent ==
    ASSUME TypeInv, ~Enumerating
    PROVE  /\ result' = [result EXCEPT !.events = Append(@, Event("assembly_incomplete"))]
                  => LinesOf(result') = LinesOf(result) + SortPosition
           /\ result' = [result EXCEPT !.events = Append(@, Event("emission_error"))]
                  => LinesOf(result') = LinesOf(result) + Len(Fields)
           /\ result' = [result EXCEPT !.specs = Append(@, Label)]
                  => LinesOf(result') = LinesOf(result) + Len(Fields)
  <1>1. result \in Results /\ Label \in Names
    BY Question DEF TypeInv
  <1>2. \A kind \in {"assembly_incomplete", "emission_error"} :
            Event(kind) \in Events /\ Event(kind).kind = kind
    BY <1>1 DEF Event, Events
  <1>3. ASSUME NEW kind \in {"assembly_incomplete", "emission_error"},
               result' = [result EXCEPT !.events = Append(@, Event(kind))]
        PROVE  LinesOf(result') = LinesOf(result) + IF kind = "assembly_incomplete"
                                                    THEN SortPosition ELSE Len(Fields)
    <2>1. result' = [specs |-> result.specs, events |-> Append(result.events, Event(kind))]
      BY <1>1, <1>3 DEF Results
    <2> QED BY <1>1, <1>2, <2>1, LinesAppended
  <1>4. ASSUME result' = [result EXCEPT !.specs = Append(@, Label)]
        PROVE  LinesOf(result') = LinesOf(result) + Len(Fields)
    <2>1. result' = [specs |-> Append(result.specs, Label), events |-> result.events]
      BY <1>1, <1>4 DEF Results
    <2>2. Event("emission_error") \in Events
      BY <1>2
    <2> QED BY <1>1, <2>1, <2>2, LinesAppended
  <1> QED BY <1>3, <1>4


\* A list without its head has no name twice, and none of them is the head.
LEMMA DistinctTail ==
    ASSUME NEW s \in Seq(Names), s # <<>>, Distinct(s)
    PROVE  /\ Distinct(Tail(s))
           /\ \A j \in DOMAIN Tail(s) : j + 1 \in DOMAIN s /\ Tail(s)[j] = s[j + 1] /\ j + 1 > 1
  <1>1. /\ DOMAIN s = 1 .. Len(s) /\ DOMAIN Tail(s) = 1 .. (Len(s) - 1) /\ Len(s) \in Nat
        /\ \A j \in 1 .. (Len(s) - 1) : Tail(s)[j] = s[j + 1]
    OBVIOUS
  <1>2. \A j \in 1 .. (Len(s) - 1) : j + 1 \in 1 .. Len(s) /\ j + 1 > 1
    BY <1>1
  <1>3. \A i, j \in 1 .. (Len(s) - 1) : i + 1 = j + 1 => i = j
    OBVIOUS
  <1> QED BY <1>1, <1>2, <1>3 DEF Distinct

LEMMA ArchiveOnce ==
    ASSUME TypeInv, ArchiveInv, AnswerStep
    PROVE  ArchiveInv'
  <1> USE DEF cacheVars, faultVars
  <1>a. /\ pc \in Questioning /\ pc' \in Questioning \cup {"early"}
        /\ UNCHANGED <<lists, result, opts>>
        /\ work'.todo = work.todo /\ work'.field = work.field
        /\ work'.client = work.client
        /\ Enumerating' = Enumerating /\ Label' = Label
        /\ Strategies' = Strategies
    BY AnswerFrame
  <1>b. /\ work \in WorkType /\ work.field \in DOMAIN Fields /\ DOMAIN Fields = 1 .. Len(Fields)
        /\ work.client \in Clients /\ Len(Fields) \in Nat
    BY FirstField DEF TypeInv, WorkType
  <1>c. pc' \notin {"write", "manifest", "idle", "enumerated", "merge", "emit"}
    BY <1>a DEF Questioning
  <1>1. CASE Enumerating
    <2>1. UNCHANGED mem /\ out' = out
      BY <1>1 DEF AnswerStep, Ask, VendorAnswers, DiskPut, Archive, VendorFails
    <2> QED BY <1>1, <1>a, <1>c, <2>1 DEF ArchiveInv, PaperRan
  <1>2. CASE ~Enumerating
    <2> SUFFICES ASSUME pc' \in Questioning, Distinct(Strategies)
                 PROVE  AtHandInv'
      BY <1>2, <1>a, <1>c DEF ArchiveInv, PaperRan
    <2>1. AtHandInv
      BY <1>2, <1>a DEF ArchiveInv
    <2>2. /\ work.todo \in Seq(Names) /\ work.todo # <<>> /\ Label = work.todo[1]
          /\ 1 \in DOMAIN work.todo /\ DOMAIN work.todo \subseteq Nat
      BY <1>2, <1>b DEF WorkType, Enumerating, Label
    <2>3. MemKey = <<work.client, work.todo[1], Fields[work.field]>>
      BY <1>2, <2>2 DEF MemKey, Field
    <2>4. pc \in {"ask", "call", "put", "archive"} => Asked(work.client) = work.field - 1
      BY <1>b DEF Asked, Clients
    <2>5. CASE ~Archive
      <3>1. UNCHANGED mem /\ out' = out
        BY <2>5 DEF AnswerStep, Ask, VendorAnswers, DiskPut, VendorFails
      <3>2. pc \in {"ask", "call", "put"}
        BY <2>5 DEF AnswerStep, Ask, VendorAnswers, DiskPut, VendorFails
      <3>3. pc' # "answered"
        <4>1. CASE Ask
          <5>1. work.field > Asked(work.client)
            BY <1>b, <2>4, <3>2
          <5>2. Remembered = ABSENT
            BY <1>2, <1>b, <2>1, <2>2, <2>3, <5>1 DEF AtHandInv, Remembered
          <5> QED BY <4>1, <5>2 DEF Ask
        <4> QED BY <2>5, <4>1 DEF AnswerStep, VendorAnswers, DiskPut, VendorFails
      <3>4. \A c \in Clients : Asked(c)' = Asked(c)
        BY <1>a, <1>c, <3>2, <3>3 DEF Asked
      <3> QED BY <1>a, <1>c, <2>1, <3>1, <3>4 DEF AtHandInv
    <2>6. CASE Archive
      <3>1. /\ pc = "archive" /\ pc' = "answered"
            /\ out' = [out EXCEPT !.raw[work.client] = @ + 1]
            /\ mem' = [mem EXCEPT ![MemKey] = work.reply]
        BY <1>2, <2>6 DEF Archive
      <3>2. \A c \in Clients : Asked(c)' = Asked(c) + IF c = work.client THEN 1 ELSE 0
        <4>1. ASSUME NEW c \in Clients, c = work.client
              PROVE  Asked(c)' = Asked(c) + 1
          BY <1>a, <1>b, <2>4, <3>1, <4>1 DEF Asked
        <4>2. ASSUME NEW c \in Clients, c # work.client
              PROVE  Asked(c)' = Asked(c) + 0
          <5>1. Asked(c)' = Asked(c) /\ Asked(c) \in Int
            BY <1>a, <1>b, <3>1, <4>2 DEF Asked
          <5> QED BY <5>1
        <4> QED BY <4>1, <4>2
      <3>3. \A c \in Clients : out'.raw[c] = out.raw[c] + IF c = work.client THEN 1 ELSE 0
        <4>1. out.raw \in [Clients -> Nat] /\ out'.raw = [out.raw EXCEPT ![work.client] = @ + 1]
          BY <3>1 DEF TypeInv
        <4> QED BY <1>b, <4>1
      <3>4. \A c \in Clients : out'.raw[c] = LinesOf(result') + Asked(c)'
        <4>1. \A c \in Clients : out.raw[c] = LinesOf(result) + Asked(c) /\ Asked(c) \in Int
          BY <1>b, <2>1 DEF AtHandInv, Asked
        <4>2. LinesOf(result) \in Int
          BY LinesTyped DEF TypeInv
        <4> QED BY <1>a, <3>2, <3>3, <4>1, <4>2
      <3>5. ASSUME NEW c \in Clients, NEW j \in DOMAIN work.todo, NEW i \in DOMAIN Fields,
                   j > 1 \/ i > Asked(c)'
            PROVE  mem'[<<c, work.todo[j], Fields[i]>>] = ABSENT
        <4>1. j > 1 \/ i > Asked(c)
          BY <1>b, <3>2, <3>5 DEF Asked
        <4>2. mem[<<c, work.todo[j], Fields[i]>>] = ABSENT
          BY <2>1, <4>1 DEF AtHandInv
        <4>3. <<c, work.todo[j], Fields[i]>> # MemKey
          <5> SUFFICES ASSUME c = work.client, work.todo[j] = work.todo[1],
                              Fields[i] = Fields[work.field]
                       PROVE  FALSE
            BY <2>3
          <5>1. j = 1
            BY <2>1, <2>2 DEF AtHandInv, Distinct
          <5>2. i = work.field
            BY <1>b, BoundAssumption DEF Distinct
          <5> QED BY <1>b, <2>4, <3>1, <3>2, <3>5, <5>1, <5>2
        <4>4. mem'[<<c, work.todo[j], Fields[i]>>] = mem[<<c, work.todo[j], Fields[i]>>]
          <5>1. <<c, work.todo[j], Fields[i]>> \in DOMAIN mem
            BY <2>2, FieldKeys DEF TypeInv
          <5> HIDE DEF MemKey
          <5> QED BY <3>1, <4>3, <5>1
        <4> QED BY <4>2, <4>4
      <3> HIDE DEF MemKey
      <3> QED BY <1>a, <2>1, <3>1, <3>4, <3>5 DEF AtHandInv
    <2> QED BY <2>5, <2>6
  <1> QED BY <1>1, <1>2

\* A construction that is left has asked all its questions, or been cut short.
LEMMA ArchiveLeft ==
    ASSUME TypeInv, AtHandInv, ~Enumerating, pc \in {"merge", "emit"}, LeaveConstruction,
           UNCHANGED <<mem, out>>, LinesOf(result') = LinesOf(result) + work.field
    PROVE  /\ \A c \in Clients : out'.raw[c] = LinesOf(result')
           /\ pc' = "ask" => AtHandInv'
  <1>1. /\ work'.todo = Tail(work.todo) /\ work'.field = 1 /\ work'.client = "model_a"
        /\ work.todo \in Seq(Names) /\ work.todo # <<>>
    BY Left DEF Enumerating
  <1>2. \A c \in Clients : Asked(c) = work.field
    BY DEF Asked
  <1>3. \A c \in Clients : out'.raw[c] = LinesOf(result')
    BY <1>2 DEF AtHandInv
  <1>4. ASSUME pc' = "ask" PROVE AtHandInv'
    <2>1. \A c \in Clients : Asked(c)' = 0
      BY <1>1, <1>4 DEF Asked
    <2>2. \A c \in Clients : out'.raw[c] = LinesOf(result') + 0
      <3>1. \A c \in Clients : out.raw[c] \in Int
        BY DEF TypeInv
      <3> QED BY <1>3, <3>1
    <2>3. /\ Distinct(work'.todo)
          /\ \A j \in DOMAIN work'.todo : /\ j + 1 \in DOMAIN work.todo /\ j + 1 > 1
                                          /\ work'.todo[j] = work.todo[j + 1]
      BY <1>1, DistinctTail DEF AtHandInv
    <2>4. ASSUME NEW c \in Clients, NEW j \in DOMAIN work'.todo, NEW i \in DOMAIN Fields
          PROVE  mem'[<<c, work'.todo[j], Fields[i]>>] = ABSENT
      BY <2>3 DEF AtHandInv
    <2> QED BY <1>1, <1>4, <2>1, <2>2, <2>3, <2>4 DEF AtHandInv
  <1> QED BY <1>3, <1>4

LEMMA ArchiveStep ==
    ASSUME TypeInv, OutcomeInv, OutputInv, ArchiveInv, Next
    PROVE  ArchiveInv'
  <1> USE DEF cacheVars, faultVars
  <1>a. /\ work \in WorkType /\ work.field \in DOMAIN Fields /\ Len(Fields) \in Nat
        /\ work.client \in Clients /\ DOMAIN Fields = 1 .. Len(Fields)
    BY FirstField DEF TypeInv, WorkType
  <1>1. CASE AnswerStep
    BY <1>1, ArchiveOnce
  <1>2. CASE NextClient
    <2>1. /\ pc = "answered" /\ UNCHANGED <<mem, out, result>>
          /\ work'.todo = work.todo /\ work'.field = work.field
          /\ work'.client = IF work.client = "model_a" THEN "model_b" ELSE "model_a"
          /\ pc' = IF work.client = "model_a" THEN "ask"
                   ELSE IF Enumerating THEN "enumerated" ELSE "merge"
      BY <1>2, <1>a DEF NextClient, WorkType
    <2>2. Enumerating' = Enumerating /\ pc' \in {"ask", "enumerated", "merge"}
      BY <2>1 DEF Enumerating
    <2>3. CASE Enumerating
      BY <2>1, <2>2, <2>3 DEF ArchiveInv, PaperRan, Questioning
    <2>4. CASE ~Enumerating
      <3>1. UNCHANGED lists
        BY <1>2, <2>4 DEF NextClient
      <3>2. Strategies' = Strategies
        BY <3>1 DEF Strategies
      <3>3. \A c \in Clients : Asked(c)' = Asked(c)
        BY <1>a, <2>1, <2>4 DEF Asked, Clients
      <3>4. Distinct(Strategies) => AtHandInv'
        <4> SUFFICES ASSUME AtHandInv PROVE AtHandInv'
          BY <2>1, <2>4 DEF ArchiveInv, Questioning
        <4>1. pc' # "emit" /\ (pc' = "merge" => work'.client = "model_a")
          BY <2>1, <2>4
        <4> QED BY <2>1, <2>2, <3>3, <4>1 DEF AtHandInv
      <3> QED BY <2>2, <2>4, <3>2, <3>4 DEF ArchiveInv, PaperRan
    <2> QED BY <2>3, <2>4
  <1>3. CASE Enumerated
    <2>1. /\ pc = "enumerated" /\ Enumerating /\ UNCHANGED <<mem, out, result, lists>>
          /\ result = NoResult
      BY <1>3 DEF Enumerated, TypeInv, OutcomeInv
    <2>2. mem = NoMem /\ \A c \in Clients : out.raw[c] = 0
      BY <2>1 DEF ArchiveInv
    <2>3. Strategies' = Strategies
      BY <2>1 DEF Strategies
    <2>4. CASE UNCHANGED work /\ pc' \in {"idle", "early"}
      BY <2>1, <2>4 DEF ArchiveInv, PaperRan, Questioning
    <2>5. CASE /\ work' = [NoWork EXCEPT !.todo = Strategies]
               /\ pc' = IF Strategies = <<>> THEN "write" ELSE "ask"
      <3>1. /\ work'.todo = Strategies /\ work'.field = 1 /\ work'.client = "model_a"
            /\ Strategies \in Seq(Names)
        <4>1. lists["model_a"] \in Lists
          BY DEF TypeInv, Clients
        <4>2. Strategies \in Seq(Names)
          BY <4>1, ReplyAssumption DEF Strategies, Lists
        <4> QED BY <2>5, <4>2 DEF NoWork
      <3>2. LinesOf(result') = 0
        BY <2>1, LinesOfNothing
      <3>3. pc' = "ask" => ~Enumerating'
        BY <2>5, <3>1 DEF Enumerating
      <3>4. ASSUME pc' = "ask", Distinct(Strategies) PROVE AtHandInv'
        <4>1. \A c \in Clients : Asked(c)' = 0
          BY <3>1, <3>4 DEF Asked
        <4>2. \A c \in Clients, j \in DOMAIN work'.todo, i \in DOMAIN Fields :
                  mem'[<<c, work'.todo[j], Fields[i]>>] = ABSENT
          BY <2>1, <2>2, <3>1, FieldKeys DEF NoMem
        <4> QED BY <2>1, <2>2, <3>1, <3>2, <3>4, <4>1, <4>2 DEF AtHandInv
      <3> QED BY <2>1, <2>2, <2>3, <2>5, <3>2, <3>3, <3>4 DEF ArchiveInv, PaperRan, Questioning
    <2> QED BY <1>3, <2>4, <2>5 DEF Enumerated, Strategies
  <1>b. ASSUME ~Enumerating, pc \in {"merge", "emit"}, LeaveConstruction,
               UNCHANGED <<mem, out, lists>>,
               AtHandInv => LinesOf(result') = LinesOf(result) + work.field
        PROVE  ArchiveInv'
    <2>1. Strategies' = Strategies
      BY <1>b DEF Strategies
    <2>2. pc' \in {"ask", "write"} /\ (pc' = "ask" => ~Enumerating')
      BY <1>b, Left
    <2>3. Distinct(Strategies) =>
              (\A c \in Clients : out'.raw[c] = LinesOf(result')) /\ (pc' = "ask" => AtHandInv')
      <3> SUFFICES ASSUME AtHandInv
                   PROVE  (\A c \in Clients : out'.raw[c] = LinesOf(result'))
                          /\ (pc' = "ask" => AtHandInv')
        BY <1>b DEF ArchiveInv
      <3> QED BY <1>b, ArchiveLeft
    <2> QED BY <2>1, <2>2, <2>3 DEF ArchiveInv, PaperRan, Questioning
  <1>4. CASE Merge
    <2>a. ~Enumerating /\ pc = "merge" /\ UNCHANGED <<mem, out, lists>>
      BY <1>4 DEF Merge, TypeInv
    <2>1. CASE pc' = "idle" /\ code' = "raised"
      BY <2>1 DEF ArchiveInv, PaperRan, Questioning
    <2>2. CASE /\ Field = SortSignal /\ LeaveConstruction
               /\ result' = [result EXCEPT !.events = Append(@, Event("assembly_incomplete"))]
      <3>1. work.field = SortPosition
        BY <1>a, <2>a, <2>2, SortPlace DEF Field
      <3>2. LinesOf(result') = LinesOf(result) + SortPosition
        BY <2>a, <2>2, LinesOfEvent
      <3> QED BY <1>b, <2>a, <2>2, <3>1, <3>2
    <2>3. CASE /\ UNCHANGED result
               /\ \/ work.field = Len(Fields) /\ pc' = "emit" /\ UNCHANGED work
                  \/ /\ work.field # Len(Fields) /\ pc' = "ask"
                     /\ work' = [work EXCEPT !.field = @ + 1]
      <3>1. /\ work'.todo = work.todo /\ work'.client = work.client
            /\ Enumerating' = Enumerating /\ Strategies' = Strategies
        BY <1>a, <2>a, <2>3 DEF WorkType, Enumerating, Strategies
      <3>2. ASSUME AtHandInv PROVE AtHandInv'
        <4>1. \A c \in Clients : Asked(c)' = Asked(c)
          <5>1. work.client = "model_a"
            BY <2>a, <3>2 DEF AtHandInv
          <5>2. CASE pc' = "emit" /\ UNCHANGED work
            BY <2>a, <5>2 DEF Asked
          <5>3. CASE pc' = "ask" /\ work' = [work EXCEPT !.field = @ + 1]
            <6>1. work'.field = work.field + 1 /\ work.field \in Int
              BY <1>a, <5>3 DEF WorkType
            <6> QED BY <2>a, <3>1, <5>1, <5>3, <6>1 DEF Asked, Clients
          <5> QED BY <2>3, <5>2, <5>3
        <4>2. /\ pc' \in {"merge", "emit"} => work'.client = "model_a"
              /\ pc' = "emit" => work'.field = Len(Fields)
          BY <2>a, <2>3, <3>1, <3>2 DEF AtHandInv
        <4> QED BY <2>a, <2>3, <3>1, <3>2, <4>1, <4>2 DEF AtHandInv
      <3> QED BY <2>a, <2>3, <3>1, <3>2 DEF ArchiveInv, PaperRan, Questioning
    <2> QED BY <1>4, <2>1, <2>2, <2>3 DEF Merge
  <1>5. CASE Emit
    <2>a. ~Enumerating /\ pc = "emit" /\ UNCHANGED <<mem, out, lists>> /\ LeaveConstruction
      BY <1>5 DEF Emit, TypeInv
    <2>1. LinesOf(result') = LinesOf(result) + Len(Fields)
      BY <1>5, <2>a, LinesOfEvent DEF Emit
    <2>2. AtHandInv => work.field = Len(Fields)
      BY <2>a DEF AtHandInv
    <2> QED BY <1>b, <2>a, <2>1, <2>2
  <1>6. CASE WriteSpec \/ WriteEvents \/ Complete
    <2>1. /\ pc \in {"write", "manifest"} /\ UNCHANGED <<result, lists>>
          /\ pc' \in {"write", "manifest", "idle"}
      BY <1>6 DEF WriteSpec, WriteEvents, Complete
    <2>2. out'.raw = out.raw
      BY <1>6 DEF WriteSpec, WriteEvents, Complete, TypeInv
    <2> QED BY <2>1, <2>2 DEF ArchiveInv, Strategies, Questioning
  <1>7. CASE EarlyExit
    <2>1. pc' = "idle" /\ UNCHANGED <<result, code>>
          /\ (code = "paper_failed" \/ result = NoResult)
      BY <1>7 DEF EarlyExit, OutputInv
    <2> QED BY <2>1 DEF ArchiveInv, PaperRan, Questioning
  <1>8. CASE \E o \in Options : Start(o.live, o.cache)
    <2>1. /\ pc' \in {"ask", "enumerated"} /\ Enumerating' /\ mem' = NoMem
          /\ out'.raw = [m \in Clients |-> 0]
      BY <1>8, NoWorkTyped DEF Start, Begin, TypeInv, Enumerating
    <2> QED BY <2>1 DEF ArchiveInv, PaperRan
  <1>9. CASE Crash
    BY <1>9 DEF Crash, ArchiveInv, PaperRan, Questioning
  <1>10. CASE \E k \in Keys : SpoilEntry(k)
    <2>1. UNCHANGED <<pc, mem, out, work, lists, result, code>>
      BY <1>10 DEF SpoilEntry
    <2> QED BY <2>1 DEF ArchiveInv, AtHandInv, Asked, PaperRan, Enumerating, Strategies
  <1> QED BY <1>1, <1>2, <1>3, <1>4, <1>5, <1>6, <1>7, <1>8, <1>9, <1>10
          DEF Next, Step, AnswerStep

LEMMA ArchiveHolds == Spec => []ArchiveInv
  <1>1. Init => ArchiveInv
    BY DEF Init, ArchiveInv, PaperRan, Questioning
  <1>2. RunInv /\ ArchiveInv /\ Next => ArchiveInv'
    BY ArchiveStep DEF RunInv
  <1>3. ArchiveInv /\ UNCHANGED vars => ArchiveInv'
    BY DEF vars, ArchiveInv, AtHandInv, Asked, PaperRan, Enumerating, Strategies
  <1> QED BY <1>1, <1>2, <1>3, RunHolds, PTL DEF Spec

\* After a paper has run over constructions with distinct names, either client's
\* raw archive has a line for each question of this run, those of an unassembled
\* construction ending with the signal it lacks, and no line of any earlier
\* invocation, dead or not (run_artefacts.py 226-231).
THEOREM ArchiveIsOneRuns == Spec => []ArchiveIsThisRuns
  <1>1. RunInv /\ ArchiveInv => ArchiveIsThisRuns
    <2> SUFFICES ASSUME RunInv, ArchiveInv, PaperRan, Distinct(Strategies), NEW c \in Clients
                 PROVE  LET cut == Cardinality(CutShort(result.events))
                        IN out.raw[c] = cut * SortPosition + (Len(Strategies) - cut) * Len(Fields)
      BY DEF ArchiveIsThisRuns
    <2>1. out.raw[c] = LinesOf(result)
      BY DEF ArchiveInv
    <2>2. Len(result.specs) + Len(result.events) = Len(Strategies)
      BY DEF RunInv, OutcomeInv
    <2>3. LinesOf(result) =
              Cardinality(CutShort(result.events)) * SortPosition
                  + ((Len(result.specs) + Len(result.events))
                         - Cardinality(CutShort(result.events))) * Len(Fields)
      BY DEF LinesOf
    <2>4. LinesOf(result) =
              Cardinality(CutShort(result.events)) * SortPosition
                  + (Len(Strategies) - Cardinality(CutShort(result.events))) * Len(Fields)
      BY ONLY <2>2, <2>3, Zenon
    <2> QED BY <2>1, <2>4
  <1> QED BY <1>1, RunHolds, ArchiveHolds, PTL

=============================================================================
