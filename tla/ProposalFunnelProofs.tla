------------------------- MODULE ProposalFunnelProofs -------------------------
(***************************************************************************)
(* What holds of any number of funnels that share a cache, of any arms,     *)
(* seeds, answers, caps, failures, deaths and clearings: a reported arm's   *)
(* answers are logged before it is selected from, no arm is dropped from a  *)
(* report without a cause outside, and what the one-shot holdout evaluates  *)
(* is what a funnel advanced.                                               *)
(***************************************************************************)
EXTENDS ProposalFunnel, FiniteSetTheorems, SequenceTheorems, TLAPS

-------------------------------------------------------------------------------
(* The inductive invariants.                                                *)

Files == Funnels \cup {Earlier}
Texts == (UNION {Responses[c] : c \in Calls}) \cup {<<>>}
Contents == [whole : BOOLEAN, text : Texts]
Putting == {"put", "open", "write", "rename"}
Cleared == <<"cleared", None>> \in faults

StateInv ==
    /\ entry \in [Keys -> Files \cup {None}] /\ temp \in [Keys -> Files \cup {None}]
    /\ content \in [Keys -> [Files -> Contents]]
    /\ pc \in [Funnels -> Ends \cup Putting \cup {"generate", "report"}]
    /\ at \in [Funnels -> Nat \ {0}]
    /\ allowed \in [Funnels -> SUBSET Keys]
    /\ hand \in [Funnels -> Texts] /\ fd \in [Funnels -> Files \cup {None}]
    /\ used \in [Funnels -> [Calls -> Contents]]
    /\ errors \in [Funnels -> SUBSET Models]
    /\ answers \in [Calls -> [Files -> Contents]]
    /\ \A p \in Funnels : /\ pc[p] \in Putting => at[p] <= Slots
                          /\ pc[p] \in {"write", "rename"} => fd[p] # None
                          /\ pc[p] \in {"report", "done"} => at[p] > Slots

\* What may still be bought was not, was planned, and with it the purchases stay
\* within the cap.
MayBuy(p, m) == {s \in Seeds : <<m, s>> \in allowed[p] \/ p \in Buyers(<<m, s>>)}
BuysOnce(p) ==
    /\ pc[p] = "idle" => \A c \in Calls : p \notin Buyers(c)
    /\ \A c \in allowed[p] : p \notin Buyers(c)
WithinPlan(p) ==
    /\ \A c \in Calls : c \in allowed[p] \/ p \in Buyers(c) => c \in plan[p].calls
    /\ plan[p].cap \in Nat
    /\ \A m \in Models : Cardinality(MayBuy(p, m)) <= plan[p].cap
BuyInv == DOMAIN plan = Funnels /\ \A p \in Funnels : BuysOnce(p) /\ WithinPlan(p)

\* A file that can be read holds an answer, and an entry can be read.
HoldsAnswers(c) ==
    /\ \A f \in Files : content[c][f].whole =>
           \E q \in Buyers(c) : content[c][f] = answers[c][q]
    /\ entry[c] # None => content[c][entry[c]].whole \/ BoughtTwice(c)
CacheInv == \A c \in Calls : HoldsAnswers(c)

\* An exchange with the cache is undisturbed but by a second buyer or a clearing.
Undisturbed(p, c) ==
    /\ entry[c] = None
    /\ pc[p] = "write" => content[c][fd[p]] = Empty
    /\ pc[p] = "rename" => content[c][fd[p]] = Whole(hand[p])
    /\ pc[p] \in {"write", "rename"} => temp[c] = fd[p] \/ (temp[c] = None /\ Cleared)
PutsItsOwn(p, c) ==
    /\ answers[c][p] = Whole(hand[p])
    /\ BoughtTwice(c) \/ Undisturbed(p, c)
PutInv ==
    \A p \in Funnels, c \in Calls : pc[p] \in Putting /\ c = CallOf(p) => PutsItsOwn(p, c)

\* What a funnel generates from was answered to its call, and is in the cache.
Logged(p, c) ==
    /\ \E q \in Buyers(c) : used[p][c] = answers[c][q]
    /\ \/ BoughtTwice(c) \/ Cleared
       \/ entry[c] # None /\ content[c][entry[c]] = used[p][c]
UsedInv ==
    \A p \in Funnels : \A i \in 1 .. Slots :
        i < at[p] /\ Arm(i) \notin errors[p] => Logged(p, <<Arm(i), Seed(i)>>)

\* Why an arm may be missing from a report.
Excused(p, m) ==
    \/ <<"vendor", p>> \in faults
    \/ \E s \in Seeds : BoughtTwice(<<m, s>>) \/ (Cleared /\ p \in Buyers(<<m, s>>))
ErrorInv == \A p \in Funnels : \A m \in errors[p] : Excused(p, m)

\* The artefact lists what a finished funnel advanced, and the real run has
\* evaluated it.
Chosen(p, m) == DOMAIN Advanced(Batch(used[p][<<m, 0>>].text))
ReportOf(p) == [m \in Models \ errors[p] |-> Chosen(p, m)]
WholeReport(p) == pc[p] = "done" /\ artefact.by = p /\ artefact.advanced = ReportOf(p)
AdvancedBy(p) ==
    [m \in {x \in DOMAIN Reports(p) : DOMAIN Reports(p)[x] # {}} |-> Reports(p)[m]]
EvaluatedBy(p) ==
    /\ pc[p] = "done" /\ real.by = p /\ DOMAIN real.survivors \subseteq Models
    /\ (\A m \in DOMAIN real.survivors : ~BoughtTwice(<<m, 0>>))
           => real.survivors = AdvancedBy(p)
ArtefactInv ==
    /\ artefact.whole => \E p \in Funnels : WholeReport(p)
    /\ real.stage = "evaluated" => \E p \in Funnels : EvaluatedBy(p)

-------------------------------------------------------------------------------
(* Keys and calls, and the arithmetic of the loops.                         *)

LEMMA KeysAreCalls ==
    /\ Keys = Calls
    /\ \A m, s : Key(m, s) = <<m, s>>
    /\ \A p : KeyOf(p) = CallOf(p)
  <1>1. \A c \in Calls : Key(c[1], c[2]) = c
    BY DEF Calls, Key
  <1> QED BY <1>1 DEF Keys, Key, KeyOf, CallOf

LEMMA DivMod ==
    ASSUME NEW n \in Nat, NEW b \in Nat \ {0}
    PROVE  /\ n \div b \in Nat /\ n % b \in 0 .. b - 1
           /\ n = b * (n \div b) + (n % b)
  OBVIOUS

LEMMA DivModInverse ==
    ASSUME NEW q \in Nat, NEW b \in Nat \ {0}, NEW r \in 0 .. b - 1
    PROVE  (q * b + r) \div b = q /\ (q * b + r) % b = r
  OBVIOUS

LEMMA Times ==
    \A x, y, z \in Nat : /\ x < y => x * z + z <= y * z
                         /\ x * z \in Nat /\ x * z = z * x
                         /\ (x + 1) * z = x * z + z
  <1> TAKE x, y, z \in Nat
  <1>1. x < y => x * z + z <= y * z
    <2> HAVE x < y
    <2>1. \A d \in Nat : (x + 1 + d) * z = x * z + z + d * z /\ d * z \in Nat
      OBVIOUS
    <2>2. y - x - 1 \in Nat /\ y = x + 1 + (y - x - 1)
      OBVIOUS
    <2>3. x * z \in Nat
      OBVIOUS
    <2> QED BY <2>1, <2>2, <2>3
  <1> QED BY <1>1

LEMMA Sizes == /\ K \in Nat \ {0} /\ Len(Arms) \in Nat /\ DOMAIN Arms = 1 .. Len(Arms)
               /\ Slots \in Nat
  BY FunnelAssumption DEF Slots

\* Every position of the loops is a call.
LEMMA SlotIsCall ==
    ASSUME NEW i \in 1 .. Slots
    PROVE  <<Arm(i), Seed(i)>> \in Calls /\ Arm(i) \in Models /\ Seed(i) \in Seeds
  <1> DEFINE n == i - 1
             a == Len(Arms)
             q == n \div K
  <1>1. n \in Nat /\ a \in Nat /\ n < a * K
    BY Sizes DEF Slots
  <1>2. q \in Nat /\ n % K \in 0 .. K - 1 /\ n = K * q + (n % K)
    BY <1>1, Sizes, DivMod
  <1> HIDE DEF n, q, a
  <1>3. q < a
    <2>1. q * K <= n
      <3>1. q * K = K * q /\ q * K \in Nat
        BY <1>2, Sizes, Times
      <3> HIDE DEF n
      <3> QED BY <1>1, <1>2, <3>1
    <2>2. a < q \/ a = q => a * K <= q * K
      <3>1. a < q => a * K + K <= q * K /\ a * K \in Nat /\ q * K \in Nat
        BY <1>1, <1>2, Sizes, Times
      <3>2. a = q => a * K <= q * K
        BY <1>1, Sizes, Times
      <3> QED BY <3>1, <3>2, Sizes
    <2>3. a * K \in Nat /\ q * K \in Nat
      BY <1>1, <1>2, Sizes, Times
    <2> QED BY <1>1, <1>2, <2>1, <2>2, <2>3
  <1>4. q + 1 \in DOMAIN Arms
    BY <1>1, <1>2, <1>3, Sizes DEF a
  <1>5. Arm(i) = Arms[q + 1] /\ Seed(i) = n % K
    BY DEF Arm, Seed, n, q
  <1>6. Arm(i) \in Models
    BY <1>4, <1>5 DEF Models, Range
  <1> QED BY <1>2, <1>5, <1>6 DEF Calls, Seeds

\* The loops reach every call.
LEMMA CallHasSlot ==
    ASSUME NEW m \in Models, NEW s \in Seeds
    PROVE  \E i \in 1 .. Slots : Arm(i) = m /\ Seed(i) = s
  <1>1. PICK j \in DOMAIN Arms : m = Arms[j]
    BY DEF Models, Range
  <1> DEFINE a == Len(Arms)
             q == j - 1
             n == q * K + s
  <1>2. q \in Nat /\ a \in Nat /\ q < a /\ s \in 0 .. K - 1 /\ s \in Nat /\ s < K
    BY Sizes DEF Seeds
  <1> HIDE DEF q, a
  <1>3. n \div K = q /\ n % K = s
    BY <1>2, Sizes, DivModInverse
  <1>4. q * K + K <= a * K /\ q * K \in Nat /\ a * K \in Nat
    BY <1>2, Sizes, Times
  <1>5. n \in Nat /\ n < a * K
    BY <1>2, <1>4, Sizes
  <1> HIDE DEF n
  <1>6. n + 1 \in 1 .. Slots /\ (n + 1) - 1 = n
    BY <1>5, Sizes DEF Slots, a
  <1>7. Arm(n + 1) = Arms[q + 1] /\ Seed(n + 1) = s
    BY <1>3, <1>6 DEF Arm, Seed
  <1>8. q + 1 = j
    BY Sizes DEF q
  <1> QED BY <1>1, <1>6, <1>7, <1>8

\* What is passed over after a failure is of the arm that failed.
LEMMA SameArm ==
    ASSUME NEW i \in 1 .. Slots
    PROVE  /\ NextArm(i) \in Nat \ {0}
           /\ \A j \in Nat : i <= j /\ j < NextArm(i) => Arm(j) = Arm(i)
  <1> DEFINE n == i - 1
             q == n \div K
  <1>1. n \in Nat /\ q \in Nat /\ n % K \in 0 .. K - 1 /\ n = K * q + (n % K)
    BY Sizes, DivMod
  <1>2. K * q = q * K /\ q * K \in Nat /\ (q + 1) * K = q * K + K
    BY <1>1, Sizes, Times
  <1>3. NextArm(i) = (q + 1) * K + 1
    BY DEF NextArm
  <1> HIDE DEF n, q
  <1>4. NextArm(i) \in Nat \ {0}
    BY <1>2, <1>3, Sizes
  <1>5. ASSUME NEW j \in Nat, i <= j, j < NextArm(i)
        PROVE  Arm(j) = Arm(i)
    <2> DEFINE r == (j - 1) - q * K
    <2>1. n <= j - 1 /\ j - 1 \in Nat /\ j - 1 < q * K + K
      <3>1. n <= j - 1 /\ j - 1 \in Nat
        BY <1>5 DEF n
      <3>2. j < q * K + K + 1
        BY <1>2, <1>3, <1>5
      <3> QED BY <1>2, <3>1, <3>2, Sizes
    <2>2. q * K <= n
      BY <1>1, <1>2
    <2>3. r \in 0 .. K - 1 /\ j - 1 = q * K + r
      BY <1>1, <1>2, <2>1, <2>2, Sizes
    <2> HIDE DEF r
    <2>4. (j - 1) \div K = q
      <3>1. q \in Nat /\ K \in Nat \ {0} /\ r \in 0 .. K - 1
        BY <1>1, <2>3, Sizes
      <3>2. (q * K + r) \div K = q
        BY ONLY <3>1, DivModInverse
      <3> QED BY ONLY <2>3, <3>2
    <2> QED BY <2>4 DEF Arm, n, q
  <1> QED BY <1>4, <1>5

-------------------------------------------------------------------------------
(* What a step does to the funnel that takes it, and to the others.         *)

Takes(p, x) ==
    /\ pc'[p] = "generate" /\ at'[p] = at[p] + 1 /\ errors'[p] = errors[p]
    /\ used'[p] = [used[p] EXCEPT ![CallOf(p)] = x]
    /\ fd'[p] = None /\ hand'[p] = <<>>

Drops(p) ==
    /\ pc'[p] = "generate" /\ at'[p] = NextArm(at[p])
    /\ errors'[p] = errors[p] \cup {Arm(at[p])} /\ used'[p] = used[p]
    /\ fd'[p] = None /\ hand'[p] = <<>>

Alone(p) ==
    \A q \in Funnels \ {p} :
        /\ pc'[q] = pc[q] /\ at'[q] = at[q] /\ allowed'[q] = allowed[q]
        /\ hand'[q] = hand[q] /\ fd'[q] = fd[q]
        /\ used'[q] = used[q] /\ errors'[q] = errors[q]

Domains ==
    /\ DOMAIN pc = Funnels /\ DOMAIN at = Funnels /\ DOMAIN allowed = Funnels
    /\ DOMAIN hand = Funnels /\ DOMAIN fd = Funnels
    /\ DOMAIN used = Funnels /\ DOMAIN errors = Funnels

LEMMA HaveDomains == ASSUME StateInv PROVE Domains
  BY DEF StateInv, Domains

LEMMA UseTakes ==
    ASSUME Domains, NEW p \in Funnels, NEW r, Use(p, r), UNCHANGED errors
    PROVE  Takes(p, Whole(r))
  <1> DEFINE c == CallOf(p)
  <1>1. used' = [used EXCEPT ![p][c] = Whole(r)]
    BY DEF Use
  <1> HIDE DEF c
  <1>2. used'[p] = [used[p] EXCEPT ![c] = Whole(r)]
    BY <1>1 DEF Domains
  <1> QED BY <1>2 DEF Use, Forget, Takes, Domains, c

LEMMA DropDrops ==
    ASSUME Domains, NEW p \in Funnels, DropArm(p), UNCHANGED used
    PROVE  Drops(p)
  BY DEF Domains, DropArm, Forget, Drops

LEMMA Frame ==
    ASSUME Domains, NEW p \in Funnels, Funnel(p)
    PROVE  Alone(p)
  <1> USE DEF Domains, Alone
  <1>1. ASSUME NEW r, Use(p, r)
        PROVE  \A q \in Funnels \ {p} : /\ hand'[q] = hand[q] /\ fd'[q] = fd[q]
                                        /\ used'[q] = used[q] /\ at'[q] = at[q]
                                        /\ pc'[q] = pc[q]
    BY <1>1 DEF Use, Forget
  <1>2. ASSUME DropArm(p)
        PROVE  \A q \in Funnels \ {p} : /\ hand'[q] = hand[q] /\ fd'[q] = fd[q]
                                        /\ errors'[q] = errors[q] /\ at'[q] = at[q]
                                        /\ pc'[q] = pc[q]
    BY <1>2 DEF DropArm, Forget
  <1>3. CASE Start(p)
    BY <1>3 DEF Start
  <1>4. CASE GetHit(p)
    BY <1>1, <1>2, <1>4 DEF GetHit
  <1>5. CASE UnplannedCallRefused(p)
    BY <1>5 DEF UnplannedCallRefused
  <1>6. CASE AskVendor(p)
    BY <1>2, <1>6 DEF AskVendor
  <1>7. CASE PutCheck(p)
    BY <1>1, <1>7 DEF PutCheck
  <1>8. CASE PutOpen(p)
    BY <1>8 DEF PutOpen
  <1>9. CASE PutWrite(p)
    BY <1>9 DEF PutWrite
  <1>10. CASE PutReplace(p)
    BY <1>1, <1>2, <1>10 DEF PutReplace
  <1>11. CASE OpenArtefact(p) \/ WriteArtefact(p)
    BY <1>11 DEF OpenArtefact, WriteArtefact
  <1>12. CASE Die(p)
    BY <1>12 DEF Die, Forget
  <1> QED BY <1>3, <1>4, <1>5, <1>6, <1>7, <1>8, <1>9, <1>10, <1>11, <1>12 DEF Funnel

-------------------------------------------------------------------------------
(* Types.                                                                   *)

PcValues == Ends \cup Putting \cup {"generate", "report"}
CacheTyped ==
    /\ entry \in [Calls -> Files \cup {None}] /\ temp \in [Calls -> Files \cup {None}]
    /\ content \in [Calls -> [Files -> Contents]]
FunnelTyped ==
    /\ pc \in [Funnels -> PcValues] /\ at \in [Funnels -> Nat \ {0}]
    /\ allowed \in [Funnels -> SUBSET Calls]
    /\ hand \in [Funnels -> Texts] /\ fd \in [Funnels -> Files \cup {None}]
    /\ used \in [Funnels -> [Calls -> Contents]] /\ errors \in [Funnels -> SUBSET Models]
AnswersTyped == answers \in [Calls -> [Files -> Contents]]
Placed ==
    \A p \in Funnels : /\ pc[p] \in Putting => at[p] <= Slots
                       /\ pc[p] \in {"write", "rename"} => fd[p] # None
                       /\ pc[p] \in {"report", "done"} => at[p] > Slots

LEMMA StateParts == StateInv <=> CacheTyped /\ FunnelTyped /\ AnswersTyped /\ Placed
  BY KeysAreCalls DEF StateInv, CacheTyped, FunnelTyped, AnswersTyped, Placed, PcValues

LEMMA Basics ==
    /\ <<>> \in Texts /\ Empty \in Contents /\ Empty.whole = FALSE
    /\ \A r \in Texts : Whole(r) \in Contents /\ Whole(r).whole = TRUE /\ Whole(r).text = r
                        /\ Whole(r) # Empty
    /\ \A x \in Contents : x.text \in Texts /\ (x.whole => Whole(x.text) = x)
    /\ \A c \in Calls : Responses[c] \subseteq Texts
    /\ None \notin Files /\ Funnels \subseteq Files /\ Earlier \in Files /\ Earlier \notin Funnels
  <1>1. <<>> \in Texts /\ Empty \in Contents /\ Empty.whole = FALSE
    <2>1. <<>> \in Texts
      BY DEF Texts
    <2> QED BY <2>1 DEF Empty, Contents
  <1>2. \A r \in Texts : Whole(r) \in Contents /\ Whole(r).whole = TRUE /\ Whole(r).text = r
                         /\ Whole(r) # Empty
    BY DEF Whole, Contents, Empty
  <1>3. \A x \in Contents : x.text \in Texts /\ (x.whole => Whole(x.text) = x)
    BY DEF Contents, Whole
  <1>4. \A c \in Calls : Responses[c] \subseteq Texts
    BY DEF Texts
  <1>5. None \notin Files /\ Funnels \subseteq Files /\ Earlier \in Files /\ Earlier \notin Funnels
    BY FunnelAssumption DEF Files
  <1> QED BY <1>1, <1>2, <1>3, <1>4, <1>5

LEMMA AtCall ==
    ASSUME StateInv, NEW p \in Funnels, at[p] <= Slots
    PROVE  /\ CallOf(p) \in Calls /\ at[p] \in 1 .. Slots
           /\ CallOf(p) = <<Arm(at[p]), Seed(at[p])>>
           /\ Arm(at[p]) \in Models /\ Seed(at[p]) \in Seeds
  <1>1. at[p] \in 1 .. Slots
    BY Sizes DEF StateInv
  <1> QED BY <1>1, SlotIsCall DEF CallOf

LEMMA UseTyped ==
    ASSUME StateInv, NEW p \in Funnels, at[p] <= Slots, NEW r \in Texts, Use(p, r),
           UNCHANGED <<allowed, errors>>
    PROVE  FunnelTyped' /\ Placed'
  <1> DEFINE c == CallOf(p)
  <1>1. c \in Calls
    BY AtCall
  <1> HIDE DEF c
  <1>2. used' = [used EXCEPT ![p][c] = Whole(r)]
    BY DEF Use, c
  <1>3. used' \in [Funnels -> [Calls -> Contents]]
    <2>1. [used[p] EXCEPT ![c] = Whole(r)] \in [Calls -> Contents]
      BY <1>1, Basics DEF StateInv
    <2> QED BY <1>2, <2>1 DEF StateInv
  <1>4. hand' \in [Funnels -> Texts] /\ fd' \in [Funnels -> Files \cup {None}]
    BY Basics DEF Use, Forget, StateInv
  <1>5. at' \in [Funnels -> Nat \ {0}]
    <2>1. at[p] + 1 \in Nat \ {0}
      BY DEF StateInv
    <2> QED BY <2>1 DEF Use, StateInv
  <1>6. pc' \in [Funnels -> PcValues] /\ pc'[p] = "generate"
    BY DEF Use, StateInv, PcValues
  <1>7. Placed'
    BY <1>6 DEF Use, Forget, StateInv, Placed, Putting
  <1> QED BY <1>3, <1>4, <1>5, <1>6, <1>7, StateParts DEF FunnelTyped

LEMMA DropTyped ==
    ASSUME StateInv, NEW p \in Funnels, at[p] <= Slots, DropArm(p), UNCHANGED used,
           allowed' \in [Funnels -> SUBSET Calls]
    PROVE  FunnelTyped' /\ Placed'
  <1>1. NextArm(at[p]) \in Nat \ {0} /\ Arm(at[p]) \in Models
    BY AtCall, SameArm
  <1>2. hand' \in [Funnels -> Texts] /\ fd' \in [Funnels -> Files \cup {None}]
    BY Basics DEF DropArm, Forget, StateInv
  <1>3. at' \in [Funnels -> Nat \ {0}]
    BY <1>1 DEF DropArm, StateInv
  <1>4. errors' \in [Funnels -> SUBSET Models]
    BY <1>1 DEF DropArm, StateInv
  <1>5. pc' \in [Funnels -> PcValues] /\ pc'[p] = "generate"
    BY DEF DropArm, StateInv, PcValues
  <1>6. Placed'
    BY <1>5 DEF DropArm, Forget, StateInv, Placed, Putting
  <1> QED BY <1>2, <1>3, <1>4, <1>5, <1>6, StateParts DEF FunnelTyped

LEMMA StateStep ==
    ASSUME StateInv, Next
    PROVE  StateInv'
  <1> USE DEF cacheVars, funnelVars, holdoutVars
  <1>a. CacheTyped /\ FunnelTyped /\ AnswersTyped /\ Placed
    BY StateParts
  <1> SUFFICES CacheTyped' /\ FunnelTyped' /\ AnswersTyped' /\ Placed'
    BY KeysAreCalls DEF StateInv, CacheTyped, FunnelTyped, AnswersTyped, Placed, PcValues
  <1>c. UNCHANGED cacheVars => CacheTyped'
    BY <1>a DEF CacheTyped
  <1>f. UNCHANGED funnelVars => FunnelTyped' /\ Placed'
    BY <1>a DEF FunnelTyped, Placed
  <1>w. UNCHANGED answers => AnswersTyped'
    BY <1>a DEF AnswersTyped
  <1>1. ASSUME NEW p \in Funnels, Start(p)
        PROVE  FunnelTyped' /\ Placed'
    <2>1. Misses \subseteq Calls
      BY KeysAreCalls DEF Misses
    <2> USE <1>1, <1>a DEF Start
    <2>2. allowed' \in [Funnels -> SUBSET Calls]
      BY <2>1 DEF FunnelTyped
    <2>3. pc' \in [Funnels -> PcValues]
          /\ \A q \in Funnels : pc'[q] \in {pc[q], "refused", "generate"}
      BY DEF FunnelTyped, PcValues, Ends
    <2>4. FunnelTyped'
      BY <2>2, <2>3 DEF FunnelTyped
    <2> QED BY <2>3, <2>4 DEF Placed, Putting
  <1>2. ASSUME NEW p \in Funnels, GetHit(p)
        PROVE  FunnelTyped' /\ Placed'
    <2> DEFINE c == CallOf(p)
    <2>1. c \in Calls /\ KeyOf(p) = c /\ at[p] <= Slots /\ entry[c] # None
      BY <1>2, AtCall, KeysAreCalls DEF GetHit
    <2> HIDE DEF c
    <2>2. Text(c) \in Texts
      BY <1>a, <2>1, Basics DEF CacheTyped, Text
    <2>3. CASE Use(p, Text(c)) /\ UNCHANGED errors
      BY <1>2, <2>1, <2>2, <2>3, UseTyped DEF GetHit
    <2>4. CASE DropArm(p) /\ UNCHANGED used
      <3>1. allowed' \in [Funnels -> SUBSET Calls]
        BY <1>2, <1>a DEF GetHit, FunnelTyped
      <3> QED BY <2>1, <2>4, <3>1, DropTyped
    <2> QED BY <1>2, <2>1, <2>3, <2>4 DEF GetHit
  <1>3. ASSUME NEW p \in Funnels, UnplannedCallRefused(p)
        PROVE  FunnelTyped' /\ Placed'
    <2>1. pc' \in [Funnels -> PcValues]
          /\ \A q \in Funnels : pc'[q] \in {pc[q], "halted"}
      BY <1>3, <1>a DEF UnplannedCallRefused, FunnelTyped, PcValues, Ends
    <2> QED BY <1>3, <1>a, <2>1 DEF UnplannedCallRefused, FunnelTyped, Placed, Putting
  <1>4. ASSUME NEW p \in Funnels, AskVendor(p)
        PROVE  FunnelTyped' /\ Placed' /\ AnswersTyped'
    <2> DEFINE c == CallOf(p)
    <2>1. c \in Calls /\ KeyOf(p) = c /\ at[p] <= Slots
      BY <1>4, AtCall, KeysAreCalls DEF AskVendor
    <2> HIDE DEF c
    <2>2. allowed' = [allowed EXCEPT ![p] = @ \ {c}]
      BY <1>4, <2>1 DEF AskVendor
    <2>3. allowed' \in [Funnels -> SUBSET Calls]
      BY <1>a, <2>2 DEF FunnelTyped
    <2>4. ASSUME NEW r \in Responses[c], hand' = [hand EXCEPT ![p] = r],
                 pc' = [pc EXCEPT ![p] = "put"],
                 answers' = [answers EXCEPT ![c][p] = Whole(r)],
                 UNCHANGED <<at, fd, errors>>
          PROVE  FunnelTyped' /\ Placed' /\ AnswersTyped'
      <3>1. r \in Texts /\ Whole(r) \in Contents /\ p \in Files
        BY <2>1, Basics
      <3>2. AnswersTyped'
        <4>1. [answers[c] EXCEPT ![p] = Whole(r)] \in [Files -> Contents]
          BY <1>a, <2>1, <3>1 DEF AnswersTyped
        <4> QED BY <1>a, <2>1, <2>4, <4>1 DEF AnswersTyped
      <3>3. hand' \in [Funnels -> Texts]
        BY <1>a, <2>4, <3>1 DEF FunnelTyped
      <3>4. pc' \in [Funnels -> PcValues]
            /\ \A q \in Funnels : pc'[q] = pc[q] \/ (pc'[q] = "put" /\ q = p)
        BY <1>a, <2>4 DEF FunnelTyped, PcValues, Putting
      <3>5. FunnelTyped'
        BY <1>4, <1>a, <2>3, <2>4, <3>3, <3>4 DEF AskVendor, FunnelTyped
      <3> QED BY <1>a, <2>1, <2>4, <3>2, <3>4, <3>5 DEF Placed
    <2>5. CASE DropArm(p) /\ UNCHANGED answers
      BY <1>4, <1>w, <2>1, <2>3, <2>5, DropTyped DEF AskVendor
    <2> QED BY <1>4, <2>4, <2>5 DEF AskVendor, c
  <1>5. ASSUME NEW p \in Funnels, PutCheck(p)
        PROVE  FunnelTyped' /\ Placed'
    <2>1. at[p] <= Slots /\ hand[p] \in Texts
      BY <1>5, <1>a DEF PutCheck, Placed, FunnelTyped, Putting
    <2>2. CASE Use(p, hand[p])
      BY <1>5, <2>1, <2>2, UseTyped DEF PutCheck
    <2>3. CASE pc' = [pc EXCEPT ![p] = "open"] /\ UNCHANGED <<used, at, hand, fd>>
      <3>1. pc' \in [Funnels -> PcValues]
            /\ \A q \in Funnels : pc'[q] = pc[q] \/ (pc'[q] = "open" /\ q = p)
        BY <1>a, <2>3 DEF FunnelTyped, PcValues, Putting
      <3> QED BY <1>5, <1>a, <2>1, <2>3, <3>1 DEF PutCheck, FunnelTyped, Placed
    <2> QED BY <1>5, <2>2, <2>3 DEF PutCheck
  <1>6. ASSUME NEW p \in Funnels, PutOpen(p)
        PROVE  CacheTyped' /\ FunnelTyped' /\ Placed'
    <2> DEFINE c == CallOf(p)
               file == IF temp[c] = None THEN p ELSE temp[c]
    <2>1. c \in Calls /\ KeyOf(p) = c /\ at[p] <= Slots
      BY <1>6, <1>a, AtCall, KeysAreCalls DEF PutOpen, Placed, Putting
    <2> HIDE DEF c
    <2>2. file \in Files /\ file # None
      BY <1>a, <2>1, Basics DEF CacheTyped
    <2>3. /\ temp' = [temp EXCEPT ![c] = file]
          /\ content' = [content EXCEPT ![c][file] = Empty]
          /\ fd' = [fd EXCEPT ![p] = file] /\ pc' = [pc EXCEPT ![p] = "write"]
          /\ UNCHANGED <<entry, at, allowed, hand, used, errors>>
      BY <1>6, <2>1 DEF PutOpen
    <2> HIDE DEF file
    <2>4. CacheTyped'
      <3>1. [content[c] EXCEPT ![file] = Empty] \in [Files -> Contents]
        BY <1>a, <2>1, <2>2, Basics DEF CacheTyped
      <3>2. content' \in [Calls -> [Files -> Contents]]
        BY <1>a, <2>1, <2>3, <3>1 DEF CacheTyped
      <3> QED BY <1>a, <2>1, <2>2, <2>3, <3>2 DEF CacheTyped
    <2>5. pc' \in [Funnels -> PcValues]
          /\ \A q \in Funnels : pc'[q] = pc[q] \/ (pc'[q] = "write" /\ q = p)
      BY <1>a, <2>3 DEF FunnelTyped, PcValues, Putting
    <2>6. FunnelTyped'
      BY <1>a, <2>2, <2>3, <2>5 DEF FunnelTyped
    <2>7. \A q \in Funnels : fd'[q] = IF q = p THEN file ELSE fd[q]
      BY <1>a, <2>3 DEF FunnelTyped
    <2> QED BY <1>a, <2>1, <2>2, <2>3, <2>4, <2>5, <2>6, <2>7 DEF Placed
  <1>7. ASSUME NEW p \in Funnels, PutWrite(p)
        PROVE  CacheTyped' /\ FunnelTyped' /\ Placed'
    <2> DEFINE c == CallOf(p)
               f == fd[p]
    <2>1. c \in Calls /\ KeyOf(p) = c /\ at[p] <= Slots /\ f \in Files /\ hand[p] \in Texts
      BY <1>7, <1>a, AtCall, KeysAreCalls DEF PutWrite, Placed, Putting, FunnelTyped
    <2> PICK file \in Written(content[c][f], Whole(hand[p])) :
            content' = [content EXCEPT ![c][f] = file]
      BY <1>7, <2>1 DEF PutWrite
    <2>2. file \in Contents
      BY <2>1, Basics DEF Written
    <2> HIDE DEF c, f
    <2>3. CacheTyped'
      <3>1. [content[c] EXCEPT ![f] = file] \in [Files -> Contents]
        BY <1>a, <2>1, <2>2 DEF CacheTyped
      <3>2. content' \in [Calls -> [Files -> Contents]]
        BY <1>a, <2>1, <3>1 DEF CacheTyped
      <3> QED BY <1>7, <1>a, <3>2 DEF CacheTyped, PutWrite
    <2>4. pc' \in [Funnels -> PcValues]
          /\ \A q \in Funnels : pc'[q] = pc[q] \/ (pc'[q] = "rename" /\ pc[q] = "write")
      BY <1>7, <1>a DEF FunnelTyped, PcValues, Putting, PutWrite
    <2> QED BY <1>7, <1>a, <2>3, <2>4 DEF PutWrite, FunnelTyped, Placed, Putting
  <1>8. ASSUME NEW p \in Funnels, PutReplace(p)
        PROVE  CacheTyped' /\ FunnelTyped' /\ Placed'
    <2> DEFINE c == CallOf(p)
    <2>1. c \in Calls /\ KeyOf(p) = c /\ at[p] <= Slots /\ hand[p] \in Texts
      BY <1>8, <1>a, AtCall, KeysAreCalls DEF PutReplace, Placed, Putting, FunnelTyped
    <2> HIDE DEF c
    <2>2. CASE DropArm(p) /\ UNCHANGED <<entry, temp, used>>
      <3>1. allowed' \in [Funnels -> SUBSET Calls] /\ CacheTyped'
        BY <1>8, <1>a, <2>2 DEF PutReplace, FunnelTyped, CacheTyped
      <3> QED BY <2>1, <2>2, <3>1, DropTyped
    <2>3. CASE /\ entry' = [entry EXCEPT ![c] = temp[c]]
               /\ temp' = [temp EXCEPT ![c] = None]
               /\ Use(p, hand[p]) /\ UNCHANGED errors
      <3>1. CacheTyped'
        BY <1>8, <1>a, <2>1, <2>3 DEF PutReplace, CacheTyped
      <3> QED BY <1>8, <2>1, <2>3, <3>1, UseTyped DEF PutReplace
    <2> QED BY <1>8, <2>1, <2>2, <2>3 DEF PutReplace
  <1>9. ASSUME NEW p \in Funnels, OpenArtefact(p) \/ WriteArtefact(p)
        PROVE  FunnelTyped' /\ Placed'
    <2>1. pc' \in [Funnels -> PcValues]
          /\ \A q \in Funnels :
                 pc'[q] = pc[q] \/ (q = p /\ pc'[q] \in {"report", "done"} /\ at[p] > Slots)
      BY <1>9, <1>a DEF FunnelTyped, PcValues, Ends, OpenArtefact, WriteArtefact, Placed
    <2>2. UNCHANGED <<at, allowed, hand, fd, used, errors>>
      BY <1>9 DEF OpenArtefact, WriteArtefact
    <2> QED BY <1>a, <2>1, <2>2 DEF FunnelTyped, Placed, Putting
  <1>10. ASSUME NEW p \in Funnels, Die(p)
         PROVE  FunnelTyped' /\ Placed'
    <2> USE <1>10, <1>a DEF Die, FunnelTyped
    <2>1. pc' \in [Funnels -> PcValues]
          /\ \A q \in Funnels : (pc'[q] = pc[q] /\ q # p) \/ pc'[q] = "dead"
      BY DEF PcValues, Ends
    <2>2. [d \in Calls |-> Empty] \in [Calls -> Contents]
      BY Basics
    <2>3. used' \in [Funnels -> [Calls -> Contents]]
      BY <2>2
    <2>4. hand' \in [Funnels -> Texts] /\ fd' \in [Funnels -> Files \cup {None}]
      BY Basics DEF Forget
    <2>5. FunnelTyped'
      BY <2>1, <2>3, <2>4
    <2>6. \A q \in Funnels : q # p => at'[q] = at[q] /\ fd'[q] = fd[q]
      BY DEF Forget
    <2> QED BY <2>1, <2>5, <2>6 DEF Placed, Putting
  <1>11. ASSUME NEW p \in Funnels, Funnel(p)
         PROVE  CacheTyped' /\ FunnelTyped' /\ AnswersTyped' /\ Placed'
    BY <1>1, <1>2, <1>3, <1>4, <1>5, <1>6, <1>7, <1>8, <1>9, <1>10, <1>11, <1>c, <1>w
       DEF Funnel, Start, GetHit, UnplannedCallRefused, AskVendor, PutCheck, PutOpen,
           PutWrite, PutReplace, OpenArtefact, WriteArtefact, Die
  <1>12. CASE Clear
    <2>1. CacheTyped'
      BY <1>12, <1>a, KeysAreCalls DEF Clear, CacheTyped
    <2> QED BY <1>12, <1>f, <1>w, <2>1 DEF Clear
  <1>13. CASE PinsReplay \/ PinsWrite \/ OpenHoldout \/ Derive
    BY <1>13, <1>c, <1>f, <1>w DEF PinsReplay, PinsWrite, OpenHoldout, Derive
  <1> QED BY <1>11, <1>12, <1>13 DEF Next

-------------------------------------------------------------------------------
(* Purchases.                                                               *)

LEMMA Two ==
    ASSUME NEW S, IsFiniteSet(S)
    PROVE  Cardinality(S) > 1 <=> \E p, q \in S : p # q
  <1>1. Cardinality(S) \in Nat
    BY FS_CardinalityType
  <1>2. ASSUME Cardinality(S) > 1
        PROVE  \E p, q \in S : p # q
    <2>1. S # {}
      BY <1>2, FS_EmptySet
    <2> PICK p \in S : TRUE
      BY <2>1
    <2>2. \A x \in S : x = p => Cardinality({x}) = 1
      BY FS_Singleton
    <2>3. S # {p}
      BY <1>2, <2>2
    <2> QED BY <2>3
  <1>3. ASSUME NEW p \in S, NEW q \in S, p # q
        PROVE  Cardinality(S) > 1
    <2>1. Cardinality(S) # 0
      BY FS_EmptySet
    <2>2. Cardinality(S) # 1
      BY <1>3, FS_Singleton
    <2> QED BY <1>1, <2>1, <2>2
  <1> QED BY <1>2, <1>3

Whose(a, c) == {p \in DOMAIN a[c] : a[c][p].whole}

LEMMA TwiceOf ==
    ASSUME NEW a \in [Calls -> [Files -> Contents]], NEW c \in Calls
    PROVE  Cardinality(Whose(a, c)) > 1 <=>
               \E p, q \in Files : p # q /\ a[c][p].whole /\ a[c][q].whole
  <1>1. IsFiniteSet(Files)
    BY FunnelAssumption, FS_AddElement DEF Files
  <1>2. Whose(a, c) \in SUBSET Files /\ DOMAIN a[c] = Files
    BY DEF Whose
  <1>3. IsFiniteSet(Whose(a, c))
    BY <1>1, <1>2, FS_Subset
  <1>4. \A p : p \in Whose(a, c) <=> p \in Files /\ a[c][p].whole
    BY <1>2 DEF Whose
  <1> HIDE DEF Whose
  <1> QED BY <1>3, <1>4, Two

LEMMA BuyersAre ==
    ASSUME AnswersTyped, NEW c \in Calls
    PROVE  /\ \A q : q \in Buyers(c) <=> q \in Files /\ answers[c][q].whole
           /\ BoughtTwice(c) <=>
                  \E p, q \in Files : p # q /\ answers[c][p].whole /\ answers[c][q].whole
  <1>1. Buyers(c) = Whose(answers, c)
    BY DEF Buyers, Whose
  <1>2. DOMAIN answers[c] = Files
    BY DEF AnswersTyped
  <1>3. BoughtTwice(c) <=>
            \E p, q \in Files : p # q /\ answers[c][p].whole /\ answers[c][q].whole
    BY <1>1, TwiceOf DEF BoughtTwice, AnswersTyped
  <1> QED BY <1>2, <1>3 DEF Buyers

LEMMA BuyersWillBe ==
    ASSUME AnswersTyped', NEW c \in Calls
    PROVE  /\ \A q : q \in Buyers(c)' <=> q \in Files /\ answers'[c][q].whole
           /\ BoughtTwice(c)' <=>
                  \E p, q \in Files : p # q /\ answers'[c][p].whole /\ answers'[c][q].whole
  <1>1. Buyers(c)' = Whose(answers', c)
    BY DEF Buyers, Whose
  <1>2. DOMAIN answers'[c] = Files
    BY DEF AnswersTyped
  <1>3. BoughtTwice(c)' <=>
            \E p, q \in Files : p # q /\ answers'[c][p].whole /\ answers'[c][q].whole
    BY <1>1, TwiceOf DEF BoughtTwice, AnswersTyped
  <1> QED BY <1>2, <1>3 DEF Buyers

\* The two outcomes of a call to a vendor.
Answered(p, r) ==
    /\ answers' = [answers EXCEPT ![CallOf(p)][p] = Whole(r)]
    /\ hand'[p] = r /\ pc'[p] = "put"
    /\ at'[p] = at[p] /\ errors'[p] = errors[p] /\ used'[p] = used[p]
    /\ UNCHANGED faults
Failed(p) ==
    /\ Drops(p) /\ UNCHANGED answers
    /\ faults' = faults \cup {<<"vendor", p>>}

LEMMA Asked ==
    ASSUME StateInv, NEW p \in Funnels, AskVendor(p)
    PROVE  /\ CallOf(p) \in Calls /\ CallOf(p) \in allowed[p] /\ entry[CallOf(p)] = None
           /\ pc[p] = "generate" /\ at[p] <= Slots /\ UNCHANGED cacheVars
           /\ allowed' = [allowed EXCEPT ![p] = @ \ {CallOf(p)}]
           /\ (\E r \in Texts : Answered(p, r)) \/ Failed(p)
  <1>1. CallOf(p) \in Calls /\ KeyOf(p) = CallOf(p) /\ Domains
    BY AtCall, KeysAreCalls, HaveDomains DEF AskVendor
  <1>2. ASSUME NEW r \in Responses[CallOf(p)], hand' = [hand EXCEPT ![p] = r],
               pc' = [pc EXCEPT ![p] = "put"],
               answers' = [answers EXCEPT ![CallOf(p)][p] = Whole(r)],
               UNCHANGED <<at, fd, errors, faults>>
        PROVE  \E s \in Texts : Answered(p, s)
    <2>1. r \in Texts
      BY <1>1, Basics
    <2>2. hand'[p] = r /\ pc'[p] = "put" /\ UNCHANGED used
      BY <1>1, <1>2 DEF Domains, AskVendor
    <2> QED BY <1>2, <2>1, <2>2 DEF Answered
  <1>3. ASSUME DropArm(p), UNCHANGED answers, faults' = faults \cup {<<"vendor", p>>}
        PROVE  Failed(p)
    BY <1>1, <1>3, DropDrops DEF Failed, AskVendor
  <1>4. (\E r \in Texts : Answered(p, r)) \/ Failed(p)
    BY <1>2, <1>3 DEF AskVendor
  <1> QED BY <1>1, <1>4 DEF AskVendor, cacheVars

LEMMA Quiet ==
    ASSUME StateInv, Next, \A p \in Funnels : ~AskVendor(p) /\ ~Start(p)
    PROVE  /\ UNCHANGED answers
           /\ \A p \in Funnels : allowed'[p] \subseteq allowed[p]
                                 /\ (pc'[p] = "idle" => pc[p] = "idle")
  <1> USE DEF funnelVars, holdoutVars
  <1>1. ASSUME NEW p \in Funnels, Funnel(p)
        PROVE  UNCHANGED answers /\ allowed'[p] \subseteq allowed[p]
               /\ (pc'[p] = "idle" => pc[p] = "idle")
    <2>1. Domains
      BY HaveDomains
    <2>2. UNCHANGED answers
      BY <1>1 DEF Funnel, GetHit, UnplannedCallRefused, PutCheck, PutOpen, PutWrite,
                  PutReplace, OpenArtefact, WriteArtefact, Die
    <2>3. allowed'[p] \subseteq allowed[p]
      BY <1>1, <2>1 DEF Funnel, GetHit, UnplannedCallRefused, PutCheck, PutOpen, PutWrite,
                        PutReplace, OpenArtefact, WriteArtefact, Die, Domains
    <2>4. pc'[p] # "idle"
      BY <1>1, <2>1 DEF Funnel, GetHit, UnplannedCallRefused, PutCheck, PutOpen, PutWrite,
                        PutReplace, OpenArtefact, WriteArtefact, Die, Domains, Use, DropArm
    <2> QED BY <2>2, <2>3, <2>4
  <1>2. CASE Clear \/ PinsReplay \/ PinsWrite \/ OpenHoldout \/ Derive
    BY <1>2 DEF Clear, PinsReplay, PinsWrite, OpenHoldout, Derive
  <1>3. CASE \E p \in Funnels : Funnel(p)
    <2> PICK p \in Funnels : Funnel(p)
      BY <1>3
    <2>1. Alone(p)
      BY HaveDomains, Frame
    <2> QED BY <1>1, <2>1 DEF Alone
  <1> QED BY <1>2, <1>3 DEF Next

\* A purchase is all that changes what was answered.
LEMMA Buys ==
    ASSUME StateInv, NEW q \in Funnels, AskVendor(q), NEW c \in Calls, NEW f \in Files,
           answers'[c][f] # answers[c][f]
    PROVE  f = q /\ c = CallOf(q)
  <1> DEFINE d == CallOf(q)
  <1>1. UNCHANGED answers \/ \E x : answers' = [answers EXCEPT ![d][q] = x]
    BY Asked DEF Answered, Failed
  <1>2. answers \in [Calls -> [Files -> Contents]]
    BY DEF StateInv
  <1> HIDE DEF d
  <1>3. PICK x : answers' = [answers EXCEPT ![d][q] = x]
    BY <1>1
  <1>4. c = d
    BY <1>2, <1>3
  <1>5. answers'[c] = [answers[c] EXCEPT ![q] = x]
    BY <1>2, <1>3, <1>4
  <1>6. f = q
    BY <1>2, <1>5
  <1> QED BY <1>4, <1>6 DEF d

LEMMA NewBuyer ==
    ASSUME StateInv, StateInv', NEW q \in Funnels, AskVendor(q), NEW c \in Calls, NEW f,
           f \in Buyers(c)'
    PROVE  f \in Buyers(c) \/ (f = q /\ c = CallOf(q))
  <1>0. AnswersTyped'
    BY DEF StateInv, AnswersTyped
  <1>1. f \in Files /\ answers'[c][f].whole
    BY <1>0, BuyersWillBe
  <1>2. answers'[c][f] = answers[c][f] => f \in Buyers(c)
    BY <1>1, StateParts, BuyersAre
  <1> QED BY <1>1, <1>2, Buys

LEMMA SeedsAreFinite == IsFiniteSet(Seeds)
  BY Sizes, FS_Interval DEF Seeds

\* What may be bought only shrinks, and stays within the cap.
LEMMA Fewer ==
    ASSUME NEW p \in Funnels, \A m \in Models : MayBuy(p, m)' \subseteq MayBuy(p, m),
           NEW cap \in Nat, \A m \in Models : Cardinality(MayBuy(p, m)) <= cap
    PROVE  \A m \in Models : Cardinality(MayBuy(p, m)') <= cap
  <1>3. ASSUME NEW m \in Models
        PROVE  Cardinality(MayBuy(p, m)') <= cap
    <2> DEFINE A == MayBuy(p, m)
               B == MayBuy(p, m)'
    <2>1. A \in SUBSET Seeds /\ B \in SUBSET A
      BY DEF MayBuy
    <2> HIDE DEF A, B
    <2>2. IsFiniteSet(A)
      BY <2>1, SeedsAreFinite, FS_Subset
    <2>3. IsFiniteSet(B) /\ Cardinality(B) <= Cardinality(A)
      BY <2>1, <2>2, FS_Subset
    <2>4. Cardinality(A) \in Nat /\ Cardinality(B) \in Nat
      BY <2>2, <2>3, FS_CardinalityType
    <2>5. Cardinality(A) <= cap
      BY DEF A
    <2>6. Cardinality(B) <= cap
      BY <2>3, <2>4, <2>5
    <2> QED BY <2>6 DEF B
  <1> QED BY <1>3

\* A plan is made by a start.
LEMMA PlanStays ==
    ASSUME Next, DOMAIN plan = Funnels
    PROVE  /\ DOMAIN plan' = Funnels
           /\ \A q \in Funnels : plan'[q] # plan[q] => Start(q)
  <1>1. ASSUME NEW p \in Funnels, Funnel(p), ~Start(p)
        PROVE  UNCHANGED plan
    BY <1>1 DEF Funnel, GetHit, UnplannedCallRefused, AskVendor, PutCheck, PutOpen, PutWrite,
                PutReplace, OpenArtefact, WriteArtefact, Die
  <1>2. CASE Clear \/ PinsReplay \/ PinsWrite \/ OpenHoldout \/ Derive
    BY <1>2 DEF Clear, PinsReplay, PinsWrite, OpenHoldout, Derive
  <1>3. ASSUME NEW p \in Funnels, Start(p)
        PROVE  DOMAIN plan' = Funnels /\ \A q \in Funnels : plan'[q] # plan[q] => q = p
    BY <1>3 DEF Start
  <1> QED BY <1>1, <1>2, <1>3 DEF Next

LEMMA BuyStep ==
    ASSUME StateInv, StateInv', BuyInv, Next
    PROVE  BuyInv'
  <1>d. DOMAIN plan' = Funnels
        /\ \A q \in Funnels : plan'[q] # plan[q] => Start(q)
    BY PlanStays DEF BuyInv
  <1> SUFFICES ASSUME NEW p \in Funnels
               PROVE  BuysOnce(p)' /\ WithinPlan(p)'
    BY <1>d DEF BuyInv
  <1>p. allowed'[p] \subseteq Calls /\ Domains
    BY KeysAreCalls, HaveDomains DEF StateInv
  <1>c. \A m \in Models, s \in Seeds : <<m, s>> \in Calls
    BY DEF Calls
  <1>b. BuysOnce(p) /\ WithinPlan(p) /\ DOMAIN plan = Funnels
    BY DEF BuyInv
  <1>q. ASSUME \A c \in Calls : p \in Buyers(c)' => p \in Buyers(c) \/ c \in allowed[p],
               \A c \in allowed'[p] : c \in allowed[p] /\ (p \in Buyers(c)' => p \in Buyers(c)),
               pc'[p] = "idle" => \A c \in Calls : p \notin Buyers(c)',
               plan'[p] = plan[p]
        PROVE  BuysOnce(p)' /\ WithinPlan(p)'
    <2>1. \A m \in Models : MayBuy(p, m)' \subseteq MayBuy(p, m)
      BY <1>q, <1>c DEF MayBuy
    <2>2. \A m \in Models : Cardinality(MayBuy(p, m)') <= plan[p].cap
      BY <1>b, <2>1, Fewer DEF WithinPlan
    <2>3. \A c \in allowed'[p] : p \notin Buyers(c)'
      BY <1>b, <1>q DEF BuysOnce
    <2>4. \A c \in Calls : c \in allowed'[p] \/ p \in Buyers(c)' => c \in plan[p].calls
      BY <1>b, <1>q DEF WithinPlan
    <2> QED BY <1>b, <1>q, <2>2, <2>3, <2>4 DEF BuysOnce, WithinPlan
  <1>s. ASSUME UNCHANGED answers
        PROVE  \A c : Buyers(c)' = Buyers(c)
    BY <1>s DEF Buyers
  <1>1. ASSUME NEW q \in Funnels, AskVendor(q)
        PROVE  BuysOnce(p)' /\ WithinPlan(p)'
    <2>1. Alone(q) /\ CallOf(q) \in allowed[q]
          /\ allowed' = [allowed EXCEPT ![q] = @ \ {CallOf(q)}]
      BY <1>1, <1>p, Frame, Asked DEF Funnel
    <2>2. pc'[q] # "idle"
      BY <1>1, Asked DEF Answered, Failed, Drops
    <2>3. \A c \in Calls : p \in Buyers(c)' => p \in Buyers(c) \/ (p = q /\ c = CallOf(q))
      BY <1>1, NewBuyer
    <2>4. \A c \in Calls : p \in Buyers(c)' => p \in Buyers(c) \/ c \in allowed[p]
      BY <2>1, <2>3
    <2>5. \A c \in allowed'[p] : c \in allowed[p] /\ ~(p = q /\ c = CallOf(q))
      BY <1>p, <2>1 DEF Domains
    <2>6. \A c \in allowed'[p] : c \in allowed[p] /\ (p \in Buyers(c)' => p \in Buyers(c))
      BY <1>p, <2>3, <2>5
    <2>7. pc'[p] = "idle" => \A c \in Calls : p \notin Buyers(c)'
      BY <1>b, <2>1, <2>2, <2>3 DEF Alone, BuysOnce
    <2>8. plan'[p] = plan[p]
      BY <1>1 DEF AskVendor
    <2> QED BY <1>q, <2>4, <2>6, <2>7, <2>8
  <1>2. ASSUME NEW q \in Funnels, Start(q)
        PROVE  BuysOnce(p)' /\ WithinPlan(p)'
    <2>1. pc[q] = "idle" /\ UNCHANGED answers /\ pc'[q] # "idle"
      BY <1>2, <1>p DEF Start, Domains
    <2>2. CASE p # q
      <3>1. allowed'[p] = allowed[p] /\ pc'[p] = pc[p]
        BY <1>2, <1>p, <2>2, Frame DEF Funnel, Alone
      <3>2. \A c \in Calls : p \in Buyers(c)' => p \in Buyers(c)
        BY <1>s, <2>1
      <3>3. plan'[p] = plan[p]
        BY <1>2, <1>b, <2>2 DEF Start
      <3> QED BY <1>b, <1>p, <1>q, <3>1, <3>2, <3>3 DEF BuysOnce
    <2>3. CASE p = q
      <3>1. \A c \in Calls : p \notin Buyers(c)'
        BY <1>b, <1>s, <2>1, <2>3 DEF BuysOnce
      <3>2. CASE UNCHANGED <<allowed, plan>>
        BY <1>b, <1>p, <1>q, <2>1, <2>3, <3>1, <3>2
      <3>3. CASE \E cap \in Caps :
                     /\ ~\E m \in Models : Estimate(m) > cap
                     /\ allowed' = [allowed EXCEPT ![q] = Misses]
                     /\ plan' = [plan EXCEPT ![q] = [cap |-> cap, calls |-> Misses]]
        <4> PICK cap \in Caps :
                     /\ ~\E m \in Models : Estimate(m) > cap
                     /\ allowed' = [allowed EXCEPT ![q] = Misses]
                     /\ plan' = [plan EXCEPT ![q] = [cap |-> cap, calls |-> Misses]]
          BY <3>3
        <4>0. /\ plan'[p] = [cap |-> cap, calls |-> Misses]
              /\ allowed'[p] = Misses /\ cap \in Nat
          BY <1>b, <1>p, <2>3, FunnelAssumption DEF Domains
        <4>1. ASSUME NEW m \in Models
              PROVE  Cardinality(MayBuy(p, m)') <= cap
          <5>1. MayBuy(p, m)' = {s \in Seeds : Key(m, s) \in Misses}
            BY <1>c, <3>1, <4>0, KeysAreCalls DEF MayBuy
          <5>2. Estimate(m) = Cardinality(MayBuy(p, m)')
            BY <5>1 DEF Estimate
          <5>3. MayBuy(p, m)' \in SUBSET Seeds
            BY <5>1
          <5>4. Estimate(m) \in Nat
            BY <5>2, <5>3, SeedsAreFinite, FS_Subset, FS_CardinalityType
          <5>5. ~(Estimate(m) > cap)
            OBVIOUS
          <5> HIDE DEF Estimate, MayBuy
          <5> QED BY <4>0, <5>2, <5>4, <5>5
        <4>2. BuysOnce(p)'
          BY <1>p, <2>1, <2>3, <3>1 DEF BuysOnce
        <4>3. \A c \in Calls : c \in allowed'[p] \/ p \in Buyers(c)' => c \in Misses
          BY <3>1, <4>0
        <4> QED BY <4>0, <4>1, <4>2, <4>3 DEF WithinPlan
      <3> QED BY <1>2, <3>2, <3>3 DEF Start
    <2> QED BY <2>2, <2>3
  <1>3. CASE \A q \in Funnels : ~AskVendor(q) /\ ~Start(q)
    <2>1. UNCHANGED answers /\ allowed'[p] \subseteq allowed[p]
          /\ (pc'[p] = "idle" => pc[p] = "idle")
      BY <1>3, Quiet
    <2>2. plan'[p] = plan[p]
      BY <1>3, <1>d
    <2> QED BY <1>b, <1>p, <1>q, <1>s, <2>1, <2>2 DEF BuysOnce
  <1> QED BY <1>1, <1>2, <1>3

\* What was answered stays, and with it what was bought twice.
LEMMA History ==
    ASSUME StateInv, StateInv', BuyInv, Next
    PROVE  /\ faults \subseteq faults'
           /\ \A c \in Calls, f \in Files :
                  answers[c][f].whole => answers'[c][f] = answers[c][f]
           /\ \A c \in Calls : BoughtTwice(c) => BoughtTwice(c)'
           /\ \A c \in Calls : \A q : q \in Buyers(c) => q \in Buyers(c)'
           /\ \A c \in Calls : \A x : (\E q \in Buyers(c) : x = answers[c][q])
                                  => \E q \in Buyers(c)' : x = answers'[c][q]
  <1> USE DEF funnelVars, holdoutVars
  <1>0. AnswersTyped /\ AnswersTyped'
    BY DEF StateInv, AnswersTyped
  <1>1. faults \subseteq faults'
    <2>1. ASSUME NEW p \in Funnels, Funnel(p)
          PROVE  faults \subseteq faults'
      BY <2>1 DEF Funnel, Start, GetHit, UnplannedCallRefused, AskVendor, PutCheck, PutOpen,
                  PutWrite, PutReplace, OpenArtefact, WriteArtefact, Die
    <2> QED BY <2>1 DEF Next, Clear, PinsReplay, PinsWrite, OpenHoldout, Derive
  <1>2. ASSUME NEW c \in Calls, NEW f \in Files, answers[c][f].whole
        PROVE  answers'[c][f] = answers[c][f]
    <2>1. CASE \E q \in Funnels : AskVendor(q)
      <3> PICK q \in Funnels : AskVendor(q)
        BY <2>1
      <3>1. CallOf(q) \in allowed[q]
        BY Asked
      <3>2. q \notin Buyers(CallOf(q))
        BY <3>1 DEF BuyInv, BuysOnce
      <3>3. f \in Buyers(c)
        BY <1>0, <1>2, BuyersAre
      <3> QED BY <3>2, <3>3, Buys
    <2>2. CASE \E q \in Funnels : Start(q)
      BY <2>2 DEF Start
    <2>3. CASE \A q \in Funnels : ~AskVendor(q) /\ ~Start(q)
      BY <2>3, Quiet
    <2> QED BY <2>1, <2>2, <2>3
  <1>3. ASSUME NEW c \in Calls, BoughtTwice(c)
        PROVE  BoughtTwice(c)'
    <2> PICK p \in Files, q \in Files : p # q /\ answers[c][p].whole /\ answers[c][q].whole
      BY <1>0, <1>3, BuyersAre
    <2>1. answers'[c][p].whole /\ answers'[c][q].whole
      BY <1>2
    <2> QED BY <1>0, <2>1, BuyersWillBe
  <1>4. ASSUME NEW c \in Calls, NEW q \in Buyers(c)
        PROVE  q \in Buyers(c)' /\ answers'[c][q] = answers[c][q]
    <2>1. q \in Files /\ answers[c][q].whole
      BY <1>0, BuyersAre
    <2>2. answers'[c][q] = answers[c][q]
      BY <1>2, <2>1
    <2> QED BY <1>0, <2>1, <2>2, BuyersWillBe
  <1> QED BY <1>1, <1>2, <1>3, <1>4

-------------------------------------------------------------------------------
(* The cache.                                                               *)

\* What an exchange does at its call.
Same(c) == entry'[c] = entry[c] /\ temp'[c] = temp[c] /\ content'[c] = content[c]
Stays(p) == at'[p] = at[p] /\ hand'[p] = hand[p] /\ UNCHANGED answers
Opened(p, c, f) ==
    /\ pc[p] = "open" /\ pc'[p] = "write" /\ Stays(p) /\ fd'[p] = f /\ temp'[c] = f
    /\ entry'[c] = entry[c] /\ content'[c] = [content[c] EXCEPT ![f] = Empty]
Wrote(p, c, x) ==
    /\ pc[p] = "write" /\ pc'[p] = "rename" /\ Stays(p) /\ fd'[p] = fd[p]
    /\ temp'[c] = temp[c] /\ entry'[c] = entry[c]
    /\ x \in {Empty, Whole(hand[p])} /\ (content[c][fd[p]] = Empty => x = Whole(hand[p]))
    /\ content'[c] = [content[c] EXCEPT ![fd[p]] = x]
Renamed(p, c) ==
    /\ pc[p] = "rename" /\ temp[c] # None /\ entry'[c] = temp[c] /\ temp'[c] = None
    /\ content'[c] = content[c] /\ Takes(p, Whole(hand[p])) /\ UNCHANGED answers

LEMMA Opens ==
    ASSUME StateInv, NEW p \in Funnels, PutOpen(p)
    PROVE  /\ CallOf(p) \in Calls /\ \E f \in Files : Opened(p, CallOf(p), f)
           /\ \A d \in Calls \ {CallOf(p)} : Same(d)
  <1> DEFINE c == CallOf(p)
             file == IF temp[c] = None THEN p ELSE temp[c]
  <1>1. c \in Calls /\ KeyOf(p) = c /\ Domains
    BY AtCall, KeysAreCalls, HaveDomains DEF PutOpen, StateInv, Putting
  <1>2. CacheTyped
    BY StateParts
  <1> HIDE DEF c
  <1>3. file \in Files
    BY <1>1, <1>2, Basics DEF CacheTyped
  <1>4. /\ temp' = [temp EXCEPT ![c] = file] /\ content' = [content EXCEPT ![c][file] = Empty]
        /\ fd' = [fd EXCEPT ![p] = file] /\ UNCHANGED entry
        /\ pc[p] = "open" /\ pc' = [pc EXCEPT ![p] = "write"] /\ Stays(p)
    BY <1>1 DEF PutOpen, Stays
  <1> HIDE DEF file
  <1>5. Opened(p, c, file)
    BY <1>1, <1>2, <1>4 DEF Opened, CacheTyped, Domains
  <1>6. \A d \in Calls \ {c} : Same(d)
    BY <1>2, <1>4 DEF Same, CacheTyped
  <1> QED BY <1>1, <1>3, <1>5, <1>6 DEF c

LEMMA Writes ==
    ASSUME StateInv, NEW p \in Funnels, PutWrite(p)
    PROVE  /\ CallOf(p) \in Calls /\ \E x : Wrote(p, CallOf(p), x)
           /\ \A d \in Calls \ {CallOf(p)} : Same(d)
  <1> DEFINE c == CallOf(p)
  <1>1. c \in Calls /\ KeyOf(p) = c /\ Domains
    BY AtCall, KeysAreCalls, HaveDomains DEF PutWrite, StateInv, Putting
  <1>2. CacheTyped
    BY StateParts
  <1> HIDE DEF c
  <1>3. PICK x \in Written(content[c][fd[p]], Whole(hand[p])) :
            content' = [content EXCEPT ![c][fd[p]] = x]
    BY <1>1 DEF PutWrite
  <1>4. /\ UNCHANGED <<temp, entry, fd>> /\ pc[p] = "write"
        /\ pc' = [pc EXCEPT ![p] = "rename"] /\ Stays(p)
    BY DEF PutWrite, Stays
  <1>5. x \in {Empty, Whole(hand[p])} /\ (content[c][fd[p]] = Empty => x = Whole(hand[p]))
    BY <1>3 DEF Written
  <1>6. content'[c] = [content[c] EXCEPT ![fd[p]] = x]
        /\ \A d \in Calls \ {c} : content'[d] = content[d]
    BY <1>1, <1>2, <1>3 DEF CacheTyped
  <1>7. Wrote(p, c, x)
    BY <1>1, <1>4, <1>5, <1>6 DEF Wrote, Domains
  <1>8. \A d \in Calls \ {c} : Same(d)
    BY <1>4, <1>6 DEF Same
  <1> QED BY <1>1, <1>7, <1>8 DEF c

LEMMA Replaces ==
    ASSUME StateInv, NEW p \in Funnels, PutReplace(p)
    PROVE  /\ CallOf(p) \in Calls /\ pc[p] = "rename" /\ UNCHANGED <<answers, faults>>
           /\ \/ Renamed(p, CallOf(p)) /\ \A d \in Calls \ {CallOf(p)} : Same(d)
              \/ UNCHANGED cacheVars /\ temp[CallOf(p)] = None /\ Drops(p)
  <1> DEFINE c == CallOf(p)
  <1>1. c \in Calls /\ KeyOf(p) = c /\ Domains
    BY AtCall, KeysAreCalls, HaveDomains DEF PutReplace, StateInv, Putting
  <1>2. CacheTyped
    BY StateParts
  <1> HIDE DEF c
  <1>3. CASE temp[c] = None
    BY <1>1, <1>3, DropDrops DEF PutReplace, cacheVars, c
  <1>4. CASE temp[c] # None
    <2>1. /\ entry' = [entry EXCEPT ![c] = temp[c]] /\ temp' = [temp EXCEPT ![c] = None]
          /\ UNCHANGED <<content, answers, faults>> /\ pc[p] = "rename"
          /\ Use(p, hand[p]) /\ UNCHANGED errors
      BY <1>1, <1>4 DEF PutReplace
    <2>2. Takes(p, Whole(hand[p]))
      BY <1>1, <2>1, UseTakes
    <2>3. Renamed(p, c)
      BY <1>1, <1>2, <1>4, <2>1, <2>2 DEF Renamed, CacheTyped
    <2>4. \A d \in Calls \ {c} : Same(d)
      BY <1>2, <2>1 DEF Same, CacheTyped
    <2> QED BY <1>1, <2>1, <2>3, <2>4 DEF c
  <1> QED BY <1>3, <1>4

LEMMA Aside ==
    ASSUME StateInv, NEW p \in Funnels, Funnel(p),
           ~PutOpen(p), ~PutWrite(p), ~PutReplace(p)
    PROVE  /\ UNCHANGED cacheVars
           /\ pc'[p] \in Putting =>
                  \/ AskVendor(p)
                  \/ /\ pc[p] = "put" /\ pc'[p] = "open" /\ Stays(p)
                     /\ CallOf(p) \in Calls /\ entry[CallOf(p)] = None
  <1> USE HaveDomains DEF Domains
  <1>1. CASE Start(p) \/ UnplannedCallRefused(p) \/ OpenArtefact(p) \/ WriteArtefact(p) \/ Die(p)
    BY <1>1 DEF Start, UnplannedCallRefused, OpenArtefact, WriteArtefact, Die, Putting
  <1>2. CASE GetHit(p)
    BY <1>2 DEF GetHit, Use, DropArm, Putting
  <1>3. CASE AskVendor(p)
    BY <1>3 DEF AskVendor
  <1>4. CASE PutCheck(p)
    <2>1. CallOf(p) \in Calls /\ KeyOf(p) = CallOf(p) /\ pc[p] = "put" /\ UNCHANGED cacheVars
      BY <1>4, AtCall, KeysAreCalls DEF PutCheck, StateInv, Putting
    <2>2. CASE entry[CallOf(p)] = None
      BY <1>4, <2>1, <2>2 DEF PutCheck, Stays
    <2>3. CASE entry[CallOf(p)] # None
      BY <1>4, <2>1, <2>3 DEF PutCheck, Use, Putting
    <2> QED BY <2>1, <2>2, <2>3
  <1> QED BY <1>1, <1>2, <1>3, <1>4 DEF Funnel

\* An exchange touches the cache at its own call alone.
LEMMA Touches ==
    ASSUME StateInv, NEW p \in Funnels, Funnel(p), NEW d \in Calls
    PROVE  Same(d) \/ (pc[p] \in Putting /\ CallOf(p) = d)
  <1>1. CASE PutOpen(p)
    BY <1>1, Opens DEF Opened, Putting
  <1>2. CASE PutWrite(p)
    BY <1>2, Writes DEF Wrote, Putting
  <1>3. CASE PutReplace(p)
    BY <1>3, Replaces DEF Putting, Same, cacheVars
  <1>4. CASE ~PutOpen(p) /\ ~PutWrite(p) /\ ~PutReplace(p)
    BY <1>4, Aside DEF Same, cacheVars
  <1> QED BY <1>1, <1>2, <1>3, <1>4

\* What it disturbs was then bought twice.
LEMMA Disturbs ==
    ASSUME StateInv, PutInv, NEW p \in Funnels, Funnel(p), NEW q \in Files \ {p},
           NEW d \in Calls, answers[d][q].whole
    PROVE  Same(d) \/ BoughtTwice(d)
  <1> SUFFICES ASSUME pc[p] \in Putting, CallOf(p) = d
               PROVE  BoughtTwice(d)
    BY Touches
  <1>1. answers[d][p] = Whole(hand[p])
    BY DEF PutInv, PutsItsOwn
  <1>2. hand[p] \in Texts /\ AnswersTyped
    BY DEF StateInv, AnswersTyped
  <1>3. answers[d][p].whole /\ p \in Files
    BY <1>1, <1>2, Basics
  <1> QED BY <1>2, <1>3, BuyersAre

LEMMA PutStep ==
    ASSUME StateInv, StateInv', BuyInv, PutInv, Next
    PROVE  PutInv'
  <1> SUFFICES ASSUME NEW p \in Funnels, NEW c \in Calls, pc'[p] \in Putting, c = CallOf(p)'
               PROVE  PutsItsOwn(p, c)'
    BY DEF PutInv
  <1>h. /\ Cleared => Cleared'
        /\ \A b \in Calls, f \in Files : answers[b][f].whole => answers'[b][f] = answers[b][f]
        /\ \A b \in Calls : BoughtTwice(b) => BoughtTwice(b)'
    BY History DEF Cleared
  <1>a. hand[p] \in Texts /\ AnswersTyped /\ CacheTyped /\ Domains
    BY StateParts, HaveDomains DEF StateInv
  <1>s. at'[p] = at[p] => CallOf(p) = c
    BY DEF CallOf, Arm, Seed
  <1>1. ASSUME Funnel(p)
        PROVE  PutsItsOwn(p, c)'
    <2>p. pc[p] \in Putting /\ CallOf(p) = c => PutsItsOwn(p, c)
      BY DEF PutInv
    <2>1. CASE PutOpen(p)
      <3>1. CallOf(p) = c
        BY <2>1, <1>s, Opens DEF Opened, Stays
      <3> PICK f \in Files : Opened(p, c, f)
        BY <2>1, <3>1, Opens
      <3>2. PutsItsOwn(p, c)
        BY <2>p, <3>1 DEF Opened, Putting
      <3>3. answers'[c][p] = Whole(hand'[p])
        BY <3>2 DEF PutsItsOwn, Opened, Stays
      <3>4. Undisturbed(p, c) => Undisturbed(p, c)'
        BY <1>a, <3>1 DEF Undisturbed, Opened, CacheTyped
      <3> QED BY <1>h, <3>1, <3>2, <3>3, <3>4 DEF PutsItsOwn
    <2>2. CASE PutWrite(p)
      <3>1. CallOf(p) = c
        BY <2>2, <1>s, Writes DEF Wrote, Stays
      <3> PICK x : Wrote(p, c, x)
        BY <2>2, <3>1, Writes
      <3>f. fd[p] \in Files
        BY <2>2, Basics DEF StateInv, PutWrite
      <3>2. PutsItsOwn(p, c)
        BY <2>p, <3>1 DEF Wrote, Putting
      <3>3. answers'[c][p] = Whole(hand'[p])
        BY <3>2 DEF PutsItsOwn, Wrote, Stays
      <3>4. Undisturbed(p, c) => Undisturbed(p, c)'
        BY <1>a, <1>h, <3>f DEF Undisturbed, Wrote, CacheTyped, Stays
      <3> QED BY <1>h, <3>1, <3>2, <3>3, <3>4 DEF PutsItsOwn
    <2>3. CASE PutReplace(p)
      <3>1. Takes(p, Whole(hand[p])) \/ Drops(p)
        BY <2>3, Replaces DEF Renamed
      <3> QED BY <3>1 DEF Takes, Drops, Putting
    <2>4. CASE ~PutOpen(p) /\ ~PutWrite(p) /\ ~PutReplace(p)
      <3>1. UNCHANGED cacheVars
        BY <1>1, <2>4, Aside
      <3>2. CASE AskVendor(p)
        <4>1. pc'[p] # "generate"
          BY DEF Putting
        <4> PICK r \in Texts : Answered(p, r)
          BY <3>2, <4>1, Asked DEF Failed, Drops
        <4>2. CallOf(p) = c /\ entry[c] = None
          BY <3>2, <1>s, Asked DEF Answered
        <4>3. answers' = [answers EXCEPT ![c][p] = Whole(r)] /\ pc'[p] = "put" /\ hand'[p] = r
          BY <4>2 DEF Answered
        <4>4. answers'[c][p] = Whole(hand'[p])
          BY <1>a, <4>2, <4>3, Basics DEF AnswersTyped
        <4>5. Undisturbed(p, c)'
          BY <3>1, <4>2, <4>3 DEF Undisturbed, cacheVars
        <4> QED BY <4>2, <4>4, <4>5 DEF PutsItsOwn
      <3>3. CASE ~AskVendor(p)
        <4>1. /\ pc[p] = "put" /\ pc'[p] = "open" /\ Stays(p)
              /\ CallOf(p) = c /\ entry[c] = None
          BY <1>1, <1>s, <2>4, <3>3, Aside DEF Stays
        <4>2. PutsItsOwn(p, c)
          BY <2>p, <4>1 DEF Putting
        <4>3. answers'[c][p] = Whole(hand'[p])
          BY <4>1, <4>2 DEF PutsItsOwn, Stays
        <4>4. Undisturbed(p, c)'
          BY <3>1, <4>1 DEF Undisturbed, cacheVars
        <4> QED BY <4>2, <4>3, <4>4 DEF PutsItsOwn
      <3> QED BY <3>2, <3>3
    <2> QED BY <2>1, <2>2, <2>3, <2>4
  <1>2. ASSUME pc'[p] = pc[p], at'[p] = at[p], hand'[p] = hand[p], fd'[p] = fd[p],
               answers[c][p].whole =>
                   \/ Same(c) \/ BoughtTwice(c)
                   \/ entry'[c] = None /\ temp'[c] = None /\ content'[c] = content[c] /\ Cleared'
        PROVE  PutsItsOwn(p, c)'
    <2>2. PutsItsOwn(p, c)
      BY <1>2, <1>s DEF PutInv
    <2>3. answers[c][p] = Whole(hand[p]) /\ answers[c][p].whole /\ p \in Files
      BY <1>a, <2>2, Basics DEF PutsItsOwn
    <2>4. answers'[c][p] = Whole(hand'[p])
      BY <1>2, <1>h, <2>3
    <2>5. CASE Same(c) \/ BoughtTwice(c)
      <3>1. Same(c) /\ Undisturbed(p, c) => Undisturbed(p, c)'
        BY <1>2, <1>h DEF Same, Undisturbed
      <3> QED BY <1>h, <2>2, <2>4, <2>5, <3>1 DEF PutsItsOwn
    <2>6. CASE entry'[c] = None /\ temp'[c] = None /\ content'[c] = content[c] /\ Cleared'
      <3>1. Undisturbed(p, c) => Undisturbed(p, c)'
        BY <1>2, <2>6 DEF Undisturbed
      <3> QED BY <1>h, <2>2, <2>4, <3>1 DEF PutsItsOwn
    <2> QED BY <1>2, <2>3, <2>5, <2>6
  <1>3. ASSUME NEW q \in Funnels \ {p}, Funnel(q)
        PROVE  PutsItsOwn(p, c)'
    <2>1. pc'[p] = pc[p] /\ at'[p] = at[p] /\ hand'[p] = hand[p] /\ fd'[p] = fd[p]
      BY <1>3, <1>a, Frame DEF Alone
    <2>2. answers[c][p].whole => Same(c) \/ BoughtTwice(c)
      BY <1>3, Basics, Disturbs
    <2> QED BY <1>2, <2>1, <2>2
  <1>4. CASE Clear
    <2>1. entry'[c] = None /\ temp'[c] = None /\ content'[c] = content[c] /\ Cleared'
      BY <1>4, KeysAreCalls DEF Clear, Cleared
    <2> QED BY <1>2, <1>4, <2>1 DEF Clear, funnelVars
  <1>5. CASE PinsReplay \/ PinsWrite \/ OpenHoldout \/ Derive
    <2>1. UNCHANGED <<cacheVars, funnelVars>>
      BY <1>5 DEF PinsReplay, PinsWrite, OpenHoldout, Derive
    <2> QED BY <1>2, <2>1 DEF cacheVars, funnelVars, Same
  <1> QED BY <1>1, <1>3, <1>4, <1>5 DEF Next

LEMMA CacheStep ==
    ASSUME StateInv, StateInv', BuyInv, PutInv, CacheInv, Next
    PROVE  CacheInv'
  <1> SUFFICES ASSUME NEW c \in Calls
               PROVE  HoldsAnswers(c)'
    BY DEF CacheInv
  <1>h. /\ BoughtTwice(c) => BoughtTwice(c)'
        /\ \A x : (\E q \in Buyers(c) : x = answers[c][q])
                  => \E q \in Buyers(c)' : x = answers'[c][q]
    BY History
  <1>c. HoldsAnswers(c) /\ CacheTyped /\ AnswersTyped
    BY StateParts DEF CacheInv
  <1>k. \A f \in Files : content[c][f].whole =>
            \E q \in Buyers(c)' : content[c][f] = answers'[c][q]
    BY <1>c, <1>h DEF HoldsAnswers
  <1>1. ASSUME content'[c] = content[c],
               entry'[c] # None => content[c][entry'[c]].whole \/ BoughtTwice(c)
        PROVE  HoldsAnswers(c)'
    BY <1>1, <1>h, <1>k DEF HoldsAnswers
  <1>2. CASE Same(c)
    BY <1>1, <1>2, <1>c DEF Same, HoldsAnswers
  <1>3. ASSUME NEW p \in Funnels, c = CallOf(p), PutsItsOwn(p, c),
               NEW f \in Files, NEW x \in {Empty, Whole(hand[p])},
               content'[c] = [content[c] EXCEPT ![f] = x], entry'[c] = entry[c],
               BoughtTwice(c) \/ entry[c] = None
        PROVE  HoldsAnswers(c)'
    <2>1. hand[p] \in Texts /\ p \in Files
      BY Basics DEF StateInv
    <2>2. x.whole => x = answers[c][p] /\ p \in Buyers(c)
      BY <1>3, <1>c, <2>1, Basics, BuyersAre DEF PutsItsOwn
    <2>3. content'[c][f] = x /\ \A g \in Files \ {f} : content'[c][g] = content[c][g]
      BY <1>3, <1>c DEF CacheTyped
    <2>4. \A g \in Files : content'[c][g].whole =>
              \E q \in Buyers(c)' : content'[c][g] = answers'[c][q]
      BY <1>h, <1>k, <2>2, <2>3
    <2> QED BY <1>3, <1>h, <2>4 DEF HoldsAnswers
  <1>4. ASSUME NEW p \in Funnels, Funnel(p)
        PROVE  HoldsAnswers(c)'
    <2> SUFFICES ASSUME pc[p] \in Putting, CallOf(p) = c
                 PROVE  HoldsAnswers(c)'
      BY <1>2, <1>4, Touches
    <2>p. PutsItsOwn(p, c)
      BY DEF PutInv
    <2>e. BoughtTwice(c) \/ entry[c] = None
      BY <2>p DEF PutsItsOwn, Undisturbed
    <2>1. CASE PutOpen(p)
      <3> PICK f \in Files : Opened(p, c, f)
        BY <2>1, Opens
      <3> QED BY <1>3, <2>p, <2>e DEF Opened
    <2>2. CASE PutWrite(p)
      <3> PICK x : Wrote(p, c, x)
        BY <2>2, Writes
      <3>1. fd[p] \in Files
        BY <2>2, Basics DEF StateInv, PutWrite
      <3>2. /\ x \in {Empty, Whole(hand[p])} /\ entry'[c] = entry[c]
            /\ content'[c] = [content[c] EXCEPT ![fd[p]] = x]
        BY DEF Wrote
      <3> QED BY <1>3, <2>p, <2>e, <3>1, <3>2
    <2>3. CASE PutReplace(p)
      <3>1. CASE Renamed(p, c)
        <4>1. content'[c] = content[c] /\ entry'[c] = temp[c] /\ pc[p] = "rename"
              /\ temp[c] # None
          BY <3>1 DEF Renamed
        <4>2. ASSUME Undisturbed(p, c)
              PROVE  content[c][temp[c]].whole
          <5>1. content[c][temp[c]] = Whole(hand[p])
            BY <4>1, <4>2 DEF Undisturbed
          <5>2. hand[p] \in Texts
            BY DEF StateInv
          <5> QED BY <5>1, <5>2, Basics
        <4> QED BY <1>1, <2>p, <4>1, <4>2 DEF PutsItsOwn
      <3>2. CASE UNCHANGED cacheVars
        BY <1>2, <3>2 DEF Same, cacheVars
      <3> QED BY <2>3, <3>1, <3>2, Replaces
    <2>4. CASE ~PutOpen(p) /\ ~PutWrite(p) /\ ~PutReplace(p)
      BY <1>2, <1>4, <2>4, Aside DEF Same, cacheVars
    <2> QED BY <2>1, <2>2, <2>3, <2>4
  <1>5. CASE Clear
    <2>1. entry'[c] = None /\ content' = content
      BY <1>5, KeysAreCalls DEF Clear
    <2> QED BY <1>1, <2>1
  <1>6. CASE PinsReplay \/ PinsWrite \/ OpenHoldout \/ Derive
    <2>1. UNCHANGED cacheVars
      BY <1>6 DEF PinsReplay, PinsWrite, OpenHoldout, Derive
    <2> QED BY <1>2, <2>1 DEF cacheVars, Same
  <1> QED BY <1>4, <1>5, <1>6 DEF Next

-------------------------------------------------------------------------------
(* The loops over the arms and the seeds.                                   *)

\* An entry stays as it is, unless its call was bought twice or it is cleared.
LEMMA EntryStays ==
    ASSUME StateInv, PutInv, Next, NEW c \in Calls, entry[c] # None
    PROVE  Same(c) \/ BoughtTwice(c) \/ Cleared'
  <1>1. ASSUME NEW q \in Funnels, Funnel(q)
        PROVE  Same(c) \/ BoughtTwice(c)
    <2>1. pc[q] \in Putting /\ CallOf(q) = c => BoughtTwice(c)
      BY DEF PutInv, PutsItsOwn, Undisturbed
    <2> QED BY <1>1, <2>1, Touches
  <1>2. CASE Clear
    BY <1>2 DEF Clear, Cleared
  <1>3. CASE PinsReplay \/ PinsWrite \/ OpenHoldout \/ Derive
    BY <1>3 DEF PinsReplay, PinsWrite, OpenHoldout, Derive, cacheVars, Same
  <1> QED BY <1>1, <1>2, <1>3 DEF Next

LEMMA LoggedStays ==
    ASSUME StateInv, StateInv', BuyInv, PutInv, Next, NEW p \in Funnels, NEW c \in Calls,
           Logged(p, c), used'[p][c] = used[p][c]
    PROVE  Logged(p, c)'
  <1>1. /\ BoughtTwice(c) => BoughtTwice(c)'
        /\ Cleared => Cleared'
        /\ \A x : (\E q \in Buyers(c) : x = answers[c][q])
                  => \E q \in Buyers(c)' : x = answers'[c][q]
    BY History DEF Cleared
  <1>2. \E q \in Buyers(c)' : used'[p][c] = answers'[c][q]
    BY <1>1 DEF Logged
  <1>3. \/ BoughtTwice(c)' \/ Cleared'
        \/ entry'[c] # None /\ content'[c][entry'[c]] = used'[p][c]
    BY <1>1, EntryStays DEF Logged, Same
  <1> QED BY <1>2, <1>3 DEF Logged

Rests(p) == at'[p] = at[p] /\ used'[p] = used[p] /\ errors'[p] = errors[p]
Restarts(p) == at'[p] = 1 /\ errors'[p] = {}
Passes(p, m) == at[p] <= Slots /\ m = Arm(at[p]) /\ Drops(p) /\ Excused(p, m)'
Logs(p, c) == at[p] <= Slots /\ c = CallOf(p) /\ (\E x : Takes(p, x)) /\ Logged(p, c)'

LEMMA TakenIsUsed ==
    ASSUME StateInv, NEW p \in Funnels, NEW x, Takes(p, x), at[p] <= Slots
    PROVE  used'[p][CallOf(p)] = x
  <1> DEFINE c == CallOf(p)
  <1>1. c \in Calls /\ used[p] \in [Calls -> Contents] /\ used'[p] = [used[p] EXCEPT ![c] = x]
    BY AtCall DEF Takes, StateInv
  <1> HIDE DEF c
  <1>2. used'[p][c] = x
    BY <1>1
  <1> QED BY <1>2 DEF c

\* What a step of its own does to a funnel's place in the loops.
LEMMA Turns ==
    ASSUME StateInv, StateInv', BuyInv, PutInv, CacheInv, Next, NEW p \in Funnels, Funnel(p)
    PROVE  \/ Rests(p) \/ Restarts(p)
           \/ \E m \in Models : Passes(p, m)
           \/ \E c \in Calls : Logs(p, c)
  <1>d. Domains /\ CacheTyped /\ AnswersTyped
    BY StateParts, HaveDomains
  <1>h. /\ faults \subseteq faults' /\ (Cleared => Cleared')
        /\ \A c \in Calls : BoughtTwice(c) => BoughtTwice(c)'
        /\ \A c \in Calls : \A q : q \in Buyers(c) => q \in Buyers(c)'
        /\ \A c \in Calls : \A x : (\E q \in Buyers(c) : x = answers[c][q])
                               => \E q \in Buyers(c)' : x = answers'[c][q]
    BY History DEF Cleared
  <1>p. ASSUME at[p] <= Slots, Drops(p), NEW c \in Calls, c = CallOf(p),
               \/ <<"vendor", p>> \in faults'
               \/ BoughtTwice(c)
               \/ Cleared /\ p \in Buyers(c)
        PROVE  \E m \in Models : Passes(p, m)
    <2> PICK m \in Models, s \in Seeds : m = Arm(at[p]) /\ c = <<m, s>>
      BY <1>p, AtCall
    <2>1. Excused(p, m)'
      BY <1>p, <1>h DEF Excused
    <2> QED BY <1>p, <2>1 DEF Passes
  <1>l. ASSUME at[p] <= Slots, NEW x, Takes(p, x), NEW c \in Calls, c = CallOf(p),
               \E q \in Buyers(c) : x = answers[c][q],
               BoughtTwice(c) \/ (entry'[c] # None /\ content'[c][entry'[c]] = x)
        PROVE  \E d \in Calls : Logs(p, d)
    <2>1. used'[p][c] = x
      BY <1>l, TakenIsUsed
    <2>2. Logged(p, c)'
      BY <1>l, <1>h, <2>1 DEF Logged
    <2> QED BY <1>l, <2>2 DEF Logs
  <1>o. ASSUME pc[p] \in Putting
        PROVE  /\ at[p] <= Slots /\ CallOf(p) \in Calls /\ PutsItsOwn(p, CallOf(p))
               /\ p \in Buyers(CallOf(p))
               /\ \E q \in Buyers(CallOf(p)) : Whole(hand[p]) = answers[CallOf(p)][q]
    <2>1. at[p] <= Slots
      BY <1>o DEF StateInv
    <2>2. PICK c \in Calls : c = CallOf(p)
      BY <2>1, AtCall
    <2>3. PutsItsOwn(p, c) /\ hand[p] \in Texts
      BY <1>o, <2>2 DEF PutInv, StateInv
    <2>4. p \in Buyers(c) /\ Whole(hand[p]) = answers[c][p]
      BY <1>d, <2>3, Basics, BuyersAre DEF PutsItsOwn
    <2> QED BY <2>1, <2>2, <2>3, <2>4
  <1>1. CASE Start(p) \/ UnplannedCallRefused(p) \/ PutOpen(p) \/ PutWrite(p)
             \/ OpenArtefact(p) \/ WriteArtefact(p)
    BY <1>1 DEF Start, UnplannedCallRefused, PutOpen, PutWrite, OpenArtefact, WriteArtefact,
                Rests
  <1>2. CASE Die(p)
    BY <1>2, <1>d DEF Die, Restarts, Domains
  <1>3. CASE GetHit(p)
    <2>1. PICK c \in Calls : c = CallOf(p)
      BY <1>3, AtCall DEF GetHit
    <2>2. KeyOf(p) = c /\ at[p] <= Slots /\ entry[c] # None /\ HoldsAnswers(c)
          /\ UNCHANGED cacheVars
      BY <1>3, <2>1, KeysAreCalls DEF GetHit, CacheInv
    <2>3. content[c][entry[c]] \in Contents /\ entry[c] \in Files
      BY <1>d, <2>2 DEF CacheTyped
    <2>4. CASE Readable(c)
      <3>1. Use(p, Text(c)) /\ UNCHANGED errors
        BY <1>3, <2>2, <2>4 DEF GetHit
      <3>2. Takes(p, Whole(Text(c)))
        BY <1>d, <3>1, UseTakes
      <3>3. Whole(Text(c)) = content[c][entry[c]] /\ content[c][entry[c]].whole
        BY <2>3, <2>4, Basics DEF Readable, Text
      <3>4. \E q \in Buyers(c) : Whole(Text(c)) = answers[c][q]
        BY <2>2, <2>3, <3>3 DEF HoldsAnswers
      <3>5. entry'[c] # None /\ content'[c][entry'[c]] = Whole(Text(c))
        BY <2>2, <3>3 DEF cacheVars
      <3> QED BY <1>l, <2>1, <2>2, <3>2, <3>4, <3>5
    <2>5. CASE ~Readable(c)
      <3>1. Drops(p)
        BY <1>3, <1>d, <2>2, <2>5, DropDrops DEF GetHit
      <3>2. BoughtTwice(c)
        BY <2>2, <2>5 DEF HoldsAnswers, Readable
      <3> QED BY <1>p, <2>1, <2>2, <3>1, <3>2
    <2> QED BY <2>4, <2>5
  <1>4. CASE AskVendor(p)
    <2>1. CallOf(p) \in Calls /\ at[p] <= Slots /\ ((\E r \in Texts : Answered(p, r)) \/ Failed(p))
      BY <1>4, Asked
    <2>2. CASE \E r \in Texts : Answered(p, r)
      BY <2>2 DEF Answered, Rests
    <2>3. CASE Failed(p)
      BY <1>p, <2>1, <2>3 DEF Failed
    <2> QED BY <2>1, <2>2, <2>3
  <1>5. CASE PutCheck(p)
    <2>1. pc[p] \in Putting
      BY <1>5 DEF PutCheck, Putting
    <2>2. PICK c \in Calls : c = CallOf(p)
      BY <1>o, <2>1
    <2>3. KeyOf(p) = c
      BY <2>2, KeysAreCalls
    <2>4. CASE entry[c] = None
      BY <1>5, <2>3, <2>4 DEF PutCheck, Rests
    <2>5. CASE entry[c] # None
      <3>1. Use(p, hand[p]) /\ UNCHANGED errors
        BY <1>5, <2>3, <2>5 DEF PutCheck
      <3>2. Takes(p, Whole(hand[p]))
        BY <1>d, <3>1, UseTakes
      <3>3. BoughtTwice(c)
        BY <1>o, <2>1, <2>2, <2>5 DEF PutsItsOwn, Undisturbed
      <3> QED BY <1>l, <1>o, <2>1, <2>2, <3>2, <3>3
    <2> QED BY <2>4, <2>5
  <1>6. CASE PutReplace(p)
    <2>1. pc[p] = "rename" /\ pc[p] \in Putting
      BY <1>6, Replaces DEF Putting
    <2>2. PICK c \in Calls : c = CallOf(p)
      BY <1>o, <2>1
    <2>p. PutsItsOwn(p, c)
      BY <1>o, <2>1, <2>2
    <2>3. CASE Renamed(p, c)
      <3>1. Undisturbed(p, c) => entry'[c] # None /\ content'[c][entry'[c]] = Whole(hand[p])
        BY <2>1, <2>3 DEF Undisturbed, Renamed
      <3>2. BoughtTwice(c) \/ (entry'[c] # None /\ content'[c][entry'[c]] = Whole(hand[p]))
        BY <2>p, <3>1 DEF PutsItsOwn
      <3>3. Takes(p, Whole(hand[p]))
        BY <2>3 DEF Renamed
      <3> QED BY <1>l, <1>o, <2>1, <2>2, <3>2, <3>3
    <2>4. CASE temp[c] = None /\ Drops(p)
      <3>1. fd[p] # None
        BY <2>1 DEF StateInv
      <3>2. BoughtTwice(c) \/ Cleared
        BY <2>p, <2>1, <2>4, <3>1 DEF PutsItsOwn, Undisturbed
      <3> QED BY <1>p, <1>o, <2>1, <2>2, <2>4, <3>2
    <2> QED BY <1>6, <2>2, <2>3, <2>4, Replaces
  <1> QED BY <1>1, <1>2, <1>3, <1>4, <1>5, <1>6 DEF Funnel

LEMMA UsedStep ==
    ASSUME StateInv, StateInv', BuyInv, PutInv, CacheInv, UsedInv, Next
    PROVE  UsedInv'
  <1> SUFFICES ASSUME NEW p \in Funnels, NEW i \in 1 .. Slots, i < at'[p],
                      Arm(i) \notin errors'[p], NEW c \in Calls, c = <<Arm(i), Seed(i)>>
               PROVE  Logged(p, c)'
    BY SlotIsCall DEF UsedInv, Arm, Seed, Slots
  <1>1. i < at[p] /\ Arm(i) \notin errors[p] => Logged(p, c)
    BY DEF UsedInv
  <1>2. ASSUME i < at[p], Arm(i) \notin errors[p], used'[p][c] = used[p][c]
        PROVE  Logged(p, c)'
    BY <1>1, <1>2, LoggedStays
  <1>n. i \in Nat /\ at[p] \in Nat /\ Slots \in Nat
    BY Sizes DEF StateInv
  <1>3. CASE Funnel(p)
    <2>1. CASE Rests(p)
      BY <1>2, <2>1 DEF Rests
    <2>2. CASE Restarts(p)
      BY <2>2, <1>n DEF Restarts
    <2>3. ASSUME NEW m \in Models, Passes(p, m)
          PROVE  Logged(p, c)'
      <3>1. at[p] \in 1 .. Slots /\ errors'[p] = errors[p] \cup {Arm(at[p])}
            /\ at'[p] = NextArm(at[p]) /\ used'[p] = used[p]
        BY <2>3, AtCall DEF Passes, Drops
      <3>2. at[p] <= i => Arm(i) = Arm(at[p])
        BY <1>n, <3>1, SameArm
      <3>3. i < at[p] /\ Arm(i) \notin errors[p]
        BY <1>n, <3>1, <3>2
      <3> QED BY <1>2, <3>1, <3>3
    <2>4. ASSUME NEW d \in Calls, Logs(p, d)
          PROVE  Logged(p, c)'
      <3>1. CASE c = d
        BY <2>4, <3>1 DEF Logs
      <3>2. CASE c # d
        <4> PICK x : Takes(p, x) /\ d = CallOf(p)
          BY <2>4 DEF Logs
        <4>1. used[p] \in [Calls -> Contents] /\ used'[p] = [used[p] EXCEPT ![d] = x]
              /\ at'[p] = at[p] + 1 /\ errors'[p] = errors[p]
          BY DEF StateInv, Takes
        <4>2. used'[p][c] = used[p][c]
          BY <3>2, <4>1
        <4>3. i # at[p]
          BY <3>2 DEF CallOf
        <4>4. i < at[p] /\ Arm(i) \notin errors[p]
          BY <1>n, <4>1, <4>3
        <4> QED BY <1>2, <4>2, <4>4
      <3> QED BY <3>1, <3>2
    <2> QED BY <1>3, <2>1, <2>2, <2>3, <2>4, Turns
  <1>4. ASSUME NEW q \in Funnels \ {p}, Funnel(q)
        PROVE  Logged(p, c)'
    <2>1. at'[p] = at[p] /\ used'[p] = used[p] /\ errors'[p] = errors[p]
      BY <1>4, HaveDomains, Frame DEF Alone
    <2> QED BY <1>2, <2>1
  <1>5. CASE Clear \/ PinsReplay \/ PinsWrite \/ OpenHoldout \/ Derive
    BY <1>2, <1>5 DEF Clear, PinsReplay, PinsWrite, OpenHoldout, Derive, funnelVars
  <1> QED BY <1>3, <1>4, <1>5 DEF Next

LEMMA ErrorStep ==
    ASSUME StateInv, StateInv', BuyInv, PutInv, CacheInv, ErrorInv, Next
    PROVE  ErrorInv'
  <1> SUFFICES ASSUME NEW p \in Funnels, NEW m \in errors'[p]
               PROVE  Excused(p, m)'
    BY DEF ErrorInv
  <1>1. m \in Models /\ \A s \in Seeds : <<m, s>> \in Calls
    BY DEF StateInv, Calls
  <1>2. ASSUME m \in errors[p]
        PROVE  Excused(p, m)'
    <2>1. Excused(p, m)
      BY <1>2 DEF ErrorInv
    <2> QED BY <1>1, <2>1, History DEF Excused, Cleared
  <1>3. CASE Funnel(p)
    <2>1. CASE Rests(p) \/ Restarts(p)
      BY <1>2, <2>1 DEF Rests, Restarts
    <2>2. ASSUME NEW n \in Models, Passes(p, n)
          PROVE  Excused(p, m)'
      BY <1>2, <2>2 DEF Passes, Drops
    <2>3. ASSUME NEW d \in Calls, Logs(p, d)
          PROVE  Excused(p, m)'
      BY <1>2, <2>3 DEF Logs, Takes
    <2> QED BY <1>3, <2>1, <2>2, <2>3, Turns
  <1>4. ASSUME NEW q \in Funnels \ {p}, Funnel(q)
        PROVE  Excused(p, m)'
    BY <1>2, <1>4, HaveDomains, Frame DEF Alone
  <1>5. CASE Clear \/ PinsReplay \/ PinsWrite \/ OpenHoldout \/ Derive
    BY <1>2, <1>5 DEF Clear, PinsReplay, PinsWrite, OpenHoldout, Derive, funnelVars
  <1> QED BY <1>3, <1>4, <1>5 DEF Next

-------------------------------------------------------------------------------
(* The artefact and the real run.                                           *)

LEMMA SeedZero == 0 \in Seeds /\ \A m \in Models : <<m, 0>> \in Calls
  BY Sizes DEF Seeds, Calls

LEMMA DoneStays ==
    ASSUME StateInv, Next, NEW p \in Funnels, pc[p] = "done"
    PROVE  pc'[p] = "done" /\ used'[p] = used[p] /\ errors'[p] = errors[p]
  <1>1. ~Funnel(p)
    BY DEF Funnel, Start, GetHit, UnplannedCallRefused, AskVendor, PutCheck, PutOpen,
           PutWrite, PutReplace, OpenArtefact, WriteArtefact, Die, Ends
  <1>2. ASSUME NEW q \in Funnels \ {p}, Funnel(q)
        PROVE  pc'[p] = "done" /\ used'[p] = used[p] /\ errors'[p] = errors[p]
    BY <1>2, HaveDomains, Frame DEF Alone
  <1>3. CASE Clear \/ PinsReplay \/ PinsWrite \/ OpenHoldout \/ Derive
    BY <1>3 DEF Clear, PinsReplay, PinsWrite, OpenHoldout, Derive, funnelVars
  <1> QED BY <1>1, <1>2, <1>3 DEF Next

\* What a reported arm is selected from is logged.
LEMMA ReportedIsLogged ==
    ASSUME StateInv, UsedInv, NEW p \in Funnels, pc[p] \in {"report", "done"},
           NEW m \in Models \ errors[p], NEW s \in Seeds
    PROVE  Logged(p, <<m, s>>)
  <1>1. PICK i \in 1 .. Slots : Arm(i) = m /\ Seed(i) = s
    BY CallHasSlot
  <1>2. at[p] > Slots /\ at[p] \in Nat
    BY DEF StateInv
  <1>3. i < at[p]
    BY <1>2, Sizes
  <1> QED BY <1>1, <1>3 DEF UsedInv

\* There is one text that a call, bought once, can be read as.
LEMMA OneText ==
    ASSUME StateInv, CacheInv, NEW p \in Funnels, NEW c \in Calls, Logged(p, c),
           ~BoughtTwice(c), Readable(c)
    PROVE  content[c][entry[c]] = used[p][c]
  <1>1. CacheTyped /\ AnswersTyped
    BY StateParts
  <1>2. entry[c] \in Files /\ content[c][entry[c]].whole
    BY <1>1 DEF CacheTyped, Readable
  <1>3. PICK q \in Buyers(c) : content[c][entry[c]] = answers[c][q]
    BY <1>2 DEF CacheInv, HoldsAnswers
  <1>4. PICK r \in Buyers(c) : used[p][c] = answers[c][r]
    BY DEF Logged
  <1>5. q = r
    BY <1>1, BuyersAre
  <1> QED BY <1>3, <1>4, <1>5

LEMMA ReportedIs ==
    \A p : /\ DOMAIN Reports(p) = Models \ errors[p]
           /\ \A m \in Models \ errors[p] :
                  Reports(p)[m] = Advanced(Batch(used[p][<<m, 0>>].text))
           /\ [m \in DOMAIN Reports(p) |-> DOMAIN Reports(p)[m]] = ReportOf(p)
  BY DEF Reports, ReportOf, Chosen

LEMMA RegeneratesWhatWasAdvanced ==
    ASSUME StateInv, CacheInv, UsedInv, Regenerable, NEW p \in Funnels, WholeReport(p),
           \A m \in Wanted : ~BoughtTwice(<<m, 0>>)
    PROVE  Regenerated = AdvancedBy(p)
  <1>1. Wanted = {x \in DOMAIN Reports(p) : DOMAIN Reports(p)[x] # {}}
    <2>1. DOMAIN artefact.advanced = DOMAIN Reports(p)
      BY ReportedIs DEF WholeReport, ReportOf
    <2>2. ASSUME NEW x \in DOMAIN Reports(p)
          PROVE  artefact.advanced[x] = DOMAIN Reports(p)[x]
      <3>1. x \in Models \ errors[p]
        BY ReportedIs
      <3>2. artefact.advanced[x] = Chosen(p, x)
        BY <3>1 DEF WholeReport, ReportOf
      <3>3. Reports(p)[x] = Advanced(Batch(used[p][<<x, 0>>].text))
        BY <3>1, ReportedIs
      <3> QED BY <3>2, <3>3 DEF Chosen
    <2> QED BY <2>1, <2>2 DEF Wanted
  <1>2. ASSUME NEW m \in Wanted
        PROVE  Restrict(Replayed(m), artefact.advanced[m]) = Reports(p)[m]
    <2>1. m \in Models \ errors[p] /\ artefact.advanced[m] = Chosen(p, m)
      BY DEF Wanted, WholeReport, ReportOf
    <2>2. PICK c \in Calls : c = <<m, 0>>
      BY <2>1, SeedZero
    <2>3. Logged(p, c) /\ ~BoughtTwice(c)
      BY <2>1, <2>2, SeedZero, ReportedIsLogged DEF WholeReport
    <2>4. Readable(c) /\ Key(m, 0) = c
      BY <2>2, SeedZero, KeysAreCalls DEF Regenerable, Replayable
    <2>5. content[c][entry[c]] = used[p][c]
      BY <2>3, <2>4, OneText
    <2>6. Replayed(m) = Batch(used[p][c].text)
      BY <2>4, <2>5 DEF Replayed, Text
    <2> DEFINE b == Batch(used[p][c].text)
    <2>7. Restrict(b, DOMAIN Advanced(b)) = Advanced(b)
      BY DEF Advanced, Restrict
    <2>8. artefact.advanced[m] = DOMAIN Advanced(b) /\ Reports(p)[m] = Advanced(b)
      BY <2>1, <2>2, ReportedIs DEF Chosen
    <2> HIDE DEF b
    <2>9. Replayed(m) = b
      BY <2>6 DEF b
    <2> QED BY <2>7, <2>8, <2>9
  <1>3. Regenerated = [m \in Wanted |-> Reports(p)[m]]
    BY <1>2 DEF Regenerated
  <1> QED BY <1>1, <1>3 DEF AdvancedBy

LEMMA ReportStays ==
    ASSUME NEW p, used'[p] = used[p], errors'[p] = errors[p]
    PROVE  /\ Reports(p)' = Reports(p) /\ AdvancedBy(p)' = AdvancedBy(p)
           /\ ReportOf(p)' = ReportOf(p)
  <1>1. Reports(p)' = Reports(p)
    BY DEF Reports
  <1>2. AdvancedBy(p)' = AdvancedBy(p)
    BY <1>1 DEF AdvancedBy
  <1>3. ReportOf(p)' = ReportOf(p)
    BY DEF ReportOf, Chosen
  <1> QED BY <1>1, <1>2, <1>3

LEMMA ArtefactStep ==
    ASSUME StateInv, StateInv', BuyInv, CacheInv, UsedInv, ArtefactInv, Next
    PROVE  ArtefactInv'
  <1>u. UNCHANGED artefact \/ \E q \in Funnels : OpenArtefact(q) \/ WriteArtefact(q)
    BY DEF Next, Funnel, Start, GetHit, UnplannedCallRefused, AskVendor, PutCheck, PutOpen,
           PutWrite, PutReplace, Die, Clear, PinsReplay, PinsWrite, OpenHoldout, Derive
  <1>v. UNCHANGED real \/ OpenHoldout \/ Derive
    BY DEF Next, Funnel, Start, GetHit, UnplannedCallRefused, AskVendor, PutCheck, PutOpen,
           PutWrite, PutReplace, OpenArtefact, WriteArtefact, Die, Clear, PinsReplay, PinsWrite,
           holdoutVars
  <1>1. ASSUME artefact'.whole
        PROVE  \E p \in Funnels : WholeReport(p)'
    <2>1. CASE UNCHANGED artefact
      <3> PICK p \in Funnels : WholeReport(p)
        BY <1>1, <2>1 DEF ArtefactInv
      <3>1. pc'[p] = "done" /\ used'[p] = used[p] /\ errors'[p] = errors[p]
        BY DoneStays DEF WholeReport
      <3>2. WholeReport(p)'
        BY <2>1, <3>1, ReportStays DEF WholeReport
      <3> QED BY <3>2
    <2>2. ASSUME NEW q \in Funnels, OpenArtefact(q)
          PROVE  FALSE
      BY <1>1, <2>2 DEF OpenArtefact
    <2>3. ASSUME NEW q \in Funnels, WriteArtefact(q)
          PROVE  WholeReport(q)'
      <3>1. artefact' = [whole |-> TRUE, by |-> q,
                         advanced |-> [m \in DOMAIN Reports(q) |-> DOMAIN Reports(q)[m]]]
        BY <1>1, <2>3 DEF WriteArtefact
      <3>2. artefact'.by = q /\ artefact'.advanced = ReportOf(q)
        BY <3>1, ReportedIs
      <3>3. pc'[q] = "done" /\ UNCHANGED <<used, errors>>
        BY <2>3, HaveDomains DEF WriteArtefact, Domains
      <3>4. ReportOf(q)' = ReportOf(q)
        BY <3>3, ReportStays
      <3> QED BY <3>2, <3>3, <3>4 DEF WholeReport
    <2> QED BY <1>u, <2>1, <2>2, <2>3
  <1>2. ASSUME real'.stage = "evaluated"
        PROVE  \E p \in Funnels : EvaluatedBy(p)'
    <2>h. \A m \in Models : BoughtTwice(<<m, 0>>) => BoughtTwice(<<m, 0>>)'
      BY SeedZero, History
    <2>1. CASE UNCHANGED real
      <3> PICK p \in Funnels : EvaluatedBy(p)
        BY <1>2, <2>1 DEF ArtefactInv
      <3>1. pc'[p] = "done" /\ used'[p] = used[p] /\ errors'[p] = errors[p]
        BY DoneStays DEF EvaluatedBy
      <3>2. AdvancedBy(p)' = AdvancedBy(p)
        BY <3>1, ReportStays
      <3>3. EvaluatedBy(p)'
        BY <2>1, <2>h, <3>1, <3>2 DEF EvaluatedBy
      <3> QED BY <3>3
    <2>2. CASE OpenHoldout
      BY <1>2, <2>2 DEF OpenHoldout
    <2>3. CASE Derive
      <3>1. /\ Regenerable /\ real' = [stage |-> "evaluated", survivors |-> Regenerated,
                                       by |-> artefact.by]
            /\ UNCHANGED <<pc, used, errors>>
        BY <1>2, <2>3 DEF Derive, funnelVars
      <3> PICK p \in Funnels : WholeReport(p)
        BY <3>1 DEF ArtefactInv, Regenerable
      <3>2. DOMAIN Regenerated = Wanted /\ Wanted \subseteq Models
        BY DEF Regenerated, Wanted, WholeReport, ReportOf
      <3>3. real'.by = p /\ real'.survivors = Regenerated /\ pc'[p] = "done"
        BY <3>1 DEF WholeReport
      <3>4. AdvancedBy(p)' = AdvancedBy(p)
        BY <3>1, ReportStays
      <3>5. (\A m \in Wanted : ~BoughtTwice(<<m, 0>>)) => Regenerated = AdvancedBy(p)
        BY <3>1, RegeneratesWhatWasAdvanced
      <3>6. EvaluatedBy(p)'
        BY <2>h, <3>2, <3>3, <3>4, <3>5 DEF EvaluatedBy
      <3> QED BY <3>6
    <2> QED BY <1>v, <2>1, <2>2, <2>3
  <1> QED BY <1>1, <1>2 DEF ArtefactInv

-------------------------------------------------------------------------------
(* The theorems.                                                            *)

FunnelInv ==
    StateInv /\ BuyInv /\ CacheInv /\ PutInv /\ UsedInv /\ ErrorInv /\ ArtefactInv

LEMMA InitState ==
    ASSUME Init
    PROVE  /\ StateInv
           /\ \A c \in Calls, f \in Files :
                  /\ content[c][f] = answers[c][f]
                  /\ answers[c][f].whole => f = Earlier
           /\ \A c \in Calls : entry[c] # None => content[c][entry[c]].whole
  <1>1. /\ answers = [c \in Calls |-> [p \in Files |->
                        IF p = Earlier /\ c \in DOMAIN Cached THEN Whole(Cached[c]) ELSE Empty]]
        /\ content = [key \in Calls |-> [p \in Files |->
                        LET cs == {c \in DOMAIN Cached : Key(c[1], c[2]) = key}
                        IN IF p = Earlier /\ cs # {} THEN Whole(Cached[CHOOSE c \in cs : TRUE])
                           ELSE Empty]]
        /\ entry = [key \in Calls |-> IF content[key][Earlier].whole THEN Earlier ELSE None]
        /\ temp = [key \in Calls |-> None]
    BY KeysAreCalls DEF Init, Files
  <1>2. ASSUME NEW c \in Calls
        PROVE  /\ c \in DOMAIN Cached => Whole(Cached[c]) \in Contents
               /\ {d \in DOMAIN Cached : Key(d[1], d[2]) = c}
                      = IF c \in DOMAIN Cached THEN {c} ELSE {}
    <2>1. c \in DOMAIN Cached => Cached[c] \in Texts
      BY FunnelAssumption, Basics
    <2>2. \A d \in DOMAIN Cached : Key(d[1], d[2]) = d
      BY FunnelAssumption, KeysAreCalls DEF Calls
    <2> QED BY <2>1, <2>2, Basics
  <1>3. ASSUME NEW c \in Calls, NEW f \in Files
        PROVE  /\ content[c][f] = answers[c][f] /\ answers[c][f] \in Contents
               /\ answers[c][f].whole => f = Earlier
    <2> DEFINE cs == {d \in DOMAIN Cached : Key(d[1], d[2]) = c}
    <2>1. content[c][f] = IF f = Earlier /\ cs # {} THEN Whole(Cached[CHOOSE d \in cs : TRUE])
                          ELSE Empty
      BY <1>1
    <2>2. answers[c][f] = IF f = Earlier /\ c \in DOMAIN Cached THEN Whole(Cached[c]) ELSE Empty
      BY <1>1
    <2>3. cs = IF c \in DOMAIN Cached THEN {c} ELSE {}
      BY <1>2
    <2> HIDE DEF cs
    <2>4. c \in DOMAIN Cached => (CHOOSE d \in cs : TRUE) = c
      BY <2>3
    <2>5. content[c][f] = answers[c][f]
      BY <2>1, <2>2, <2>3, <2>4
    <2> QED BY <1>2, <2>2, <2>5, Basics
  <1>4. \A c \in Calls : entry[c] \in Files \cup {None}
                         /\ (entry[c] # None => content[c][entry[c]].whole)
    BY <1>1, Basics
  <1>5. CacheTyped
    <2>1. content \in [Calls -> [Files -> Contents]]
      <3>1. \A c \in Calls : content[c] \in [Files -> Contents]
        <4> TAKE c \in Calls
        <4>1. \A f \in Files : content[c][f] \in Contents
          BY <1>3
        <4>2. content[c] = [f \in Files |-> content[c][f]]
          BY <1>1
        <4> QED BY <4>1, <4>2
      <3>2. content = [c \in Calls |-> content[c]]
        BY <1>1
      <3> QED BY <3>1, <3>2
    <2> QED BY <1>1, <1>4, <2>1 DEF CacheTyped
  <1>6. AnswersTyped
    <2>1. \A c \in Calls : answers[c] \in [Files -> Contents]
      <3> TAKE c \in Calls
      <3>1. \A f \in Files : answers[c][f] \in Contents
        BY <1>3
      <3>2. answers[c] = [f \in Files |-> answers[c][f]]
        BY <1>1
      <3> QED BY <3>1, <3>2
    <2>2. answers = [c \in Calls |-> answers[c]]
      BY <1>1
    <2> QED BY <2>1, <2>2 DEF AnswersTyped
  <1>7. FunnelTyped /\ Placed
    <2>1. used \in [Funnels -> [Calls -> Contents]]
      <3>1. [c \in Calls |-> Empty] \in [Calls -> Contents]
        BY Basics
      <3> QED BY <3>1 DEF Init
    <2>2. FunnelTyped
      BY <2>1, Basics DEF Init, FunnelTyped, PcValues, Ends
    <2> QED BY <2>2 DEF Init, Placed, Putting
  <1> QED BY <1>3, <1>4, <1>5, <1>6, <1>7, StateParts

LEMMA InitInv == Init => FunnelInv
  <1> HAVE Init
  <1>1. StateInv /\ AnswersTyped
    BY InitState, StateParts
  <1>2. \A c \in Calls, p \in Funnels : p \notin Buyers(c)
    BY <1>1, InitState, Basics, BuyersAre
  <1>3. /\ \A p \in Funnels : /\ pc[p] = "idle" /\ at[p] = 1
                              /\ allowed[p] = {} /\ errors[p] = {}
        /\ artefact.whole = FALSE /\ real.stage = "none"
    BY DEF Init
  <1>4. BuyInv
    <2> SUFFICES ASSUME NEW p \in Funnels
                 PROVE  BuysOnce(p) /\ WithinPlan(p)
      BY DEF BuyInv, Init
    <2>p. plan[p] = [cap |-> 0, calls |-> {}]
      BY DEF Init
    <2>1. \A m \in Models : MayBuy(p, m) = {}
      BY <1>2, <1>3 DEF MayBuy, Calls
    <2>2. \A m \in Models : Cardinality(MayBuy(p, m)) <= plan[p].cap
      <3>1. Cardinality({}) = 0
        BY FS_EmptySet
      <3>2. \A m \in Models : Cardinality(MayBuy(p, m)) = 0
        BY <2>1, <3>1
      <3> QED BY <2>p, <3>2
    <2> QED BY <1>2, <1>3, <2>p, <2>2 DEF BuysOnce, WithinPlan
  <1>5. CacheInv
    BY <1>1, InitState, BuyersAre DEF CacheInv, HoldsAnswers
  <1>6. PutInv
    BY <1>3 DEF PutInv, Putting
  <1>7. UsedInv
    BY <1>3, Sizes DEF UsedInv
  <1> QED BY <1>1, <1>3, <1>4, <1>5, <1>6, <1>7 DEF FunnelInv, ErrorInv, ArtefactInv

LEMMA Stutter == FunnelInv /\ UNCHANGED vars => FunnelInv'
  <1> SUFFICES ASSUME FunnelInv, UNCHANGED vars
               PROVE  FunnelInv'
    OBVIOUS
  <1> USE DEF FunnelInv, vars, cacheVars, funnelVars, holdoutVars
  <1>1. \A c : Buyers(c)' = Buyers(c)
    BY DEF Buyers
  <1>2. \A c : BoughtTwice(c)' = BoughtTwice(c)
    BY <1>1 DEF BoughtTwice
  <1>3. Cleared' = Cleared
    BY DEF Cleared
  <1>4. \A p : CallOf(p)' = CallOf(p)
    BY DEF CallOf, Arm, Seed
  <1>5. StateInv'
    BY DEF StateInv
  <1>6. BuyInv'
    <2>1. \A p, m : MayBuy(p, m)' = MayBuy(p, m)
      BY <1>1 DEF MayBuy
    <2> QED BY <1>1, <2>1 DEF BuyInv, BuysOnce, WithinPlan
  <1>7. CacheInv'
    BY <1>1, <1>2 DEF CacheInv, HoldsAnswers
  <1>8. PutInv'
    BY <1>2, <1>3, <1>4 DEF PutInv, PutsItsOwn, Undisturbed
  <1>9. UsedInv'
    BY <1>1, <1>2, <1>3 DEF UsedInv, Logged
  <1>10. ErrorInv'
    BY <1>1, <1>2, <1>3 DEF ErrorInv, Excused
  <1>11. ArtefactInv'
    <2>1. \A p : ReportOf(p)' = ReportOf(p) /\ AdvancedBy(p)' = AdvancedBy(p)
      BY ReportStays
    <2> QED BY <1>2, <2>1 DEF ArtefactInv, WholeReport, EvaluatedBy
  <1> QED BY <1>5, <1>6, <1>7, <1>8, <1>9, <1>10, <1>11

LEMMA Invariant == Spec => []FunnelInv
  <1>1. FunnelInv /\ [Next]_vars => FunnelInv'
    <2> SUFFICES ASSUME FunnelInv, Next
                 PROVE  FunnelInv'
      BY Stutter
    <2>1. StateInv'
      BY StateStep DEF FunnelInv
    <2> QED BY <2>1, BuyStep, CacheStep, PutStep, UsedStep, ErrorStep, ArtefactStep
            DEF FunnelInv
  <1> QED BY <1>1, InitInv, PTL DEF Spec

\* Whatever a reported arm is selected from was answered to the call it is logged
\* for, and is in the cache, unless it was bought twice or the cache was cleared.
\* Code: llm/cache.py 1-6 and experimentalist/sources.py 264-267.
THEOREM LoggedFirst == Spec => []LoggedBeforeSelection
  <1>1. FunnelInv => LoggedBeforeSelection
    <2> SUFFICES ASSUME FunnelInv, NEW p \in Funnels, pc[p] \in {"report", "done"},
                        NEW m \in Models \ errors[p], NEW s \in Seeds,
                        NEW c \in Calls, c = <<m, s>>
                 PROVE  /\ \E q \in Buyers(c) : used[p][c] = answers[c][q]
                        /\ \/ BoughtTwice(c) \/ <<"cleared", None>> \in faults
                           \/ Readable(Key(m, s)) /\ Text(Key(m, s)) = used[p][c].text
      BY DEF LoggedBeforeSelection, Calls
    <2>1. StateInv /\ UsedInv /\ AnswersTyped
      BY StateParts DEF FunnelInv
    <2>2. Logged(p, c)
      BY <2>1, ReportedIsLogged
    <2>3. PICK q \in Buyers(c) : used[p][c] = answers[c][q]
      BY <2>2 DEF Logged
    <2>4. used[p][c].whole
      BY <2>1, <2>3, BuyersAre
    <2>5. Key(m, s) = c
      BY KeysAreCalls
    <2>6. \/ BoughtTwice(c) \/ <<"cleared", None>> \in faults
          \/ Readable(c) /\ Text(c) = used[p][c].text
      BY <2>2, <2>4 DEF Logged, Cleared, Readable, Text
    <2> QED BY <2>3, <2>5, <2>6
  <1> QED BY <1>1, Invariant, PTL

\* A funnel buys what its pre-flight found missing, within the cap that was given to
\* it, and an arm that is missing from its report has a cause outside: no call that
\* was not planned reaches a vendor, or costs an arm its report.
\* Code: run_rq4_funnel.py 570-588, 609-653 and 758-760.
THEOREM NoArmIsDroppedSilently == Spec => []PlannedOrHalted
  <1>1. FunnelInv => PlannedOrHalted
    <2> SUFFICES ASSUME FunnelInv, NEW p \in Funnels
                 PROVE  /\ <<"vendor", p>> \notin faults =>
                               \A m \in errors[p] : \E s \in Seeds :
                                   \/ BoughtTwice(<<m, s>>)
                                   \/ <<"cleared", None>> \in faults /\ p \in Buyers(<<m, s>>)
                        /\ \A c \in Calls : p \in Buyers(c) => Key(c[1], c[2]) \in plan[p].calls
                        /\ \A m \in Models :
                               Cardinality({s \in Seeds : p \in Buyers(<<m, s>>)}) <= plan[p].cap
      BY DEF PlannedOrHalted
    <2>1. <<"vendor", p>> \notin faults =>
              \A m \in errors[p] : \E s \in Seeds :
                  \/ BoughtTwice(<<m, s>>)
                  \/ <<"cleared", None>> \in faults /\ p \in Buyers(<<m, s>>)
      BY DEF FunnelInv, ErrorInv, Excused, Cleared
    <2>2. WithinPlan(p)
      BY DEF FunnelInv, BuyInv
    <2>3. \A c \in Calls : p \in Buyers(c) => Key(c[1], c[2]) \in plan[p].calls
      <3>1. \A c \in Calls : Key(c[1], c[2]) = c
        BY DEF Calls, Key
      <3> QED BY <2>2, <3>1 DEF WithinPlan
    <2>4. ASSUME NEW m \in Models
          PROVE  Cardinality({s \in Seeds : p \in Buyers(<<m, s>>)}) <= plan[p].cap
      <3> DEFINE A == MayBuy(p, m)
                 B == {s \in Seeds : p \in Buyers(<<m, s>>)}
      <3>1. A \in SUBSET Seeds /\ B \in SUBSET A /\ Cardinality(A) <= plan[p].cap
            /\ plan[p].cap \in Nat
        BY <2>2 DEF MayBuy, WithinPlan
      <3> HIDE DEF A, B
      <3>2. IsFiniteSet(A)
        BY <3>1, SeedsAreFinite, FS_Subset
      <3>3. IsFiniteSet(B) /\ Cardinality(B) <= Cardinality(A)
        BY <3>1, <3>2, FS_Subset
      <3>4. Cardinality(A) \in Nat /\ Cardinality(B) \in Nat
        BY <3>2, <3>3, FS_CardinalityType
      <3>5. Cardinality(B) <= plan[p].cap
        BY <3>1, <3>3, <3>4
      <3> QED BY <3>5 DEF B
    <2> QED BY <2>1, <2>3, <2>4
  <1> QED BY <1>1, Invariant, PTL

\* What the one-shot holdout evaluates under an id is what a finished funnel
\* advanced under it, all of it and nothing else, unless an answer behind it was
\* bought more than once.
\* Code: survivor_inputs.py 92-147 and llm_source.py 65-81.
THEOREM TheFunnelsAreEvaluated == Spec => []SurvivorsAreTheFunnels
  <1>1. FunnelInv => SurvivorsAreTheFunnels
    <2> SUFFICES ASSUME FunnelInv, real.stage = "evaluated",
                        \A m \in DOMAIN real.survivors : ~BoughtTwice(<<m, 0>>)
                 PROVE  real.survivors =
                            [m \in {x \in DOMAIN Reports(real.by) :
                                       DOMAIN Reports(real.by)[x] # {}}
                                  |-> Reports(real.by)[m]]
      BY DEF SurvivorsAreTheFunnels
    <2> PICK p \in Funnels : EvaluatedBy(p)
      BY DEF FunnelInv, ArtefactInv
    <2>1. real.by = p /\ real.survivors = AdvancedBy(p)
      BY DEF EvaluatedBy
    <2> QED BY <2>1 DEF AdvancedBy
  <1> QED BY <1>1, Invariant, PTL

===============================================================================
