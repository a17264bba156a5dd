---------------------------- MODULE GateStackProofs ----------------------------
(***************************************************************************)
(* What holds of every batch that goes through the gates, of any size, with *)
(* any keys, signatures, p-values, signs and medians: no strategy is tested *)
(* twice, the family is tested by the step-up procedure, a wrong-signed     *)
(* rejection is counted and not advanced, and the labels, the refusal codes *)
(* and the list that goes on agree.                                         *)
(***************************************************************************)
EXTENDS GateStack, FiniteSetTheorems, WellFoundedInduction, TLAPS

-------------------------------------------------------------------------------
(* The inductive invariants.                                                *)

Phases == {"A", "B", "C", "D", "done"}

\* Proposals are taken in order, and of a signature only the first gets through.
OrderInv ==
    /\ key \in [Proposals -> Keys]
    /\ phase \in Phases /\ cursor \in Nat \ {0}
    /\ auditClean \in Seq(Proposals)
    /\ phase = "A" => \A i \in DOMAIN auditClean : auditClean[i] < cursor
    /\ phase = "B" => cursor > N
    /\ phase = "C" => cursor <= Len(auditClean) + 1
    /\ \A i \in DOMAIN auditClean : Signature(auditClean[i]) \in seenTransforms
    /\ OneHypothesisPerStrategy

\* The clean proposals whose outcome is decided.
Settled ==
    IF phase \in {"A", "B"} THEN {}
    ELSE IF phase = "C" THEN {auditClean[i] : i \in 1 .. cursor - 1}
    ELSE Clean

\* What phase A may store.
Refusals ==
    {[holds |-> {"not_duplicate"}, refusal |-> "G0_REFUSAL"],
     [holds |-> {"authorised"}, refusal |-> "DUPLICATE_PROPOSAL"],
     [holds |-> G0Fields, refusal |-> "COMPILATION_FAILED"],
     [holds |-> G0Fields \cup {"compiled"}, refusal |-> "DUPLICATE_PROPOSAL"]}
    \cup {[holds |-> G0Fields \cup {"compiled"}, refusal |-> c] :
              c \in {"EXECUTION_MISMATCH", "MISSING_INPUT"}}
    \cup {[holds |-> G0Fields \cup {"compiled", "execution_verified"}, refusal |-> c] :
              c \in G2Codes}

Qualified == {survivors[i].id : i \in DOMAIN survivors}

\* What phase C stores of p.
Result(p) ==
    [holds |-> CleanFields
         \cup (IF Survived(p) THEN {"bh_survived"} ELSE {})
         \cup (IF p \in Qualified THEN {"cpcv_qualified"} ELSE {}),
     refusal |-> None]

StoredInv ==
    /\ DOMAIN stored = Proposals
    /\ \A p \in Proposals : phase = "A" /\ p < cursor /\ p \notin Clean => stored[p] \in Refusals
    /\ \A p \in Proposals : phase # "A" /\ p \notin Clean => stored[p] \in Refusals
    /\ \A p \in Settled : stored[p] = Result(p)

SurvivorInv ==
    /\ survivors \in Seq([id : Proposals, median : Medians])
    /\ \A i, j \in DOMAIN survivors : survivors[i].id = survivors[j].id => i = j
    /\ \A p \in Qualified : p \in Settled /\ Survived(p)

CountInv ==
    /\ phase \notin {"A", "B"} => rejected \subseteq Clean
    /\ wrongSigned = Cardinality((Settled \cap rejected) \ right)

\* How phase A knows a duplicate: every key and signature it has seen has an original,
\* and what it has found to be a duplicate has one, and is labelled by its key.
Original(p) == stored[p].refusal \notin G0Codes
SeenInv ==
    /\ \A k \in seen : \E e \in Proposals :
           e < cursor /\ key[e] = k /\ stored[e].refusal # "G0_REFUSAL"
    /\ \A e \in Proposals :
           e < cursor /\ stored[e].refusal # "G0_REFUSAL" => key[e] \in seen
    /\ \A k \in seen : \E e \in Proposals :
           e < cursor /\ Original(e) /\ (key[e] = k \/ Signature(e) = Compiled[k])
    /\ \A t \in seenTransforms : \E e \in Proposals :
           e < cursor /\ Original(e) /\ Signature(e) = t
    /\ \A p \in Proposals : p >= cursor => stored[p] = Unstored
DuplicateInv ==
    \A p \in Proposals : stored[p].refusal = "DUPLICATE_PROPOSAL" =>
        HasOriginal(p) /\ ("not_duplicate" \in stored[p].holds <=> ~Repeats(p))
RepeatInv ==
    /\ phase = "A" => SeenInv
    /\ \A p \in Clean : Original(p)
    /\ DuplicateInv

AdvancedInv ==
    phase = "done" => {advanced[i] : i \in DOMAIN advanced} = Qualified

-------------------------------------------------------------------------------
(* Numbers and fractions.                                                   *)

LEMMA LeastNumber == ASSUME NEW T \in SUBSET Nat, T # {} PROVE \E n \in T : \A m \in T : n <= m
  <1> DEFINE R == {ss \in Nat \X Nat : ss[1] < ss[2]}
  <1>1. IsWellFoundedOn(R, Nat)
    BY NatLessThanWellFounded DEF OpToRel
  <1>2. \A x, y \in Nat : y < x => <<y, x>> \in R
    OBVIOUS
  <1> HIDE DEF R
  <1>3. PICK n \in T : \A y \in T : ~ (<<y, n>> \in R)
    BY <1>1, WFMin
  <1>4. ASSUME NEW m \in T PROVE n <= m
    <2>1. ~(m < n) /\ m \in Nat /\ n \in Nat
      BY <1>2, <1>3
    <2> QED BY <2>1
  <1> QED BY <1>4

\* A set of numbers that holds 0 and the successor of each of its members.
LEMMA NumberInduction ==
    ASSUME NEW G, 0 \in G, \A n \in Nat : n \in G => n + 1 \in G PROVE Nat \subseteq G
  <1> DEFINE T == {n \in Nat : n \notin G}
  <1> SUFFICES ASSUME T # {} PROVE FALSE
    OBVIOUS
  <1> HIDE DEF T
  <1>1. T \in SUBSET Nat
    BY DEF T
  <1>2. PICK n \in T : \A m \in T : n <= m
    BY <1>1, LeastNumber, Zenon
  <1>3. n # 0 /\ n - 1 \in Nat /\ n - 1 \notin T
    BY <1>2 DEF T
  <1> QED BY <1>2, <1>3 DEF T

Fractions == Nat \X (Nat \ {0})

\* The lesser of two fractions is at most a whole number just if one of them is.
LEMMA LesserAtMost ==
    ASSUME NEW x \in Fractions, NEW y \in Fractions, NEW q \in Nat
    PROVE  /\ Lesser(x, y) \in Fractions
           /\ AtMost(Lesser(x, y), <<q, 1>>) <=> AtMost(x, <<q, 1>>) \/ AtMost(y, <<q, 1>>)
  <1>1. PICK a \in Nat, b \in Nat \ {0}, c \in Nat, d \in Nat \ {0} : x = <<a, b>> /\ y = <<c, d>>
    BY DEF Fractions
  <1>2. Lesser(x, y) \in Fractions
    BY DEF Lesser
  <1>3. /\ AtMost(x, y) <=> a * d <= c * b
        /\ AtMost(x, <<q, 1>>) <=> a <= q * b
        /\ AtMost(y, <<q, 1>>) <=> c <= q * d
    BY <1>1 DEF AtMost
  <1>4. a * d <= c * b /\ c <= q * d => a <= q * b
    <2> SUFFICES ASSUME a * d <= c * b, c <= q * d, a > q * b PROVE FALSE
      OBVIOUS
    <2>1. c * b <= (q * d) * b
      OBVIOUS
    <2>2. a * d > (q * b) * d
      OBVIOUS
    <2>3. (q * d) * b = (q * b) * d
      OBVIOUS
    <2> QED BY <2>1, <2>2, <2>3
  <1>5. c * b <= a * d /\ a <= q * b => c <= q * d
    <2> SUFFICES ASSUME c * b <= a * d, a <= q * b, c > q * d PROVE FALSE
      OBVIOUS
    <2>1. a * d <= (q * b) * d
      OBVIOUS
    <2>2. c * b > (q * d) * b
      OBVIOUS
    <2>3. (q * d) * b = (q * b) * d
      OBVIOUS
    <2> QED BY <2>1, <2>2, <2>3
  <1>6. ~(a * d <= c * b) => c * b <= a * d
    OBVIOUS
  <1> QED BY <1>2, <1>3, <1>4, <1>5, <1>6 DEF Lesser

-------------------------------------------------------------------------------
(* The step-up procedure.                                                   *)

\* Every position of the sorted family is that of exactly one test.
LEMMA Ranked ==
    ASSUME NEW f, IsFiniteSet(DOMAIN f), DOMAIN f \subseteq Nat, \A k \in DOMAIN f : f[k] \in Nat
    PROVE  /\ Size(f) \in Nat
           /\ \A k \in DOMAIN f : Rank(f, k) \in 1 .. Size(f)
           /\ \A i \in 1 .. Size(f) : Sorted(f)[i] \in Nat
  <1> DEFINE K == DOMAIN f
             m == Size(f)
             first(k) == {j \in K : f[j] < f[k] \/ (f[j] = f[k] /\ j <= k)}
             rk == [k \in K |-> Rank(f, k)]
  <1>1. m \in Nat /\ m = Cardinality(K)
    BY FS_CardinalityType DEF Size
  <1>2. \A k \in K : /\ first(k) \in SUBSET K /\ IsFiniteSet(first(k)) /\ k \in first(k)
                     /\ Cardinality(first(k)) \in Nat
    <2> TAKE k \in K
    <2>1. first(k) \in SUBSET K /\ k \in first(k)
      OBVIOUS
    <2> HIDE DEF first
    <2> QED BY <2>1, FS_Subset, FS_CardinalityType
  <1>3. \A k, l \in K : k # l => \/ first(k) \in SUBSET (first(l) \ {l})
                                 \/ first(l) \in SUBSET (first(k) \ {k})
    <2> SUFFICES ASSUME NEW k \in K, NEW l \in K, k # l,
                        f[k] < f[l] \/ (f[k] = f[l] /\ k < l)
                 PROVE  first(k) \in SUBSET (first(l) \ {l})
      OBVIOUS
    <2> QED OBVIOUS
  <1>4. \A k \in K : Rank(f, k) = Cardinality(first(k))
    BY DEF Rank
  <1> HIDE DEF first
  <1>5. \A k \in K : Cardinality(first(k)) \in 1 .. m
    <2> TAKE k \in K
    <2>1. Cardinality(first(k)) <= m
      BY <1>1, <1>2, FS_Subset
    <2>2. Cardinality(first(k)) # 0
      BY <1>2, FS_EmptySet
    <2> HIDE DEF m
    <2> QED BY <1>1, <1>2, <2>1, <2>2
  <1>6. \A k, l \in K : first(k) \in SUBSET (first(l) \ {l})
                            => Cardinality(first(k)) < Cardinality(first(l))
    <2> SUFFICES ASSUME NEW k \in K, NEW l \in K, first(k) \in SUBSET (first(l) \ {l})
                 PROVE  Cardinality(first(k)) < Cardinality(first(l))
      OBVIOUS
    <2>1. IsFiniteSet(first(l)) /\ l \in first(l)
      BY <1>2
    <2>2. /\ IsFiniteSet(first(l) \ {l})
          /\ Cardinality(first(l) \ {l}) = Cardinality(first(l)) - 1
      BY <2>1, FS_RemoveElement
    <2>3. Cardinality(first(k)) <= Cardinality(first(l) \ {l})
      BY <2>2, FS_Subset
    <2> QED BY <1>2, <2>2, <2>3
  <1>7. rk \in Injection(K, 1 .. m)
    <2>1. \A k, l \in K : Rank(f, k) = Rank(f, l) => k = l
      <3> SUFFICES ASSUME NEW k \in K, NEW l \in K, Rank(f, k) = Rank(f, l), k # l
                   PROVE  FALSE
        OBVIOUS
      <3>1. \/ Cardinality(first(k)) < Cardinality(first(l))
            \/ Cardinality(first(l)) < Cardinality(first(k))
        BY <1>3, <1>6
      <3> QED BY <1>2, <1>4, <3>1
    <2>2. \A k \in K : Rank(f, k) \in 1 .. m
      BY <1>4, <1>5
    <2> HIDE DEF m
    <2> QED BY <2>1, <2>2 DEF Injection, IsInjective
  <1>8. IsFiniteSet(1 .. m) /\ Cardinality(1 .. m) = m
    BY <1>1, FS_Interval
  <1> HIDE DEF m
  <1>9. rk \in Surjection(K, 1 .. m)
    <2> HIDE DEF rk
    <2> QED BY <1>1, <1>7, <1>8, FS_Injection
  <1>10. \A i \in 1 .. m : \E k \in K : Rank(f, k) = i
    BY <1>9 DEF Surjection
  <1>11. \A i \in 1 .. m : (CHOOSE k \in K : Rank(f, k) = i) \in K
    BY <1>10
  <1>12. \A i \in 1 .. m : Sorted(f)[i] \in Nat
    BY <1>11 DEF Sorted, m
  <1> QED BY <1>1, <1>4, <1>5, <1>12 DEF m

\* The step of the loop, for position i of m, over the p-values p.
AdjustedAt(p, m, one, i, run) ==
    Lesser(IF i = m THEN <<one, 1>> ELSE run[i + 1], <<p[i] * m, i>>)

IsRun(p, m, one, run) == run = [i \in 1 .. m |-> AdjustedAt(p, m, one, i, run)]

\* The loop has an outcome.
LEMMA RunExists ==
    ASSUME NEW m \in Nat, NEW p, NEW one
    PROVE  \E run : IsRun(p, m, one, run)
  <1> DEFINE Upper(n) == {i \in 1 .. m : m - n < i}
             Run(n, run) == run = [i \in Upper(n) |-> AdjustedAt(p, m, one, i, run)]
             G == {n \in Nat : \E run : Run(n, run)}
  <1>1. 0 \in G
    <2>1. Upper(0) = {}
      OBVIOUS
    <2>2. Run(0, [i \in {} |-> 0])
      BY <2>1
    <2> QED BY <2>2
  <1>2. ASSUME NEW n \in Nat, n \in G PROVE n + 1 \in G
    <2>1. PICK run : Run(n, run)
      BY <1>2
    <2> DEFINE next == [i \in Upper(n + 1) |-> IF i \in Upper(n) THEN run[i]
                                               ELSE AdjustedAt(p, m, one, i, run)]
    <2>2. \A i \in Upper(n + 1) : i # m => i + 1 \in Upper(n)
      OBVIOUS
    <2>3. \A i \in Upper(n) : i \in Upper(n + 1)
      OBVIOUS
    <2>4. \A i \in Upper(n) : run[i] = AdjustedAt(p, m, one, i, run) /\ next[i] = run[i]
      BY <2>1, <2>3
    <2> HIDE DEF Upper
    <2>5. \A i \in Upper(n + 1) : next[i] = AdjustedAt(p, m, one, i, run)
      BY <2>4
    <2> HIDE DEF next
    <2>6. \A i \in Upper(n + 1) : AdjustedAt(p, m, one, i, run) = AdjustedAt(p, m, one, i, next)
      BY <2>2, <2>4 DEF AdjustedAt
    <2>7. Run(n + 1, next)
      BY <2>5, <2>6 DEF next
    <2> QED BY <2>7
  <1>3. Upper(m) = 1 .. m
    OBVIOUS
  <1> HIDE DEF Upper
  <1>4. m \in G
    <2> HIDE DEF G
    <2> QED BY <1>1, <1>2, NumberInduction
  <1>5. PICK run : Run(m, run)
    BY <1>4
  <1>6. IsRun(p, m, one, run)
    BY <1>3, <1>5 DEF IsRun
  <1> QED BY <1>6

LEMMA AdjustedStep ==
    ASSUME NEW f, Size(f) \in Nat, NEW one, NEW i \in 1 .. Size(f)
    PROVE  Adjusted(f, one)[i] = AdjustedAt(Sorted(f), Size(f), one, i, Adjusted(f, one))
  <1> DEFINE R(run) == IsRun(Sorted(f), Size(f), one, run)
  <1>1. Adjusted(f, one) = CHOOSE run : R(run)
    BY DEF Adjusted, AdjustedAt, IsRun
  <1>2. \E run : R(run)
    BY RunExists
  <1>3. R(Adjusted(f, one))
    <2> HIDE DEF R
    <2> QED BY <1>1, <1>2
  <1> QED BY <1>3 DEF IsRun

\* An adjusted p-value is at most q just if some rank from its own up is under.
LEMMA AdjustedAtMost ==
    ASSUME NEW f, Size(f) \in Nat, \A i \in 1 .. Size(f) : Sorted(f)[i] \in Nat,
           NEW one \in Nat, NEW q \in Nat, q < one, NEW i \in 1 .. Size(f)
    PROVE  AtMost(Adjusted(f, one)[i], <<q, 1>>)
               <=> \E j \in i .. Size(f) : Sorted(f)[j] * Size(f) <= j * q
  <1> DEFINE m == Size(f)
             p == Sorted(f)
             run == Adjusted(f, one)
             under(j) == p[j] * m <= j * q
             Good(k) == /\ run[k] \in Fractions
                        /\ AtMost(run[k], <<q, 1>>) <=> \E j \in k .. m : under(j)
             G == {n \in Nat : n >= m \/ Good(m - n)}
  <1>1. \A k \in 1 .. m : /\ <<p[k] * m, k>> \in Fractions
                          /\ AtMost(<<p[k] * m, k>>, <<q, 1>>) <=> under(k)
    BY DEF Fractions, AtMost
  <1>2. <<one, 1>> \in Fractions /\ ~AtMost(<<one, 1>>, <<q, 1>>)
    BY DEF Fractions, AtMost
  <1>3. \A k \in 1 .. m : run[k] = Lesser(IF k = m THEN <<one, 1>> ELSE run[k + 1], <<p[k] * m, k>>)
    BY AdjustedStep DEF AdjustedAt
  <1> HIDE DEF run, p, under
  <1>4. ASSUME m # 0 PROVE Good(m)
    <2>1. m \in 1 .. m /\ m .. m = {m}
      BY <1>4
    <2>2. run[m] = Lesser(<<one, 1>>, <<p[m] * m, m>>)
      BY <1>3, <2>1
    <2>3. /\ run[m] \in Fractions
          /\ AtMost(run[m], <<q, 1>>) <=> under(m)
      <3> DEFINE x == <<one, 1>>
                 y == <<p[m] * m, m>>
      <3>1. /\ x \in Fractions /\ ~AtMost(x, <<q, 1>>)
            /\ y \in Fractions /\ (AtMost(y, <<q, 1>>) <=> under(m))
            /\ run[m] = Lesser(x, y)
        BY <1>1, <1>2, <2>1, <2>2
      <3> HIDE DEF x, y
      <3> QED BY <3>1, LesserAtMost
    <2> HIDE DEF m
    <2> QED BY <2>1, <2>3
  <1>5. ASSUME NEW k \in 1 .. m, k # m, Good(k + 1) PROVE Good(k)
    <2>1. run[k] = Lesser(run[k + 1], <<p[k] * m, k>>)
      BY <1>3, <1>5
    <2>2. k .. m = {k} \cup ((k + 1) .. m)
      OBVIOUS
    <2>3. /\ run[k] \in Fractions
          /\ AtMost(run[k], <<q, 1>>) <=> AtMost(run[k + 1], <<q, 1>>) \/ under(k)
      BY <1>1, <1>5, <2>1, LesserAtMost
    <2> QED BY <1>5, <2>2, <2>3
  <1> HIDE DEF Good
  <1>6. 0 \in G
    BY <1>4
  <1>7. ASSUME NEW n \in Nat, n \in G PROVE n + 1 \in G
    <2>1. CASE n + 1 < m
      <3>1. m - (n + 1) \in 1 .. m /\ m - (n + 1) # m /\ (m - (n + 1)) + 1 = m - n
        BY <2>1
      <3>2. Good(m - n)
        BY <1>7, <2>1
      <3>3. Good(m - (n + 1))
        BY <1>5, <3>1, <3>2
      <3> QED BY <3>3
    <2>2. CASE ~(n + 1 < m)
      BY <2>2
    <2> QED BY <2>1, <2>2
  <1>8. m - i \in G
    <2> HIDE DEF G
    <2>1. Nat \subseteq G
      BY <1>6, <1>7, NumberInduction
    <2>2. m - i \in Nat
      OBVIOUS
    <2> QED BY <2>1, <2>2
  <1>9. m - (m - i) = i /\ ~(m - i >= m)
    OBVIOUS
  <1>10. Good(i)
    BY <1>8, <1>9
  <1> QED BY <1>10 DEF Good, run, p, under

\* benjamini_hochberg is the textbook's procedure.
LEMMA RejectedIsStepUp ==
    ASSUME NEW f, IsFiniteSet(DOMAIN f), DOMAIN f \subseteq Nat, \A k \in DOMAIN f : f[k] \in Nat,
           NEW one \in Nat, NEW q \in Nat, q < one
    PROVE  Rejected(f, q, one) = StepUp(f, q)
  <1>1. /\ Size(f) \in Nat
        /\ \A k \in DOMAIN f : Rank(f, k) \in 1 .. Size(f)
        /\ \A i \in 1 .. Size(f) : Sorted(f)[i] \in Nat
    BY Ranked
  <1>2. \A k \in DOMAIN f : \A i \in 1 .. Size(f) :
            i \in Rank(f, k) .. Size(f) <=> Rank(f, k) <= i
    BY <1>1
  <1>3. \A k \in DOMAIN f :
            AtMost(Adjusted(f, one)[Rank(f, k)], <<q, 1>>)
                <=> \E j \in Rank(f, k) .. Size(f) : Sorted(f)[j] * Size(f) <= j * q
    BY <1>1, AdjustedAtMost
  <1>4. \A k \in DOMAIN f : Rank(f, k) .. Size(f) \subseteq 1 .. Size(f)
    BY <1>1
  <1>5. \A k \in DOMAIN f : k \in Rejected(f, q, one) <=> k \in StepUp(f, q)
    <2> TAKE k \in DOMAIN f
    <2>1. k \in Rejected(f, q, one) <=> AtMost(Adjusted(f, one)[Rank(f, k)], <<q, 1>>)
      BY DEF Rejected
    <2>2. k \in StepUp(f, q) <=> \E i \in 1 .. Size(f) : /\ Sorted(f)[i] * Size(f) <= i * q
                                                         /\ Rank(f, k) <= i
      BY DEF StepUp
    <2> QED BY <1>2, <1>3, <1>4, <2>1, <2>2
  <1>6. Rejected(f, q, one) \subseteq DOMAIN f /\ StepUp(f, q) \subseteq DOMAIN f
    BY DEF Rejected, StepUp
  <1> QED BY <1>5, <1>6

-------------------------------------------------------------------------------
(* What the selector returns.                                               *)

\* No cap: everything that is handed to the selector comes out of it, once.
LEMMA Selected ==
    ASSUME NEW ss, IsFiniteSet(ss), ss \subseteq [id : Nat, median : Nat],
           \A s, t \in ss : s.id = t.id => s = t
    PROVE  {Select(ss)[i] : i \in DOMAIN Select(ss)} = {s.id : s \in ss}
  <1> DEFINE before(s, t) == s.median > t.median \/ (s.median = t.median /\ s.id < t.id)
             ahead(s) == {t \in ss : before(t, s)}
             place(s) == Cardinality(ahead(s)) + 1
             n == Cardinality(ss)
             pl == [s \in ss |-> place(s)]
  <1>1. Select(ss) = [i \in 1 .. n |-> (CHOOSE s \in ss : place(s) = i).id]
    BY DEF Select
  <1>2. \A s \in ss : s.id \in Nat /\ s.median \in Nat
    OBVIOUS
  <1>3. /\ \A s \in ss : ~before(s, s)
        /\ \A s, t \in ss : s # t => before(s, t) \/ before(t, s)
        /\ \A s, t, u \in ss : before(u, s) /\ before(s, t) => before(u, t)
    BY <1>2
  <1> HIDE DEF before
  <1>4. \A s \in ss : /\ IsFiniteSet(ahead(s)) /\ Cardinality(ahead(s)) \in Nat
                      /\ s \notin ahead(s) /\ ahead(s) \in SUBSET ss
    <2> TAKE s \in ss
    <2>1. s \notin ahead(s) /\ ahead(s) \in SUBSET ss
      BY <1>3
    <2>2. IsFiniteSet(ahead(s))
      BY <2>1, FS_Subset
    <2> HIDE DEF ahead
    <2> QED BY <2>1, <2>2, FS_CardinalityType
  <1>5. \A s, t \in ss : before(s, t) => ahead(s) \cup {s} \in SUBSET ahead(t)
    BY <1>3
  <1> HIDE DEF ahead
  <1>6. n \in Nat
    BY FS_CardinalityType
  <1>7. \A s \in ss : /\ IsFiniteSet(ahead(s) \cup {s})
                      /\ Cardinality(ahead(s) \cup {s}) = place(s)
    BY <1>4, FS_AddElement
  <1>8. \A s \in ss : place(s) \in 1 .. n
    <2> TAKE s \in ss
    <2>1. ahead(s) \cup {s} \in SUBSET ss
      BY <1>4
    <2>2. Cardinality(ahead(s) \cup {s}) <= n
      BY <2>1, FS_Subset
    <2>3. place(s) <= n
      BY <1>7, <2>2
    <2>4. place(s) \in Nat \ {0}
      <3>1. Cardinality(ahead(s)) \in Nat
        BY <1>4
      <3> QED BY <3>1
    <2> HIDE DEF place, n
    <2> QED BY <1>6, <2>3, <2>4
  <1>9. \A s, t \in ss : before(s, t) => place(s) < place(t)
    <2> SUFFICES ASSUME NEW s \in ss, NEW t \in ss, before(s, t)
                 PROVE  place(s) < place(t)
      OBVIOUS
    <2>1. ahead(s) \cup {s} \in SUBSET ahead(t) /\ IsFiniteSet(ahead(t))
      BY <1>4, <1>5
    <2>2. Cardinality(ahead(s) \cup {s}) <= Cardinality(ahead(t))
      BY <2>1, FS_Subset
    <2>3. place(s) <= Cardinality(ahead(t))
      BY <1>7, <2>2
    <2> DEFINE c == Cardinality(ahead(t))
    <2>4. place(t) = c + 1 /\ c \in Nat
      BY <1>4
    <2>5. place(s) \in Nat
      <3>1. Cardinality(ahead(s)) \in Nat
        BY <1>4
      <3> QED BY <3>1
    <2>6. place(s) <= c
      BY <2>3
    <2> HIDE DEF place, c
    <2> QED BY <2>4, <2>5, <2>6
  <1>10. \A s, t \in ss : place(s) = place(t) => s = t
    <2> SUFFICES ASSUME NEW s \in ss, NEW t \in ss, place(s) = place(t), s # t
                 PROVE  FALSE
      OBVIOUS
    <2>1. place(s) < place(t) \/ place(t) < place(s)
      BY <1>3, <1>9
    <2> QED BY <1>8, <2>1
  <1> HIDE DEF place
  <1>11. pl \in Surjection(ss, 1 .. n)
    <2>1. pl \in Injection(ss, 1 .. n)
      BY <1>8, <1>10 DEF Injection, IsInjective
    <2>2. IsFiniteSet(1 .. n) /\ Cardinality(1 .. n) = n
      BY <1>6, FS_Interval
    <2> HIDE DEF pl
    <2> QED BY <2>1, <2>2, FS_Injection
  <1>12. \A i \in 1 .. n : \E s \in ss : place(s) = i
    BY <1>11 DEF Surjection
  <1>13. \A s \in ss : s = CHOOSE t \in ss : place(t) = place(s)
    BY <1>10
  <1>14. \A i \in 1 .. n : \E s \in ss : Select(ss)[i] = s.id
    BY <1>1, <1>12
  <1>15. \A s \in ss : place(s) \in 1 .. n /\ Select(ss)[place(s)] = s.id
    BY <1>1, <1>8, <1>13
  <1>16. DOMAIN Select(ss) = 1 .. n
    BY <1>1
  <1> QED BY <1>14, <1>15, <1>16

-------------------------------------------------------------------------------
(* The steps.                                                               *)

\* The six ways in which phase A stores p, in one.
Refuse(p, r) ==
    /\ phase = "A" /\ cursor = p
    /\ stored' = [stored EXCEPT ![p] = r]
    /\ cursor' = cursor + 1
    /\ UNCHANGED <<key, phase, auditClean, downstream>>
    /\ seenTransforms \subseteq seenTransforms'

LEMMA Refused ==
    ASSUME NEW p \in Proposals,
           \/ RefuseIntegrity(p) \/ RefuseDuplicate(p) \/ FailCompilation(p)
           \/ RefuseSameTransform(p) \/ FailExecution(p) \/ FailAudit(p)
    PROVE  \E r \in Refusals : Refuse(p, r)
  <1>1. CASE RefuseIntegrity(p)
    BY <1>1 DEF RefuseIntegrity, Stop, Refuse, Refusals
  <1>2. CASE RefuseDuplicate(p)
    BY <1>2 DEF RefuseDuplicate, Stop, Refuse, Refusals
  <1>3. CASE FailCompilation(p)
    BY <1>3 DEF FailCompilation, Stop, Refuse, Refusals
  <1>4. CASE RefuseSameTransform(p)
    BY <1>4 DEF RefuseSameTransform, Stop, Refuse, Refusals
  <1>5. CASE FailExecution(p)
    BY <1>5 DEF FailExecution, NoteDistinct, Stop, Refuse, Refusals
  <1>6. CASE FailAudit(p)
    BY <1>6 DEF FailAudit, NoteDistinct, Stop, Refuse, Refusals
  <1> QED BY <1>1, <1>2, <1>3, <1>4, <1>5, <1>6

LEMMA Cases ==
    ASSUME Next
    PROVE  \/ \E p \in Proposals : \E r \in Refusals : Refuse(p, r)
           \/ \E p \in Proposals : PassAudit(p) \/ NoEvidence(p) \/ Robustness(p)
           \/ EndPhaseA \/ DecideFamily \/ EndPhaseC \/ Advance
  BY Refused DEF Next

LEMMA Grows ==
    ASSUME NEW S, NEW s \in Seq(S), NEW e \in S
    PROVE  /\ Append(s, e) \in Seq(S)
           /\ DOMAIN s = 1 .. Len(s) /\ Len(s) \in Nat
           /\ DOMAIN Append(s, e) = DOMAIN s \cup {Len(s) + 1}
           /\ Len(s) + 1 \notin DOMAIN s
           /\ \A i \in DOMAIN s : Append(s, e)[i] = s[i]
           /\ Append(s, e)[Len(s) + 1] = e
  OBVIOUS

LEMMA OrderStep ==
    ASSUME OrderInv, Next
    PROVE  OrderInv'
  <1> USE DEF downstream
  <1>a. /\ auditClean \in Seq(Proposals) /\ DOMAIN auditClean = 1 .. Len(auditClean)
        /\ Len(auditClean) \in Nat /\ cursor \in Nat \ {0} /\ N \in Nat
    BY GateStackAssumption DEF OrderInv
  <1>1. ASSUME NEW p \in Proposals, NEW r \in Refusals, Refuse(p, r)
        PROVE  OrderInv'
    <2>1. \A i \in DOMAIN auditClean : auditClean[i] < cursor /\ auditClean[i] \in Nat
      BY <1>1, <1>a DEF OrderInv, Refuse, Proposals
    <2>2. \A i \in DOMAIN auditClean' : auditClean'[i] < cursor'
      BY <1>1, <1>a, <2>1 DEF Refuse
    <2>3. cursor' \in Nat \ {0}
      BY <1>1, <1>a DEF Refuse
    <2> QED BY <1>1, <2>2, <2>3 DEF Refuse, OrderInv, Signature, OneHypothesisPerStrategy
  <1>2. ASSUME NEW p \in Proposals, PassAudit(p)
        PROVE  OrderInv'
    <2> DEFINE n == Len(auditClean)
    <2>1. /\ auditClean' \in Seq(Proposals)
          /\ DOMAIN auditClean' = DOMAIN auditClean \cup {n + 1}
          /\ n + 1 \notin DOMAIN auditClean
          /\ \A i \in DOMAIN auditClean : auditClean'[i] = auditClean[i]
          /\ auditClean'[n + 1] = p
      BY <1>2, <1>a, Grows DEF PassAudit
    <2>2. /\ phase = "A" /\ cursor = p /\ cursor' = cursor + 1 /\ UNCHANGED <<key, phase>>
          /\ Signature(p) \notin seenTransforms
          /\ seenTransforms' = seenTransforms \cup {Signature(p)}
      BY <1>2 DEF PassAudit, NoteDistinct, Distinct
    <2> HIDE DEF n
    <2>3. \A i \in DOMAIN auditClean' : auditClean'[i] < cursor'
      <3>1. \A i \in DOMAIN auditClean : auditClean[i] < cursor /\ auditClean[i] \in Nat
        BY <1>a, <2>2 DEF OrderInv, Proposals
      <3> QED BY <1>a, <2>1, <2>2, <3>1 DEF Proposals
    <2>4. \A i \in DOMAIN auditClean' :
              Compiled[key'[auditClean'[i]]] \in seenTransforms'
      BY <2>1, <2>2 DEF OrderInv, Signature
    <2>5. \A i, j \in DOMAIN auditClean' :
              Compiled[key'[auditClean'[i]]] = Compiled[key'[auditClean'[j]]] => i = j
      <3>1. \A i \in DOMAIN auditClean : Compiled[key[auditClean[i]]] # Compiled[key[p]]
        BY <2>2 DEF OrderInv, Signature
      <3>2. \A i, j \in DOMAIN auditClean :
                Compiled[key[auditClean[i]]] = Compiled[key[auditClean[j]]] => i = j
        BY DEF OrderInv, OneHypothesisPerStrategy, Signature
      <3> QED BY <2>1, <2>2, <3>1, <3>2
    <2>6. cursor' \in Nat \ {0}
      BY <1>a, <2>2
    <2> QED BY <2>1, <2>2, <2>3, <2>4, <2>5, <2>6
            DEF OrderInv, OneHypothesisPerStrategy, Signature
  <1>3. ASSUME NEW p \in Proposals, NoEvidence(p) \/ Robustness(p)
        PROVE  OrderInv'
    <2>1. /\ UNCHANGED <<key, phase, auditClean, seenTransforms>> /\ phase = "C"
          /\ cursor \in DOMAIN auditClean /\ cursor' = cursor + 1
      BY <1>3 DEF NoEvidence, Robustness, StoreClean
    <2>2. cursor' \in Nat \ {0} /\ cursor' <= Len(auditClean) + 1
      BY <1>a, <2>1
    <2> QED BY <2>1, <2>2 DEF OrderInv, OneHypothesisPerStrategy, Signature
  <1>4. CASE EndPhaseA \/ EndPhaseC \/ Advance
    <2>1. /\ UNCHANGED <<key, cursor, auditClean, seenTransforms>>
          /\ phase' \in {"B", "D", "done"} /\ (phase' = "B" => cursor > N)
      BY <1>4 DEF EndPhaseA, EndPhaseC, Advance
    <2> QED BY <2>1 DEF OrderInv, OneHypothesisPerStrategy, Signature, Phases
  <1>5. CASE DecideFamily
    <2>1. /\ UNCHANGED <<key, auditClean, seenTransforms>>
          /\ phase' = "C" /\ cursor' = 1
      BY <1>5 DEF DecideFamily
    <2>2. 1 <= Len(auditClean) + 1
      BY <1>a
    <2> QED BY <2>1, <2>2 DEF OrderInv, OneHypothesisPerStrategy, Signature, Phases
  <1> QED BY <1>1, <1>2, <1>3, <1>4, <1>5, Cases

LEMMA CleanFinite ==
    ASSUME OrderInv
    PROVE  IsFiniteSet(Clean) /\ Clean \subseteq Proposals
  <1>1. Clean \in SUBSET Proposals
    BY DEF OrderInv, Clean
  <1>2. IsFiniteSet(Proposals)
    BY FS_Interval, GateStackAssumption DEF Proposals
  <1> QED BY <1>1, <1>2, FS_Subset

LEMMA SettledClean == ASSUME OrderInv PROVE Settled \subseteq Clean
  <1>1. auditClean \in Seq(Proposals)
    BY DEF OrderInv
  <1>2. CASE phase = "C"
    <2>1. \A i \in 1 .. cursor - 1 : i \in DOMAIN auditClean
      BY <1>1, <1>2 DEF OrderInv
    <2> QED BY <1>2, <2>1 DEF Settled, Clean
  <1> QED BY <1>2 DEF Settled, Clean

\* Phase C settles one more.
LEMMA Settling ==
    ASSUME OrderInv, NEW p \in Proposals, NEW h, StoreClean(p, h)
    PROVE  /\ p \in Clean /\ p \notin Settled /\ Settled' = Settled \cup {p}
           /\ Clean' = Clean
  <1>1. /\ phase = "C" /\ cursor \in DOMAIN auditClean /\ p = auditClean[cursor]
        /\ cursor' = cursor + 1 /\ UNCHANGED <<phase, auditClean, rejected, right>>
    BY DEF StoreClean
  <1>2. /\ DOMAIN auditClean = 1 .. Len(auditClean) /\ Len(auditClean) \in Nat
        /\ cursor \in Nat \ {0}
    BY DEF OrderInv
  <1>3. \A i, j \in DOMAIN auditClean : auditClean[i] = auditClean[j] => i = j
    BY DEF OrderInv, OneHypothesisPerStrategy
  <1>4. /\ Settled = {auditClean[i] : i \in 1 .. cursor - 1}
        /\ Settled' = {auditClean[i] : i \in 1 .. cursor}
    BY <1>1, <1>2 DEF Settled
  <1>5. \A i \in 1 .. cursor - 1 : i \in DOMAIN auditClean /\ i # cursor
    BY <1>1, <1>2
  <1>6. 1 .. cursor = (1 .. cursor - 1) \cup {cursor}
    BY <1>2
  <1>7. p \in Clean /\ Clean' = Clean
    BY <1>1 DEF Clean
  <1>8. p \notin Settled
    BY <1>1, <1>3, <1>4, <1>5
  <1>9. Settled' = Settled \cup {p}
    BY <1>1, <1>4, <1>6
  <1> QED BY <1>7, <1>8, <1>9

SettledInv == StoredInv /\ SurvivorInv /\ CountInv

\* Before phase C nothing is settled.
LEMMA EarlyStep ==
    ASSUME OrderInv, SettledInv,
           \/ \E p \in Proposals : \E r \in Refusals : Refuse(p, r)
           \/ \E p \in Proposals : PassAudit(p)
           \/ EndPhaseA \/ DecideFamily
    PROVE  SettledInv'
  <1> USE DEF downstream
  <1>a. cursor \in Nat \ {0} /\ N \in Nat /\ DOMAIN stored = Proposals
    BY GateStackAssumption DEF OrderInv, SettledInv, StoredInv
  <1>1. Settled = {} /\ Settled' = {} /\ UNCHANGED <<survivors, wrongSigned>>
    <2>1. CASE DecideFamily
      <3>1. phase = "B" /\ phase' = "C" /\ cursor' = 1 /\ 1 .. 1 - 1 = {}
        BY <2>1 DEF DecideFamily
      <3> QED BY <2>1, <3>1 DEF Settled, DecideFamily
    <2> QED BY <2>1 DEF Settled, Refuse, PassAudit, EndPhaseA
  <1>2. Qualified = {} /\ Qualified' = {}
    BY <1>1 DEF SettledInv, SurvivorInv, Qualified
  <1>3. SurvivorInv'
    BY <1>1, <1>2 DEF SettledInv, SurvivorInv
  <1>4. CountInv'
    <2>1. (Settled \cap rejected) \ right = {} /\ ((Settled \cap rejected) \ right)' = {}
      BY <1>1
    <2>2. wrongSigned' = Cardinality(((Settled \cap rejected) \ right)')
      BY <1>1, <2>1 DEF SettledInv, CountInv
    <2>3. phase' \notin {"A", "B"} => (rejected \subseteq Clean)'
      <3>1. CASE DecideFamily
        <4>1. rejected' \subseteq DOMAIN family' /\ DOMAIN family' = Clean /\ Clean' = Clean
          BY <3>1 DEF DecideFamily, Rejected, Clean
        <4> QED BY <4>1
      <3> QED BY <3>1 DEF Refuse, PassAudit, EndPhaseA
    <2> QED BY <2>2, <2>3 DEF CountInv
  <1>5. StoredInv'
    <2>1. ASSUME NEW p \in Proposals, NEW r \in Refusals, Refuse(p, r)
          PROVE  StoredInv'
      <3>1. /\ stored' = [stored EXCEPT ![p] = r] /\ cursor = p /\ cursor' = cursor + 1
            /\ phase = "A" /\ UNCHANGED <<phase, auditClean>> /\ Clean' = Clean
        BY <2>1 DEF Refuse, Clean
      <3>2. \A q \in Proposals : q < cursor' /\ q \notin Clean => stored'[q] \in Refusals
        <4> TAKE q \in Proposals
        <4>1. q < cursor' => q < cursor \/ q = p
          BY <1>a, <3>1 DEF Proposals
        <4> QED BY <1>a, <3>1, <4>1 DEF SettledInv, StoredInv
      <3> QED BY <1>1, <1>a, <3>1, <3>2 DEF StoredInv
    <2>2. ASSUME NEW p \in Proposals, PassAudit(p)
          PROVE  StoredInv'
      <3>1. /\ UNCHANGED <<stored, phase>> /\ phase = "A" /\ cursor = p
            /\ cursor' = cursor + 1
        BY <2>2 DEF PassAudit
      <3>2. Clean' = Clean \cup {p}
        <4>1. auditClean \in Seq(Proposals) /\ auditClean' = Append(auditClean, p)
          BY <2>2 DEF PassAudit, OrderInv
        <4>2. /\ DOMAIN auditClean' = DOMAIN auditClean \cup {Len(auditClean) + 1}
              /\ \A i \in DOMAIN auditClean : auditClean'[i] = auditClean[i]
              /\ auditClean'[Len(auditClean) + 1] = p
              /\ Len(auditClean) + 1 \notin DOMAIN auditClean
          BY <4>1, Grows
        <4> QED BY <4>2 DEF Clean
      <3>3. \A q \in Proposals : q < cursor' /\ q # p => q < cursor
        BY <1>a, <3>1 DEF Proposals
      <3> QED BY <1>1, <1>a, <3>1, <3>2, <3>3 DEF SettledInv, StoredInv
    <2>3. CASE EndPhaseA \/ DecideFamily
      <3>1. UNCHANGED <<stored, auditClean>> /\ phase' # "A" /\ Clean' = Clean
        BY <2>3 DEF EndPhaseA, DecideFamily, Clean
      <3>2. phase = "B" \/ (phase = "A" /\ cursor > N)
        BY <2>3 DEF EndPhaseA, DecideFamily
      <3>3. \A q \in Proposals : q <= N /\ q \in Nat
        BY <1>a DEF Proposals
      <3>4. \A q \in Proposals : q \notin Clean => stored[q] \in Refusals
        BY <1>a, <3>2, <3>3 DEF SettledInv, StoredInv
      <3> QED BY <1>1, <1>a, <3>1, <3>4 DEF StoredInv
    <2> QED BY <2>1, <2>2, <2>3
  <1> QED BY <1>3, <1>4, <1>5 DEF SettledInv

\* The three ways in which phase C stores p, in one: h is what it adds to the
\* fields of a clean proposal.
HandsOn == {"bh_survived", "cpcv_qualified"}
Settles(p, h) ==
    /\ StoreClean(p, h)
    /\ h # {} <=> Survived(p)
    /\ IF h = HandsOn
       THEN \E median \in Medians :
                survivors' = Append(survivors, [id |-> p, median |-> median])
       ELSE UNCHANGED survivors
    /\ wrongSigned' = IF ~Survived(p) /\ p \in rejected
                      THEN wrongSigned + 1 ELSE wrongSigned

LEMMA SettledBy ==
    ASSUME NEW p, NoEvidence(p) \/ Robustness(p)
    PROVE  \E h \in {{}, {"bh_survived"}, HandsOn} : Settles(p, h)
  <1>0. {} # HandsOn /\ {"bh_survived"} # HandsOn /\ {"bh_survived"} # {}
    BY DEF HandsOn
  <1>1. CASE NoEvidence(p)
    <2>1. Settles(p, {})
      BY <1>0, <1>1 DEF NoEvidence, Settles
    <2> QED BY <2>1
  <1>2. CASE Robustness(p)
    <2>1. CASE StoreClean(p, {"bh_survived"}) /\ UNCHANGED survivors
      <3>1. Settles(p, {"bh_survived"})
        BY <1>0, <1>2, <2>1 DEF Robustness, Settles
      <3> QED BY <3>1
    <2>2. CASE StoreClean(p, HandsOn)
               /\ \E median \in Medians :
                      survivors' = Append(survivors, [id |-> p, median |-> median])
      <3>1. Settles(p, HandsOn)
        BY <1>0, <1>2, <2>2 DEF Robustness, Settles
      <3> QED BY <3>1
    <2> QED BY <1>2, <2>1, <2>2 DEF Robustness, HandsOn
  <1> QED BY <1>1, <1>2

\* Phase C stores the result of a proposal, and counts it or hands it on.
LEMMA SettleStep ==
    ASSUME OrderInv, SettledInv, NEW p \in Proposals, NoEvidence(p) \/ Robustness(p)
    PROVE  SettledInv'
  <1>1. PICK h \in {{}, {"bh_survived"}, HandsOn} : Settles(p, h)
    BY SettledBy
  <1>2. /\ phase = "C" /\ UNCHANGED <<phase, rejected, right, auditClean>>
        /\ stored' = [stored EXCEPT ![p] = [holds |-> CleanFields \cup h, refusal |-> None]]
    BY <1>1 DEF Settles, StoreClean
  <1>3. p \in Clean /\ p \notin Settled /\ Settled' = Settled \cup {p} /\ Clean' = Clean
    BY <1>1, Settling DEF Settles
  <1>4. /\ survivors \in Seq([id : Proposals, median : Medians])
        /\ \A q \in Qualified : q \in Settled /\ Survived(q)
        /\ \A i, j \in DOMAIN survivors : survivors[i].id = survivors[j].id => i = j
    BY DEF SettledInv, SurvivorInv
  <1>5. p \notin Qualified
    BY <1>3, <1>4
  <1>6. /\ survivors' \in Seq([id : Proposals, median : Medians])
        /\ \A i, j \in DOMAIN survivors' : survivors'[i].id = survivors'[j].id => i = j
        /\ Qualified' = Qualified \cup (IF h = HandsOn THEN {p} ELSE {})
    <2>1. CASE h = HandsOn
      <3> PICK median \in Medians : survivors' = Append(survivors, [id |-> p, median |-> median])
        BY <1>1, <2>1 DEF Settles
      <3> DEFINE n == Len(survivors)
      <3>1. /\ survivors' \in Seq([id : Proposals, median : Medians])
            /\ DOMAIN survivors' = DOMAIN survivors \cup {n + 1}
            /\ n + 1 \notin DOMAIN survivors
            /\ \A i \in DOMAIN survivors : survivors'[i] = survivors[i]
            /\ survivors'[n + 1].id = p
        BY <1>4, Grows
      <3> HIDE DEF n
      <3>2. Qualified' = Qualified \cup {p}
        BY <3>1 DEF Qualified
      <3>3. \A i \in DOMAIN survivors : survivors[i].id # p
        BY <1>5 DEF Qualified
      <3>4. \A i, j \in DOMAIN survivors' : survivors'[i].id = survivors'[j].id => i = j
        BY <1>4, <3>1, <3>3
      <3> QED BY <2>1, <3>1, <3>2, <3>4
    <2>2. CASE h # HandsOn
      <3>1. survivors' = survivors
        BY <1>1, <2>2 DEF Settles
      <3> QED BY <1>4, <2>2, <3>1 DEF Qualified
    <2> QED BY <2>1, <2>2
  <1>7. SurvivorInv'
    <2>1. h = HandsOn => p \in rejected \cap right
      BY <1>1 DEF Settles, HandsOn, Survived
    <2>2. \A q \in Qualified' : q \in Settled' /\ q \in rejected' \cap right'
      BY <1>2, <1>3, <1>4, <1>6, <2>1 DEF Survived
    <2> QED BY <1>6, <2>2 DEF SurvivorInv, Survived
  <1>8. StoredInv'
    <2>1. DOMAIN stored = Proposals
      BY DEF SettledInv, StoredInv
    <2>2. \A q \in Proposals : q # p => stored'[q] = stored[q]
      BY <1>2, <2>1
    <2>3. \A q \in Proposals : q \notin Clean => stored'[q] \in Refusals
      BY <1>2, <1>3, <2>2 DEF SettledInv, StoredInv
    <2>4. Settled \subseteq Proposals
      BY SettledClean, CleanFinite
    <2>5. \A q \in Settled : stored'[q] =
              [holds |-> CleanFields
                   \cup (IF q \in rejected' \cap right' THEN {"bh_survived"} ELSE {})
                   \cup (IF q \in Qualified' THEN {"cpcv_qualified"} ELSE {}),
               refusal |-> None]
      <3> TAKE q \in Settled
      <3>1. stored'[q] = Result(q) /\ q # p
        BY <1>3, <2>2, <2>4 DEF SettledInv, StoredInv
      <3>2. q \in Qualified' <=> q \in Qualified
        BY <1>6, <3>1
      <3> QED BY <1>2, <3>1, <3>2 DEF Result, Survived
    <2>6. stored'[p] =
              [holds |-> CleanFields
                   \cup (IF p \in rejected' \cap right' THEN {"bh_survived"} ELSE {})
                   \cup (IF p \in Qualified' THEN {"cpcv_qualified"} ELSE {}),
               refusal |-> None]
      <3>1. stored'[p] = [holds |-> CleanFields \cup h, refusal |-> None]
        BY <1>2, <2>1
      <3>2. p \in Qualified' <=> h = HandsOn
        BY <1>5, <1>6
      <3>3. p \in rejected' \cap right' <=> h # {}
        BY <1>1, <1>2 DEF Settles, Survived
      <3>4. h = (IF h # {} THEN {"bh_survived"} ELSE {})
                \cup (IF h = HandsOn THEN {"cpcv_qualified"} ELSE {})
        BY <1>1 DEF HandsOn
      <3> QED BY <3>1, <3>2, <3>3, <3>4
    <2>7. \A q \in Settled' : stored'[q] = Result(q)'
      BY <1>3, <2>5, <2>6 DEF Result, Survived, CleanFields
    <2> QED BY <1>2, <1>3, <2>1, <2>3, <2>7 DEF StoredInv
  <1>9. CountInv'
    <2> DEFINE W == (Settled \cap rejected) \ right
    <2>1. IsFiniteSet(W) /\ wrongSigned = Cardinality(W)
      <3>1. W \in SUBSET Clean /\ IsFiniteSet(Clean)
        BY SettledClean, CleanFinite
      <3>2. wrongSigned = Cardinality(W)
        BY DEF SettledInv, CountInv
      <3> HIDE DEF W
      <3> QED BY <3>1, <3>2, FS_Subset
    <2>2. p \notin W
      BY <1>3
    <2>3. ((Settled \cap rejected) \ right)' =
              IF ~Survived(p) /\ p \in rejected THEN W \cup {p} ELSE W
      BY <1>2, <1>3 DEF Survived
    <2>4. wrongSigned' = IF ~Survived(p) /\ p \in rejected
                         THEN wrongSigned + 1 ELSE wrongSigned
      BY <1>1 DEF Settles
    <2> HIDE DEF W
    <2>5. Cardinality(W \cup {p}) = wrongSigned + 1
      BY <2>1, <2>2, FS_AddElement
    <2>6. wrongSigned' = Cardinality(((Settled \cap rejected) \ right)')
      BY <2>1, <2>3, <2>4, <2>5
    <2>7. rejected' \subseteq Clean'
      BY <1>2, <1>3 DEF SettledInv, CountInv
    <2> QED BY <2>6, <2>7 DEF CountInv
  <1> QED BY <1>7, <1>8, <1>9 DEF SettledInv

\* At the end everything clean is settled, and all that is qualified goes on.
LEMMA LastStep ==
    ASSUME OrderInv, SettledInv, EndPhaseC \/ Advance
    PROVE  SettledInv' /\ AdvancedInv'
  <1> USE DEF downstream
  <1>1. /\ UNCHANGED <<stored, auditClean, rejected, right, wrongSigned, survivors>>
        /\ phase \in {"C", "D"} /\ phase' \in {"D", "done"} /\ Clean' = Clean
        /\ Qualified' = Qualified
    BY DEF EndPhaseC, Advance, Clean, Qualified
  <1>2. Settled = Clean /\ Settled' = Clean
    <2>1. CASE phase = "C"
      <3>1. auditClean \in Seq(Proposals) /\ cursor = Len(auditClean) + 1
        BY <2>1 DEF EndPhaseC, Advance, OrderInv
      <3>2. 1 .. cursor - 1 = DOMAIN auditClean
        BY <3>1
      <3> QED BY <1>1, <2>1, <3>2 DEF Settled, Clean
    <2> QED BY <1>1, <2>1 DEF Settled
  <1>3. SettledInv'
    <2>1. StoredInv'
      <3>1. \A p \in Clean : stored'[p] = Result(p)'
        BY <1>1, <1>2 DEF SettledInv, StoredInv, Result, Survived
      <3> QED BY <1>1, <1>2, <3>1 DEF SettledInv, StoredInv
    <2>2. SurvivorInv'
      BY <1>1, <1>2 DEF SettledInv, SurvivorInv, Survived
    <2>3. CountInv'
      BY <1>1, <1>2 DEF SettledInv, CountInv
    <2> QED BY <2>1, <2>2, <2>3 DEF SettledInv
  <1>4. AdvancedInv'
    <2> SUFFICES ASSUME Advance
                 PROVE  {advanced'[i] : i \in DOMAIN advanced'} = Qualified
      BY <1>1 DEF AdvancedInv, EndPhaseC
    <2> DEFINE ss == {survivors[i] : i \in DOMAIN survivors}
    <2>1. /\ survivors \in Seq([id : Proposals, median : Medians])
          /\ \A i, j \in DOMAIN survivors : survivors[i].id = survivors[j].id => i = j
      BY DEF SettledInv, SurvivorInv
    <2>2. ss \subseteq [id : Nat, median : Nat]
      <3>1. ss \subseteq [id : Proposals, median : Medians]
        <4> DEFINE T == [id : Proposals, median : Medians]
        <4>1. survivors \in Seq(T)
          BY <2>1
        <4> HIDE DEF T
        <4>2. \A i \in DOMAIN survivors : survivors[i] \in T
          BY <4>1
        <4> QED BY <4>2 DEF T
      <3>2. Proposals \subseteq Nat /\ Medians \subseteq Nat
        BY GateStackAssumption DEF Proposals
      <3> HIDE DEF ss
      <3> QED BY <3>1, <3>2
    <2>3. IsFiniteSet(ss)
      <3>1. survivors \in Surjection(1 .. Len(survivors), ss) /\ Len(survivors) \in Nat
        BY <2>1 DEF Surjection
      <3>2. IsFiniteSet(1 .. Len(survivors))
        BY <3>1, FS_Interval
      <3> HIDE DEF ss
      <3> QED BY <3>1, <3>2, FS_Surjection
    <2>4. \A s, t \in ss : s.id = t.id => s = t
      BY <2>1
    <2>5. advanced' = Select(ss)
      BY DEF Advance
    <2>6. {s.id : s \in ss} = Qualified
      BY DEF Qualified
    <2> HIDE DEF ss
    <2> QED BY <2>2, <2>3, <2>4, <2>5, <2>6, Selected
  <1> QED BY <1>3, <1>4

-------------------------------------------------------------------------------
(* Duplicates.                                                              *)

\* Phase A decides p, with what it then has seen.
Decides(p, r) ==
    /\ phase = "A" /\ cursor = p /\ cursor' = cursor + 1
    /\ stored'[p] = r /\ \A q \in Proposals : q # p => stored'[q] = stored[q]
    /\ UNCHANGED <<key, phase>>
    /\ \/ r.refusal = "G0_REFUSAL" /\ UNCHANGED <<seen, seenTransforms>>
       \/ /\ r.refusal = "DUPLICATE_PROPOSAL" /\ "not_duplicate" \notin r.holds
          /\ key[p] \in seen /\ UNCHANGED <<seen, seenTransforms>>
       \/ /\ r.refusal = "DUPLICATE_PROPOSAL" /\ "not_duplicate" \in r.holds
          /\ key[p] \notin seen /\ seen' = seen \cup {key[p]}
          /\ Signature(p) \in seenTransforms /\ UNCHANGED seenTransforms
       \/ /\ r.refusal \notin G0Codes
          /\ key[p] \notin seen /\ seen' = seen \cup {key[p]}
          /\ seenTransforms' \in SUBSET (seenTransforms \cup {Signature(p)})

LEMMA Decided ==
    ASSUME OrderInv, SettledInv, RepeatInv, NEW p \in Proposals,
           \/ RefuseIntegrity(p) \/ RefuseDuplicate(p) \/ FailCompilation(p)
           \/ RefuseSameTransform(p) \/ FailExecution(p) \/ FailAudit(p) \/ PassAudit(p)
    PROVE  \E r : Decides(p, r) /\ \A q \in Clean' : q \in Clean \/ (q = p /\ r = Unstored)
  <1> USE DEF Stop, G0Fields, G0Codes
  <1>d. DOMAIN stored = Proposals
    BY DEF SettledInv, StoredInv
  <1>0. ASSUME NEW r, Decides(p, r), UNCHANGED auditClean
        PROVE  \E s : Decides(p, s) /\ \A q \in Clean' : q \in Clean \/ (q = p /\ s = Unstored)
    <2>1. Clean' = Clean
      BY <1>0 DEF Clean
    <2> QED BY <1>0, <2>1
  <1>1. CASE RefuseIntegrity(p)
    <2>1. Decides(p, [holds |-> {"not_duplicate"}, refusal |-> "G0_REFUSAL"])
      BY <1>1, <1>d DEF RefuseIntegrity, Decides
    <2> QED BY <1>0, <1>1, <2>1 DEF RefuseIntegrity
  <1>2. CASE RefuseDuplicate(p)
    <2>1. Decides(p, [holds |-> {"authorised"}, refusal |-> "DUPLICATE_PROPOSAL"])
      BY <1>2, <1>d DEF RefuseDuplicate, Decides
    <2> QED BY <1>0, <1>2, <2>1 DEF RefuseDuplicate
  <1>3. CASE FailCompilation(p)
    <2>1. Decides(p, [holds |-> G0Fields, refusal |-> "COMPILATION_FAILED"])
      BY <1>3, <1>d DEF FailCompilation, PassesG0, Decides
    <2> QED BY <1>0, <1>3, <2>1 DEF FailCompilation
  <1>4. CASE RefuseSameTransform(p)
    <2>1. Decides(p, [holds |-> G0Fields \cup {"compiled"}, refusal |-> "DUPLICATE_PROPOSAL"])
      BY <1>4, <1>d DEF RefuseSameTransform, PassesG0, Decides
    <2> QED BY <1>0, <1>4, <2>1 DEF RefuseSameTransform
  <1>n. ASSUME NEW h, NEW c, c \notin G0Codes, NoteDistinct(p), Stop(p, h, c)
        PROVE  Decides(p, [holds |-> h, refusal |-> c])
    BY <1>n, <1>d DEF NoteDistinct, Distinct, PassesG0, Decides
  <1>5. CASE FailExecution(p)
    <2> PICK c \in {"EXECUTION_MISMATCH", "MISSING_INPUT"} : Stop(p, G0Fields \cup {"compiled"}, c)
      BY <1>5 DEF FailExecution
    <2>1. Decides(p, [holds |-> G0Fields \cup {"compiled"}, refusal |-> c])
      BY <1>5, <1>n DEF FailExecution
    <2> QED BY <1>0, <2>1
  <1>6. CASE FailAudit(p)
    <2> PICK c \in G2Codes : Stop(p, G0Fields \cup {"compiled", "execution_verified"}, c)
      BY <1>6 DEF FailAudit
    <2>1. c \notin G0Codes
      BY DEF G2Codes
    <2>2. Decides(p, [holds |-> G0Fields \cup {"compiled", "execution_verified"}, refusal |-> c])
      BY <1>6, <1>n, <2>1 DEF FailAudit
    <2> QED BY <1>0, <2>2
  <1>7. CASE PassAudit(p)
    <2>1. stored[p] = Unstored
      BY <1>7 DEF PassAudit, RepeatInv, SeenInv, Proposals
    <2>3. Decides(p, Unstored)
      BY <1>7, <2>1 DEF PassAudit, NoteDistinct, Distinct, PassesG0, Decides, Unstored
    <2>4. \A q \in Clean' : q \in Clean \/ q = p
      <3>1. auditClean \in Seq(Proposals) /\ auditClean' = Append(auditClean, p)
        BY <1>7 DEF PassAudit, OrderInv
      <3>2. /\ DOMAIN auditClean' = DOMAIN auditClean \cup {Len(auditClean) + 1}
            /\ \A i \in DOMAIN auditClean : auditClean'[i] = auditClean[i]
            /\ auditClean'[Len(auditClean) + 1] = p
        BY <3>1, Grows
      <3> QED BY <3>2 DEF Clean
    <2> QED BY <2>3, <2>4
  <1> QED BY <1>1, <1>2, <1>3, <1>4, <1>5, <1>6, <1>7

LEMMA DecideStep ==
    ASSUME OrderInv, SettledInv, RepeatInv, NEW p \in Proposals, NEW r, Decides(p, r),
           \A q \in Clean' : q \in Clean \/ (q = p /\ r = Unstored)
    PROVE  RepeatInv'
  <1>1. /\ phase = "A" /\ cursor = p /\ cursor' = p + 1 /\ UNCHANGED <<key, phase>>
        /\ SeenInv /\ DuplicateInv /\ DOMAIN stored = Proposals
        /\ \A q \in Clean : Original(q)
    BY DEF Decides, RepeatInv, SettledInv, StoredInv
  <1>2. stored'[p] = r /\ \A e \in Proposals : e # p => stored'[e] = stored[e]
    BY <1>1 DEF Decides
  <1>3. /\ \A e \in Proposals : e < cursor' <=> e < cursor \/ e = p
        /\ \A e \in Proposals : e < cursor => e # p
        /\ \A e \in Proposals : e >= cursor' => e >= cursor /\ e # p
        /\ \A q \in Proposals : \A e : e \in 1 .. q - 1 <=> e \in Proposals /\ e < q
        /\ \A e, q \in Proposals : e < q /\ q < cursor' => e < cursor
        /\ \A q \in Proposals : q < cursor \/ q = p \/ q >= cursor'
    BY <1>1, GateStackAssumption DEF Proposals
  <1>4. \A e \in Proposals : e < cursor => (Original(e)' <=> Original(e))
    BY <1>2, <1>3 DEF Original
  <1>5. \A e : Signature(e)' = Signature(e)
    BY <1>1 DEF Signature
  <1>g. "G0_REFUSAL" \in G0Codes /\ "DUPLICATE_PROPOSAL" \in G0Codes
        /\ Unstored.refusal \notin G0Codes
    BY DEF G0Codes, Unstored
  <1>6. SeenInv'
    <2>1. \A k \in seen : \E e \in Proposals :
              e < cursor' /\ key'[e] = k /\ stored'[e].refusal # "G0_REFUSAL"
      BY <1>1, <1>2, <1>3 DEF SeenInv
    <2>2. \A k \in seen' : \E e \in Proposals :
              e < cursor' /\ key'[e] = k /\ stored'[e].refusal # "G0_REFUSAL"
      BY <1>1, <1>2, <1>3, <1>g, <2>1 DEF Decides
    <2>3. \A e \in Proposals :
              e < cursor' /\ stored'[e].refusal # "G0_REFUSAL" => key'[e] \in seen'
      BY <1>1, <1>2, <1>3 DEF SeenInv, Decides
    <2>4. \A k \in seen : \E e \in Proposals :
              e < cursor' /\ Original(e)' /\ (key'[e] = k \/ Signature(e) = Compiled[k])
      BY <1>1, <1>3, <1>4 DEF SeenInv
    <2>5. \A t \in seenTransforms : \E e \in Proposals :
              e < cursor' /\ Original(e)' /\ Signature(e) = t
      BY <1>1, <1>3, <1>4 DEF SeenInv
    <2>6. r.refusal \notin G0Codes => Original(p)'
      BY <1>2 DEF Original
    <2>7. \A k \in seen' : \E e \in Proposals :
              e < cursor' /\ Original(e)' /\ (key'[e] = k \/ Signature(e) = Compiled[k])
      BY <1>1, <1>3, <2>4, <2>5, <2>6 DEF Decides, Signature
    <2>8. \A t \in seenTransforms' : \E e \in Proposals :
              e < cursor' /\ Original(e)' /\ Signature(e) = t
      BY <1>3, <2>5, <2>6 DEF Decides
    <2>9. \A q \in Proposals : q >= cursor' => stored'[q] = Unstored
      BY <1>1, <1>2, <1>3 DEF SeenInv
    <2> QED BY <1>5, <2>2, <2>3, <2>7, <2>8, <2>9 DEF SeenInv
  <1>7. DuplicateInv'
    <2> SUFFICES ASSUME NEW q \in Proposals, stored'[q].refusal = "DUPLICATE_PROPOSAL"
                 PROVE  /\ HasOriginal(q)'
                        /\ "not_duplicate" \in stored'[q].holds <=> ~Repeats(q)'
      BY DEF DuplicateInv
    <2>1. q < cursor'
      BY <1>1, <1>2, <1>3, <1>g DEF SeenInv
    <2>2. \A e : e \in 1 .. q - 1 => e \in Proposals /\ e < cursor /\ stored'[e] = stored[e]
                                   /\ (Original(e)' <=> Original(e))
      BY <1>2, <1>3, <1>4, <2>1
    <2>3. /\ HasOriginal(q)' <=> HasOriginal(q)
          /\ Repeats(q)' <=> Repeats(q)
      BY <1>1, <1>5, <2>2 DEF HasOriginal, Repeats
    <2>4. CASE q < cursor
      <3>1. stored'[q] = stored[q]
        BY <1>2, <1>3, <2>4
      <3> QED BY <1>1, <2>3, <3>1 DEF DuplicateInv
    <2>5. CASE q = p
      <3>1. r.refusal = "DUPLICATE_PROPOSAL" /\ stored'[q] = r
        BY <1>2, <2>5
      <3>2. \A e \in Proposals : e < cursor <=> e \in 1 .. q - 1
        BY <1>1, <1>3, <2>5
      <3>3. key[p] \in seen <=> Repeats(q)
        BY <1>1, <1>3, <2>5, <3>2 DEF SeenInv, Repeats
      <3>4. CASE "not_duplicate" \notin r.holds /\ key[p] \in seen
        <4>1. \E e \in Proposals : /\ e < cursor /\ Original(e)
                                   /\ key[e] = key[p] \/ Signature(e) = Compiled[key[p]]
          BY <1>1, <3>4 DEF SeenInv
        <4>2. HasOriginal(q)
          BY <2>5, <3>2, <4>1 DEF HasOriginal, Original, Signature
        <4> QED BY <2>3, <3>1, <3>3, <3>4, <4>2
      <3>5. CASE /\ "not_duplicate" \in r.holds /\ key[p] \notin seen
                 /\ Signature(p) \in seenTransforms
        <4>1. \E e \in Proposals : e < cursor /\ Original(e) /\ Signature(e) = Signature(p)
          BY <1>1, <3>5 DEF SeenInv
        <4>2. HasOriginal(q)
          BY <2>5, <3>2, <4>1 DEF HasOriginal, Original
        <4> QED BY <2>3, <3>1, <3>3, <3>5, <4>2
      <3> QED BY <1>g, <3>1, <3>4, <3>5 DEF Decides
    <2> QED BY <1>3, <2>1, <2>4, <2>5
  <1>8. \A q \in Clean' : Original(q)'
    <2> TAKE q \in Clean'
    <2>1. CASE q = p /\ r = Unstored
      BY <1>2, <1>g, <2>1 DEF Original
    <2>2. CASE q \in Clean
      <3>1. q \in Proposals /\ q < cursor
        BY <1>1, <2>2, CleanFinite DEF OrderInv, Clean
      <3> QED BY <1>1, <1>4, <2>2, <3>1
    <2> QED BY <2>1, <2>2
  <1> QED BY <1>1, <1>6, <1>7, <1>8 DEF RepeatInv

\* After phase A nothing becomes a duplicate, and nothing stops being one.
LEMMA RepeatStep ==
    ASSUME OrderInv, SettledInv, RepeatInv, Next
    PROVE  RepeatInv'
  <1>1. ASSUME NEW p \in Proposals,
               \/ RefuseIntegrity(p) \/ RefuseDuplicate(p) \/ FailCompilation(p)
               \/ RefuseSameTransform(p) \/ FailExecution(p) \/ FailAudit(p) \/ PassAudit(p)
        PROVE  RepeatInv'
    BY <1>1, Decided, DecideStep
  <1>2. ASSUME UNCHANGED <<key, auditClean>>, phase' # "A",
               \A q \in Proposals : stored'[q] = stored[q] \/ (Original(q) /\ Original(q)')
        PROVE  RepeatInv'
    <2>1. /\ \A q \in Proposals : Original(q)' <=> Original(q)
          /\ \A q \in Proposals : stored'[q].refusal = "G0_REFUSAL"
                                     <=> stored[q].refusal = "G0_REFUSAL"
          /\ \A q \in Proposals : stored'[q].refusal = "DUPLICATE_PROPOSAL"
                                     => stored'[q] = stored[q]
      BY <1>2 DEF Original, G0Codes
    <2>2. \A q \in Proposals : \A e \in 1 .. q - 1 : e \in Proposals
      BY GateStackAssumption DEF Proposals
    <2>3. \A q \in Proposals : (HasOriginal(q)' <=> HasOriginal(q))
                               /\ (Repeats(q)' <=> Repeats(q))
      <3> TAKE q \in Proposals
      <3>1. \A e \in 1 .. q - 1 :
                /\ stored'[e].refusal \in G0Codes <=> stored[e].refusal \in G0Codes
                /\ stored'[e].refusal = "G0_REFUSAL" <=> stored[e].refusal = "G0_REFUSAL"
        BY <2>1, <2>2 DEF Original
      <3> QED BY <1>2, <3>1 DEF HasOriginal, Repeats, Signature
    <2>4. DuplicateInv'
      BY <2>1, <2>3 DEF RepeatInv, DuplicateInv
    <2>5. \A q \in Clean' : Original(q)'
      <3>1. Clean' = Clean /\ Clean \subseteq Proposals
        BY <1>2, CleanFinite DEF Clean
      <3> QED BY <2>1, <3>1 DEF RepeatInv
    <2> QED BY <1>2, <2>4, <2>5 DEF RepeatInv
  <1>3. ASSUME NEW p \in Proposals, NoEvidence(p) \/ Robustness(p)
        PROVE  RepeatInv'
    <2>1. PICK h : StoreClean(p, h)
      BY <1>3 DEF NoEvidence, Robustness
    <2>2. /\ stored' = [stored EXCEPT ![p] = [holds |-> CleanFields \cup h, refusal |-> None]]
          /\ UNCHANGED <<key, phase, auditClean>> /\ phase = "C"
          /\ p \in Clean /\ DOMAIN stored = Proposals
      BY <2>1 DEF StoreClean, Clean, SettledInv, StoredInv
    <2>3. Original(p) /\ Original(p)'
      BY <2>2, GateStackAssumption DEF RepeatInv, Original
    <2> QED BY <1>2, <2>2, <2>3
  <1>4. CASE EndPhaseA \/ DecideFamily \/ EndPhaseC \/ Advance
    BY <1>2, <1>4 DEF EndPhaseA, DecideFamily, EndPhaseC, Advance
  <1> QED BY <1>1, <1>3, <1>4 DEF Next

-------------------------------------------------------------------------------
(* The theorems.                                                            *)

Inv == OrderInv /\ SettledInv /\ RepeatInv /\ AdvancedInv

LEMMA InvHolds == Spec => []Inv
  <1>1. Init => Inv
    <2> SUFFICES ASSUME Init PROVE Inv
      OBVIOUS
    <2>1. OrderInv
      BY DEF Init, OrderInv, OneHypothesisPerStrategy, Phases
    <2>2. Settled = {} /\ Qualified = {}
      BY DEF Init, Settled, Qualified
    <2>3. SurvivorInv
      BY <2>2 DEF Init, SurvivorInv
    <2>4. CountInv
      <3>1. (Settled \cap rejected) \ right = {}
        BY <2>2
      <3> QED BY <3>1, FS_EmptySet DEF Init, CountInv
    <2>5. StoredInv
      <3>1. \A p \in Proposals : ~(p < 1)
        BY DEF Proposals
      <3> QED BY <2>2, <3>1 DEF Init, StoredInv
    <2>6. RepeatInv
      <3>1. \A p \in Proposals : ~(p < 1) /\ stored[p] = Unstored
        BY DEF Init, Proposals
      <3>2. Clean = {} /\ cursor = 1 /\ seen = {} /\ seenTransforms = {}
        BY DEF Init, Clean
      <3>3. Unstored.refusal # "DUPLICATE_PROPOSAL"
        BY DEF Unstored
      <3> QED BY <3>1, <3>2, <3>3 DEF RepeatInv, SeenInv, DuplicateInv
    <2> QED BY <2>1, <2>3, <2>4, <2>5, <2>6 DEF Inv, SettledInv, AdvancedInv, Init
  <1>2. Inv /\ Next => Inv'
    <2> SUFFICES ASSUME Inv, Next PROVE Inv'
      OBVIOUS
    <2>1. OrderInv' /\ RepeatInv'
      BY OrderStep, RepeatStep DEF Inv
    <2>2. CASE EndPhaseC \/ Advance
      BY <2>1, <2>2, LastStep DEF Inv
    <2>3. CASE ~(EndPhaseC \/ Advance)
      <3>1. SettledInv'
        BY <2>3, Cases, EarlyStep, SettleStep DEF Inv
      <3>2. phase' # "done"
        BY <2>3, Cases DEF Refuse, PassAudit, NoEvidence, Robustness, StoreClean, EndPhaseA,
                           DecideFamily
      <3> QED BY <2>1, <3>1, <3>2 DEF Inv, AdvancedInv
    <2> QED BY <2>2, <2>3
  <1>3. Inv /\ UNCHANGED vars => Inv'
    <2> SUFFICES ASSUME Inv, UNCHANGED vars PROVE Inv'
      OBVIOUS
    <2>1. Settled' = Settled /\ Clean' = Clean /\ Qualified' = Qualified
      BY DEF vars, Settled, Clean, Qualified
    <2>2. OrderInv'
      BY DEF vars, Inv, OrderInv, OneHypothesisPerStrategy, Signature
    <2>3. StoredInv'
      <3>1. \A p \in Settled : Result(p)' = Result(p)
        BY <2>1 DEF vars, Result, Survived
      <3> QED BY <2>1, <3>1 DEF vars, Inv, SettledInv, StoredInv
    <2>4. SurvivorInv'
      BY <2>1 DEF vars, Inv, SettledInv, SurvivorInv, Survived
    <2>5. CountInv' /\ AdvancedInv'
      BY <2>1 DEF vars, Inv, SettledInv, CountInv, AdvancedInv
    <2>6. RepeatInv'
      BY <2>1 DEF vars, Inv, RepeatInv, SeenInv, DuplicateInv, Original, HasOriginal, Repeats,
                  Signature
    <2> QED BY <2>2, <2>3, <2>4, <2>5, <2>6 DEF Inv, SettledInv
  <1> QED BY <1>1, <1>2, <1>3, PTL DEF Spec

\* The unit of the joint test is the strategy: whatever the batch repeats, under
\* whatever names and rationales, no two members of the BH family compile to the
\* same transform (orchestrator.py 61-77 and 141-149).
THEOREM EachStrategyOnce == Spec => []OneHypothesisPerStrategy
  <1>1. Inv => OneHypothesisPerStrategy
    BY DEF Inv, OrderInv
  <1> QED BY <1>1, InvHolds, PTL

\* A rejected candidate whose alpha has the wrong sign is counted and not advanced:
\* the rejections are the wrong-signed and the survivors (SC-SCI-8,
\* orchestrator.py 191-205).
THEOREM SignsAddUp == Spec => []SignAware
  <1>1. Inv => SignAware
    <2> SUFFICES ASSUME Inv, phase = "done"
                 PROVE  /\ \A i \in DOMAIN advanced : advanced[i] \in rejected \cap right
                        /\ Cardinality(rejected) = wrongSigned +
                             Cardinality({p \in Clean : "bh_survived" \in stored[p].holds})
      BY DEF SignAware
    <2>1. \A i \in DOMAIN advanced : advanced[i] \in rejected \cap right
      BY DEF Inv, AdvancedInv, SettledInv, SurvivorInv, Survived
    <2>2. Settled = Clean /\ rejected \in SUBSET Clean /\ IsFiniteSet(Clean)
      BY CleanFinite DEF Inv, SettledInv, CountInv, Settled
    <2>3. IsFiniteSet(rejected) /\ IsFiniteSet(rejected \cap right)
      BY <2>2, FS_Subset, FS_Intersection
    <2>4. wrongSigned = Cardinality(rejected \ right)
      <3>1. (Settled \cap rejected) \ right = rejected \ right
        BY <2>2
      <3> QED BY <3>1 DEF Inv, SettledInv, CountInv
    <2>5. {p \in Clean : "bh_survived" \in stored[p].holds} = rejected \cap right
      <3>1. \A p \in Clean : "bh_survived" \in stored[p].holds <=> Survived(p)
        <4> TAKE p \in Clean
        <4>1. stored[p] = Result(p)
          BY <2>2 DEF Inv, SettledInv, StoredInv
        <4> QED BY <4>1 DEF Result, CleanFields, G0Fields
      <3> QED BY <2>2, <3>1 DEF Survived
    <2>6. /\ Cardinality(rejected \ right) = Cardinality(rejected) - Cardinality(rejected \cap right)
          /\ Cardinality(rejected) \in Nat /\ Cardinality(rejected \cap right) \in Nat
      BY <2>3, FS_Difference, FS_CardinalityType
    <2>7. Cardinality(rejected) = wrongSigned + Cardinality(rejected \cap right)
      BY <2>4, <2>6
    <2> QED BY <2>1, <2>5, <2>7
  <1> QED BY <1>1, InvHolds, PTL

\* The outcome derived from the stored booleans, the stored refusal code and the
\* list that goes on to the holdout tell the same story of every proposal: each
\* label has its codes and each code its label, where a duplicate's label is that of
\* a refusal if its key is repeated and that of a failed execution if only its
\* transform is, every duplicate has an original, and every qualified proposal is on
\* that list (outcome.py 23-42, orchestrator.py 122-160 and 202-219, SC-SCI-14).
THEOREM LabelsAgree == Spec => []FunnelAgrees
  <1>1. Inv => FunnelAgrees
    <2> SUFFICES ASSUME Inv, phase = "done", NEW p \in Proposals, NEW code,
                        code = stored[p].refusal
                 PROVE  /\ OutcomeOf(p) = "INVALID_PROPOSAL" <=>
                               code = "G0_REFUSAL" \/ (code = "DUPLICATE_PROPOSAL" /\ Repeats(p))
                        /\ OutcomeOf(p) = "EXECUTION_FAILURE" <=>
                               code \in G1Codes \/ (code = "DUPLICATE_PROPOSAL" /\ ~Repeats(p))
                        /\ OutcomeOf(p) = "AUDIT_FAILURE" <=> code \in G2Codes
                        /\ code = None <=> p \in Clean
                        /\ OutcomeOf(p) = "HOLDOUT_EVALUATED" <=>
                               \E i \in DOMAIN advanced : advanced[i] = p
                        /\ code = "DUPLICATE_PROPOSAL" => HasOriginal(p)
      BY DEF FunnelAgrees
    <2>1. /\ (\E i \in DOMAIN advanced : advanced[i] = p) <=> p \in Qualified
          /\ p \in Qualified => p \in Clean /\ Survived(p)
          /\ Settled = Clean
      BY DEF Inv, AdvancedInv, SettledInv, SurvivorInv, Settled
    <2>2. None \notin G0Codes \cup G1Codes \cup G2Codes
      BY GateStackAssumption
    <2>d. code = "DUPLICATE_PROPOSAL" =>
              HasOriginal(p) /\ ("not_duplicate" \in stored[p].holds <=> ~Repeats(p))
      BY DEF Inv, RepeatInv, DuplicateInv
    <2>3. CASE p \in Clean
      <3>1. stored[p] = Result(p)
        BY <2>1, <2>3 DEF Inv, SettledInv, StoredInv
      <3>2. code = None
        BY <3>1 DEF Result
      <3>3. /\ CleanFields \subseteq stored[p].holds
            /\ "bh_survived" \in stored[p].holds <=> Survived(p)
            /\ "cpcv_qualified" \in stored[p].holds <=> p \in Qualified
        BY <3>1 DEF Result, CleanFields, G0Fields
      <3>4. /\ OutcomeOf(p) \notin {"INVALID_PROPOSAL", "EXECUTION_FAILURE", "AUDIT_FAILURE"}
            /\ OutcomeOf(p) = "HOLDOUT_EVALUATED" <=> p \in Qualified
        BY <2>1, <3>3 DEF OutcomeOf, Outcome, CleanFields
      <3>5. code \notin G1Codes \cup G2Codes \cup {"G0_REFUSAL", "DUPLICATE_PROPOSAL"}
        BY <2>2, <3>2 DEF G0Codes
      <3> QED BY <2>1, <2>3, <3>2, <3>4, <3>5
    <2>4. CASE p \notin Clean
      <3>1. stored[p] \in Refusals
        BY <2>1, <2>4 DEF Inv, SettledInv, StoredInv
      <3> DEFINE r == stored[p]
      <3>2. \/ r.refusal = "G0_REFUSAL" /\ r.holds = {"not_duplicate"}
            \/ r.refusal = "DUPLICATE_PROPOSAL" /\ r.holds = {"authorised"}
            \/ r.refusal = "DUPLICATE_PROPOSAL" /\ r.holds = G0Fields \cup {"compiled"}
            \/ r.refusal \in G1Codes /\ r.holds \in {G0Fields, G0Fields \cup {"compiled"}}
            \/ /\ r.refusal \in G2Codes
               /\ r.holds = G0Fields \cup {"compiled", "execution_verified"}
        BY <3>1 DEF Refusals, G1Codes
      <3>3. \/ /\ code = "G0_REFUSAL" /\ Outcome(r.holds) = "INVALID_PROPOSAL"
            \/ /\ code = "DUPLICATE_PROPOSAL" /\ Outcome(r.holds) = "INVALID_PROPOSAL"
               /\ "not_duplicate" \notin r.holds
            \/ /\ code = "DUPLICATE_PROPOSAL" /\ Outcome(r.holds) = "EXECUTION_FAILURE"
               /\ "not_duplicate" \in r.holds
            \/ /\ code \in G1Codes /\ Outcome(r.holds) = "EXECUTION_FAILURE"
            \/ /\ code \in G2Codes /\ Outcome(r.holds) = "AUDIT_FAILURE"
        BY <3>2 DEF Outcome, G0Fields
      <3>4. /\ G1Codes \cap (G2Codes \cup {"G0_REFUSAL", "DUPLICATE_PROPOSAL"}) = {}
            /\ G2Codes \cap {"G0_REFUSAL", "DUPLICATE_PROPOSAL"} = {}
        BY DEF G1Codes, G2Codes
      <3>5. code # None
        BY <2>2, <3>3 DEF G0Codes
      <3> HIDE DEF r
      <3>6. OutcomeOf(p) = Outcome(r.holds)
        BY DEF OutcomeOf, r
      <3>7. code = "DUPLICATE_PROPOSAL" =>
                HasOriginal(p) /\ ("not_duplicate" \in r.holds <=> ~Repeats(p))
        BY <2>d DEF r
      <3> QED BY <2>1, <2>4, <3>3, <3>4, <3>5, <3>6, <3>7
    <2> QED BY <2>3, <2>4
  <1> QED BY <1>1, InvHolds, PTL

\* The running minimum of benjamini_hochberg, adjusted p-values taken from the
\* largest down, rejects exactly what the step-up procedure rejects, for every
\* family of p-values that a batch can come to (fdr.py 50-64, orchestrator.py
\* 163-170).
THEOREM JointTestIsStepUp == Spec => []RejectionIsStepUp
  <1>1. Init => RejectionIsStepUp
    BY DEF Init, RejectionIsStepUp
  <1>2. Inv /\ RejectionIsStepUp /\ Next => RejectionIsStepUp'
    <2> SUFFICES ASSUME Inv, RejectionIsStepUp, Next PROVE RejectionIsStepUp'
      OBVIOUS
    <2>1. CASE DecideFamily
      <3>1. family' \in [Clean -> PValues] /\ rejected' = Rejected(family', Q, One)
        BY <2>1 DEF DecideFamily
      <3>2. IsFiniteSet(Clean) /\ Clean \subseteq Nat
        BY CleanFinite DEF Inv, Proposals
      <3>3. One \in Nat /\ Q \in Nat /\ Q < One /\ PValues \subseteq Nat
        BY GateStackAssumption
      <3>4. /\ IsFiniteSet(DOMAIN family') /\ DOMAIN family' \subseteq Nat
            /\ \A k \in DOMAIN family' : family'[k] \in Nat
        BY <3>1, <3>2, <3>3
      <3>5. Rejected(family', Q, One) = StepUp(family', Q)
        BY <3>3, <3>4, RejectedIsStepUp
      <3> QED BY <3>1, <3>5 DEF RejectionIsStepUp
    <2>2. CASE ~DecideFamily
      <3>1. UNCHANGED <<family, rejected>>
            /\ (phase' \in {"C", "D", "done"} => phase \in {"C", "D", "done"})
        BY <2>2, Cases DEF Refuse, PassAudit, NoEvidence, Robustness, StoreClean, EndPhaseA,
                          EndPhaseC, Advance, downstream
      <3> QED BY <3>1 DEF RejectionIsStepUp
    <2> QED BY <2>1, <2>2
  <1>3. RejectionIsStepUp /\ UNCHANGED vars => RejectionIsStepUp'
    BY DEF RejectionIsStepUp, vars
  <1> QED BY <1>1, <1>2, <1>3, InvHolds, PTL DEF Spec

===============================================================================
