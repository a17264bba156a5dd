-------------------------- MODULE TraceCleaningProofs --------------------------
(***************************************************************************)
(* What holds of every run of the transaction stages, for any raw files,    *)
(* profiles, chunk and batch sizes and price rules: the files of a cleaning *)
(* run that ends well hold exactly the trades that stand in the raw file as *)
(* a whole, and what the bounce-back filter publishes does not depend on    *)
(* the batches it read.  Both are statements about folds over a file; the   *)
(* first half of the module relates the folds, position by position, to     *)
(* sets of positions of the whole file.                                     *)
(***************************************************************************)
EXTENDS TraceCleaning, FiniteSetTheorems, SequenceTheorems, WellFoundedInduction, TLAPS

-----------------------------------------------------------------------------
(* Induction.                                                              *)

LEMMA LeastOf ==
    ASSUME NEW T \in SUBSET Nat, T # {}
    PROVE  \E n \in T : \A m \in T : n <= m
  <1> DEFINE R == {ss \in Nat \X Nat : ss[1] < ss[2]}
  <1>1. IsWellFoundedOn(R, Nat)
    BY NatLessThanWellFounded DEF OpToRel
  <1>2. \A x, y \in Nat : y < x => <<y, x>> \in R
    OBVIOUS
  <1> HIDE DEF R
  <1>3. PICK n \in T : \A y \in T : ~(<<y, n>> \in R)
    BY <1>1, WFMin
  <1>4. ASSUME NEW m \in T
        PROVE  n <= m
    <2>1. m \in Nat /\ n \in Nat
      OBVIOUS
    <2>2. ~(m < n)
      BY <1>2, <1>3, <2>1
    <2> QED BY <2>1, <2>2
  <1> QED BY <1>4

LEMMA NumberInduction ==
    ASSUME NEW G, 0 \in G, \A n \in Nat : n \in G => n + 1 \in G, NEW m \in Nat
    PROVE  m \in G
  <1> SUFFICES ASSUME m \notin G PROVE FALSE
    OBVIOUS
  <1> DEFINE T == {n \in Nat : n \notin G}
  <1>1. PICK n \in T : \A k \in T : n <= k
    <2>1. T \in SUBSET Nat /\ T # {}
      OBVIOUS
    <2> HIDE DEF T
    <2> QED BY <2>1, LeastOf, Zenon
  <1>2. n - 1 \in Nat /\ n - 1 \in G
    BY <1>1
  <1> QED BY <1>1, <1>2

\* What holds of the empty sequence, and of a sequence with one more member.
LEMMA SequenceInduction ==
    ASSUME NEW S, NEW G, <<>> \in G,
           \A s \in Seq(S) : \A x \in S : s \in G => Append(s, x) \in G,
           NEW t \in Seq(S)
    PROVE  t \in G
  <1> DEFINE H == {n \in Nat : \A s \in Seq(S) : Len(s) = n => s \in G}
  <1>1. 0 \in H
    <2>1. \A s \in Seq(S) : Len(s) = 0 => s = <<>>
      BY EmptySeq
    <2> QED BY <2>1
  <1>2. ASSUME NEW n \in Nat, n \in H PROVE n + 1 \in H
    <2> SUFFICES ASSUME NEW s \in Seq(S), Len(s) = n + 1 PROVE s \in G
      OBVIOUS
    <2>1. s # <<>>
      BY EmptySeq
    <2>2. PICK u \in Seq(S), x \in S : s = Append(u, x)
      BY <2>1, SequenceEmptyOrAppend
    <2>3. Len(u) = n
      BY <2>2, AppendProperties, LenProperties
    <2> QED BY <1>2, <2>2, <2>3
  <1>3. Len(t) \in Nat
    BY LenProperties
  <1>4. Len(t) \in H
    <2> HIDE DEF H
    <2> QED BY <1>1, <1>2, <1>3, NumberInduction
  <1> QED BY <1>4

-----------------------------------------------------------------------------
(* Folds over sequences.                                                   *)

\* A step of one of the folds: `at` reads members and positions besides.
StepAt(kind, members, positions, acc, x) ==
    CASE kind = "at" -> IF x \in positions THEN Append(acc, members[x]) ELSE acc
      [] kind = "net" ->
             IF Finite(x) /\ BagIn(ValueKey(x), acc.pool)
             THEN [acc EXCEPT !.pool = @ (-) SetToBag({ValueKey(x)})]
             ELSE [acc EXCEPT !.rows = Append(@, x)]
      [] kind = "dedup" ->
             IF x.side = "B" /\ BagIn(ValueKey(x), acc.pool)
             THEN [acc EXCEPT !.pool = @ (-) SetToBag({ValueKey(x)})]
             ELSE [acc EXCEPT !.rows = Append(@, x)]
      [] kind = "filter" -> Accumulate(acc, x)

Highest(s) == CHOOSE x \in s : \A y \in s : x >= y
FoldAt(kind, members, positions, base, seq, s, iter) ==
    IF s = {} THEN base
    ELSE StepAt(kind, members, positions, iter[s \ {Highest(s)}], seq[Highest(s)])
IsFold(kind, members, positions, base, seq, iter) ==
    iter = [s \in SUBSET DOMAIN seq |-> FoldAt(kind, members, positions, base, seq, s, iter)]
FoldOf(kind, members, positions, base, seq) ==
    (CHOOSE iter : IsFold(kind, members, positions, base, seq, iter))[DOMAIN seq]

LEMMA AtIsFold ==
    ASSUME NEW s, NEW I
    PROVE  At(s, I) = FoldOf("at", s, I, <<>>, [i \in DOMAIN s |-> i])
  BY DEF At, FoldLeftDomain, FoldLeft, MapThenFoldSet, Max, FoldOf, IsFold, FoldAt, StepAt, Highest

LEMMA NetOutIsFold ==
    ASSUME NEW rows, NEW from
    PROVE  NetOut(rows, from) = FoldOf("net", <<>>, {}, [rows |-> <<>>, pool |-> from], rows)
  BY DEF NetOut, Consume, FoldLeft, MapThenFoldSet, Max, FoldOf, IsFold, FoldAt, StepAt, Highest

LEMMA DedupIsFold ==
    ASSUME NEW rows, NEW from
    PROVE  Dedup(rows, from) = FoldOf("dedup", <<>>, {}, [rows |-> <<>>, pool |-> from], rows)
  BY DEF Dedup, Consume, FoldLeft, MapThenFoldSet, Max, FoldOf, IsFold, FoldAt, StepAt, Highest

LEMMA ReadIsFold ==
    ASSUME NEW st, NEW rows
    PROVE  FoldLeft(Accumulate, st, rows) = FoldOf("filter", <<>>, {}, st, rows)
  BY DEF FoldLeft, MapThenFoldSet, Max, FoldOf, IsFold, FoldAt, StepAt, Highest

LEMMA TopOf ==
    ASSUME NEW n \in Nat, NEW s \in SUBSET (1 .. n), s # {}
    PROVE  Highest(s) \in s /\ \A y \in s : Highest(s) >= y
  <1> DEFINE T == {m \in Nat : \E x \in s : m = n - x}
  <1>1. T \in SUBSET Nat /\ T # {}
    <2>1. PICK x \in s : TRUE
      OBVIOUS
    <2>2. n - x \in T
      OBVIOUS
    <2> QED BY <2>2
  <1> HIDE DEF T
  <1>2. PICK m \in T : \A k \in T : m <= k
    BY <1>1, LeastOf, Zenon
  <1>3. PICK x \in s : m = n - x
    BY <1>2 DEF T
  <1>4. ASSUME NEW y \in s
        PROVE  x >= y
    <2>1. n - y \in T
      BY DEF T
    <2>2. m <= n - y
      BY <1>2, <2>1
    <2> QED BY <1>3, <2>2
  <1> QED BY <1>4 DEF Highest

LEMMA TopOfInterval ==
    ASSUME NEW n \in Nat \ {0}
    PROVE  Highest(1 .. n) = n /\ (1 .. n) \ {n} = 1 .. n - 1
  <1>1. Highest(1 .. n) \in 1 .. n /\ \A y \in 1 .. n : Highest(1 .. n) >= y
    <2>1. n \in 1 .. n /\ \A y \in 1 .. n : n >= y
      OBVIOUS
    <2> QED BY <2>1 DEF Highest
  <1> QED BY <1>1

LEMMA FoldExists ==
    ASSUME NEW kind, NEW members, NEW positions, NEW base, NEW n \in Nat,
           NEW seq, DOMAIN seq = 1 .. n
    PROVE  \E iter : IsFold(kind, members, positions, base, seq, iter)
  <1> DEFINE Low(k) == {s \in SUBSET DOMAIN seq : s \subseteq 1 .. k}
             At1(s, iter) == FoldAt(kind, members, positions, base, seq, s, iter)
             Run(k, iter) == iter = [s \in Low(k) |-> At1(s, iter)]
             G == {k \in Nat : \E iter : Run(k, iter)}
  <1>0. ASSUME NEW k \in Nat, NEW s \in Low(k + 1), s # {}
        PROVE  s \ {Highest(s)} \in Low(k)
    <2>1. s \in SUBSET (1 .. k + 1)
      OBVIOUS
    <2>2. Highest(s) \in s /\ \A y \in s : Highest(s) >= y
      BY <1>0, <2>1, TopOf
    <2>4. \A y \in s \ {Highest(s)} : y \in 1 .. k
      BY <2>1, <2>2
    <2> QED BY <2>4
  <1>1. 0 \in G
    <2> DEFINE f == [s \in Low(0) |-> base]
    <2>1. \A s \in Low(0) : s = {}
      OBVIOUS
    <2>2. \A s \in Low(0) : At1(s, f) = base
      BY <2>1 DEF FoldAt
    <2> HIDE DEF Low, At1
    <2>3. Run(0, f)
      BY <2>2
    <2> QED BY <2>3
  <1>2. ASSUME NEW k \in Nat, k \in G PROVE k + 1 \in G
    <2>1. PICK iter : Run(k, iter)
      BY <1>2
    <2> DEFINE next == [s \in Low(k + 1) |-> At1(s, iter)]
    <2>2. Low(k) \subseteq Low(k + 1)
      OBVIOUS
    <2>3. \A s \in Low(k) : iter[s] = At1(s, iter)
      BY <2>1
    <2>4. \A s \in Low(k) : next[s] = iter[s]
      BY <2>2, <2>3
    <2> HIDE DEF Low, next
    <2>5. \A s \in Low(k + 1) : At1(s, iter) = At1(s, next)
      BY <1>0, <2>4 DEF FoldAt
    <2> HIDE DEF At1
    <2>6. Run(k + 1, next)
      BY <2>5 DEF next
    <2> QED BY <2>6
  <1>3. Low(n) = SUBSET DOMAIN seq
    OBVIOUS
  <1> HIDE DEF Low
  <1>4. n \in G
    <2> HIDE DEF G
    <2> QED BY <1>1, <1>2, NumberInduction
  <1>5. PICK iter : Run(n, iter)
    BY <1>4
  <1>6. IsFold(kind, members, positions, base, seq, iter)
    BY <1>3, <1>5 DEF IsFold
  <1> QED BY <1>6

\* What a fold is after each of its steps.
IsTrace(kind, members, positions, base, seq, g) ==
    /\ g[0] = base
    /\ \A n \in 1 .. Len(seq) : g[n] = StepAt(kind, members, positions, g[n - 1], seq[n])
    /\ FoldOf(kind, members, positions, base, seq) = g[Len(seq)]

LEMMA FoldSteps ==
    ASSUME NEW kind, NEW members, NEW positions, NEW base, NEW S, NEW seq \in Seq(S)
    PROVE  \E g : IsTrace(kind, members, positions, base, seq, g)
  <1> DEFINE N == Len(seq)
             iter == CHOOSE f : IsFold(kind, members, positions, base, seq, f)
             g == [n \in 0 .. N |-> iter[1 .. n]]
  <1>1. N \in Nat /\ DOMAIN seq = 1 .. N
    BY LenProperties
  <1>2. IsFold(kind, members, positions, base, seq, iter)
    BY <1>1, FoldExists
  <1>3. FoldOf(kind, members, positions, base, seq) = iter[1 .. N]
    BY <1>1 DEF FoldOf
  <1> HIDE DEF iter, N
  <1>4. \A n \in 0 .. N : iter[1 .. n] = FoldAt(kind, members, positions, base, seq, 1 .. n, iter)
    <2> TAKE n \in 0 .. N
    <2>1. 1 .. n \in SUBSET DOMAIN seq
      BY <1>1
    <2> QED BY <1>2, <2>1 DEF IsFold
  <1>5. g[0] = base
    <2>1. 1 .. 0 = {} /\ 0 \in 0 .. N
      BY <1>1
    <2> QED BY <1>4, <2>1 DEF FoldAt
  <1>6. ASSUME NEW n \in 1 .. N
        PROVE  g[n] = StepAt(kind, members, positions, g[n - 1], seq[n])
    <2>1. Highest(1 .. n) = n /\ (1 .. n) \ {n} = 1 .. n - 1 /\ 1 .. n # {}
          /\ n \in 0 .. N /\ n - 1 \in 0 .. N
      <3>1. n \in Nat \ {0} /\ n \in 1 .. n /\ n \in 0 .. N /\ n - 1 \in 0 .. N
        BY <1>1
      <3>2. Highest(1 .. n) = n /\ (1 .. n) \ {n} = 1 .. n - 1
        BY <3>1, TopOfInterval
      <3> QED BY <3>1, <3>2
    <2>2. g[n] = iter[1 .. n] /\ g[n - 1] = iter[1 .. n - 1]
      BY <2>1
    <2>3. iter[1 .. n] = FoldAt(kind, members, positions, base, seq, 1 .. n, iter)
      BY <1>4, <2>1
    <2> HIDE DEF g
    <2> QED BY <2>1, <2>2, <2>3 DEF FoldAt
  <1>7. g[N] = iter[1 .. N]
    BY <1>1
  <1> HIDE DEF g
  <1>8. IsTrace(kind, members, positions, base, seq, g)
    BY <1>3, <1>5, <1>6, <1>7 DEF IsTrace, N
  <1> QED BY <1>8

LEMMA FoldOfNone ==
    ASSUME NEW kind, NEW members, NEW positions, NEW base
    PROVE  FoldOf(kind, members, positions, base, <<>>) = base
  <1>1. <<>> \in Seq({}) /\ Len(<<>>) = 0
    BY EmptySeq
  <1>2. PICK g : IsTrace(kind, members, positions, base, <<>>, g)
    BY <1>1, FoldSteps, Zenon
  <1> QED BY <1>1, <1>2 DEF IsTrace

LEMMA FoldOfOneMore ==
    ASSUME NEW kind, NEW members, NEW positions, NEW base, NEW S, NEW seq \in Seq(S), NEW x \in S
    PROVE  FoldOf(kind, members, positions, base, Append(seq, x))
               = StepAt(kind, members, positions, FoldOf(kind, members, positions, base, seq), x)
  <1> DEFINE N == Len(seq)
             more == Append(seq, x)
  <1>1. N \in Nat /\ more \in Seq(S) /\ Len(more) = N + 1 /\ more[N + 1] = x
        /\ \A n \in 1 .. N : more[n] = seq[n]
    BY AppendProperties, LenProperties
  <1>2. PICK g : IsTrace(kind, members, positions, base, seq, g)
    BY FoldSteps
  <1> HIDE DEF more
  <1>3. PICK h : IsTrace(kind, members, positions, base, more, h)
    BY <1>1, FoldSteps
  <1> HIDE DEF N
  <1>4. /\ g[0] = base /\ \A n \in 1 .. N : g[n] = StepAt(kind, members, positions, g[n - 1], seq[n])
        /\ FoldOf(kind, members, positions, base, seq) = g[N]
    BY <1>2 DEF IsTrace, N
  <1>5. /\ h[0] = base
        /\ \A n \in 1 .. N + 1 : h[n] = StepAt(kind, members, positions, h[n - 1], more[n])
        /\ FoldOf(kind, members, positions, base, more) = h[N + 1]
    BY <1>1, <1>3 DEF IsTrace
  <1> DEFINE G == {n \in Nat : n <= N => g[n] = h[n]}
  <1>6. 0 \in G
    BY <1>4, <1>5
  <1>7. ASSUME NEW n \in Nat, n \in G PROVE n + 1 \in G
    <2> SUFFICES ASSUME n + 1 <= N PROVE g[n + 1] = h[n + 1]
      OBVIOUS
    <2>1. n + 1 \in 1 .. N /\ n + 1 \in 1 .. N + 1 /\ (n + 1) - 1 = n /\ n <= N
      BY <1>1
    <2>2. g[n] = h[n]
      BY <1>7, <2>1
    <2>3. g[n + 1] = StepAt(kind, members, positions, g[n], seq[n + 1])
      BY <1>4, <2>1
    <2>4. h[n + 1] = StepAt(kind, members, positions, h[n], more[n + 1])
      BY <1>5, <2>1
    <2> QED BY <1>1, <2>1, <2>2, <2>3, <2>4
  <1>8. N \in G
    <2> HIDE DEF G
    <2> QED BY <1>1, <1>6, <1>7, NumberInduction
  <1>9. g[N] = h[N]
    BY <1>1, <1>8
  <1>10. h[N + 1] = StepAt(kind, members, positions, h[N], more[N + 1])
    <2>1. N + 1 \in 1 .. N + 1 /\ (N + 1) - 1 = N
      BY <1>1
    <2> QED BY <1>5, <2>1
  <1> QED BY <1>1, <1>4, <1>5, <1>9, <1>10 DEF more

\* Two folds whose steps are the same.
LEMMA FoldSame ==
    ASSUME NEW kind, NEW m1, NEW m2, NEW p1, NEW p2, NEW base, NEW S, NEW seq \in Seq(S),
           \A n \in 1 .. Len(seq) : \A acc :
               StepAt(kind, m1, p1, acc, seq[n]) = StepAt(kind, m2, p2, acc, seq[n])
    PROVE  FoldOf(kind, m1, p1, base, seq) = FoldOf(kind, m2, p2, base, seq)
  <1> DEFINE N == Len(seq)
  <1>1. N \in Nat
    BY LenProperties
  <1>2. PICK g : IsTrace(kind, m1, p1, base, seq, g)
    BY FoldSteps
  <1>3. PICK h : IsTrace(kind, m2, p2, base, seq, h)
    BY FoldSteps
  <1>4. /\ g[0] = base /\ \A n \in 1 .. N : g[n] = StepAt(kind, m1, p1, g[n - 1], seq[n])
        /\ FoldOf(kind, m1, p1, base, seq) = g[N]
    BY <1>2 DEF IsTrace
  <1>5. /\ h[0] = base /\ \A n \in 1 .. N : h[n] = StepAt(kind, m2, p2, h[n - 1], seq[n])
        /\ FoldOf(kind, m2, p2, base, seq) = h[N]
    BY <1>3 DEF IsTrace
  <1> HIDE DEF N
  <1> DEFINE G == {n \in Nat : n <= N => g[n] = h[n]}
  <1>6. 0 \in G
    BY <1>4, <1>5
  <1>7. ASSUME NEW n \in Nat, n \in G PROVE n + 1 \in G
    <2> SUFFICES ASSUME n + 1 <= N PROVE g[n + 1] = h[n + 1]
      OBVIOUS
    <2>1. n + 1 \in 1 .. N /\ (n + 1) - 1 = n /\ n <= N
      BY <1>1
    <2>2. g[n] = h[n]
      BY <1>7, <2>1
    <2>3. g[n + 1] = StepAt(kind, m1, p1, g[n], seq[n + 1])
      BY <1>4, <2>1
    <2>4. h[n + 1] = StepAt(kind, m2, p2, h[n], seq[n + 1])
      BY <1>5, <2>1
    <2>5. StepAt(kind, m1, p1, g[n], seq[n + 1]) = StepAt(kind, m2, p2, g[n], seq[n + 1])
      BY <2>1 DEF N
    <2> QED BY <2>2, <2>3, <2>4, <2>5
  <1>8. N \in G
    <2> HIDE DEF G
    <2> QED BY <1>1, <1>6, <1>7, NumberInduction
  <1> QED BY <1>1, <1>4, <1>5, <1>8

-----------------------------------------------------------------------------
(* Members at positions.                                                   *)

LEMMA AtNone ==
    ASSUME NEW I
    PROVE  At(<<>>, I) = <<>>
  <1>1. DOMAIN <<>> = {} /\ [i \in DOMAIN <<>> |-> i] = <<>>
    OBVIOUS
  <1>2. At(<<>>, I) = FoldOf("at", <<>>, I, <<>>, [i \in DOMAIN <<>> |-> i])
    BY AtIsFold
  <1> QED BY <1>1, <1>2, FoldOfNone

LEMMA AtOneMore ==
    ASSUME NEW S, NEW s \in Seq(S), NEW x \in S, NEW I
    PROVE  At(Append(s, x), I) = IF Len(s) + 1 \in I THEN Append(At(s, I), x) ELSE At(s, I)
  <1> DEFINE N == Len(s)
             more == Append(s, x)
             before == [i \in DOMAIN s |-> i]
             after == [i \in DOMAIN more |-> i]
  <1>1. N \in Nat /\ DOMAIN s = 1 .. N /\ more \in Seq(S) /\ Len(more) = N + 1
        /\ DOMAIN more = 1 .. N + 1 /\ more[N + 1] = x /\ \A n \in 1 .. N : more[n] = s[n]
    BY AppendProperties, LenProperties
  <1> HIDE DEF more, N
  <1>2. before \in Seq(Nat) /\ Len(before) = N
    <2>1. before = [i \in 1 .. N |-> i]
      BY <1>1
    <2> QED BY <1>1, <2>1, IsASeq
  <1>3. after = Append(before, N + 1)
    <2>1. after = [i \in 1 .. N + 1 |-> i]
      BY <1>1
    <2>2. N + 1 \in Nat
      BY <1>1
    <2>3. before = [i \in 1 .. N |-> i]
      BY <1>1
    <2> HIDE DEF before, after
    <2>4. after \in Seq(Nat) /\ Len(after) = N + 1
      BY <1>1, <2>1, IsASeq
    <2>5. Append(before, N + 1) \in Seq(Nat) /\ Len(Append(before, N + 1)) = N + 1
          /\ \A i \in 1 .. N : Append(before, N + 1)[i] = before[i]
          /\ Append(before, N + 1)[N + 1] = N + 1
      BY <1>2, <2>2, AppendProperties
    <2>6. \A i \in 1 .. N + 1 : after[i] = Append(before, N + 1)[i]
      <3> TAKE i \in 1 .. N + 1
      <3>1. CASE i = N + 1
        BY <2>1, <2>5, <3>1
      <3>2. CASE i # N + 1
        <4>1. i \in 1 .. N
          BY <1>1, <3>2
        <4> QED BY <2>1, <2>3, <2>5, <4>1
      <3> QED BY <3>1, <3>2
    <2> QED BY <2>4, <2>5, <2>6, SeqEqual
  <1>4. At(more, I) = FoldOf("at", more, I, <<>>, after)
    BY AtIsFold
  <1>5. At(s, I) = FoldOf("at", s, I, <<>>, before)
    BY AtIsFold
  <1>6. FoldOf("at", more, I, <<>>, after)
            = StepAt("at", more, I, FoldOf("at", more, I, <<>>, before), N + 1)
    <2>1. N + 1 \in Nat
      BY <1>1
    <2> HIDE DEF before, after
    <2> QED BY <1>2, <1>3, <2>1, FoldOfOneMore
  <1>7. FoldOf("at", more, I, <<>>, before) = FoldOf("at", s, I, <<>>, before)
    <2>1. \A n \in 1 .. Len(before) : \A acc :
              StepAt("at", more, I, acc, before[n]) = StepAt("at", s, I, acc, before[n])
      <3> TAKE n \in 1 .. Len(before)
      <3>1. before[n] = n /\ more[n] = s[n]
        BY <1>1, <1>2
      <3> HIDE DEF before
      <3> QED BY <3>1 DEF StepAt
    <2> HIDE DEF before
    <2> QED BY <1>2, <2>1, FoldSame
  <1> HIDE DEF before, after
  <1>8. At(more, I) = StepAt("at", more, I, At(s, I), N + 1)
    BY <1>4, <1>5, <1>6, <1>7
  <1> QED BY <1>1, <1>8 DEF StepAt, more, N

LEMMA AtTyped ==
    ASSUME NEW S, NEW s \in Seq(S), NEW I
    PROVE  At(s, I) \in Seq(S)
  <1> DEFINE G == {u \in Seq(S) : At(u, I) \in Seq(S)}
  <1>1. <<>> \in G
    BY AtNone, EmptySeq
  <1>2. ASSUME NEW u \in Seq(S), NEW x \in S, u \in G PROVE Append(u, x) \in G
    <2>1. At(Append(u, x), I) = IF Len(u) + 1 \in I THEN Append(At(u, I), x) ELSE At(u, I)
      BY AtOneMore
    <2>2. Append(u, x) \in Seq(S) /\ Append(At(u, I), x) \in Seq(S)
      BY <1>2, AppendProperties
    <2> QED BY <1>2, <2>1, <2>2
  <1> HIDE DEF G
  <1>3. s \in G
    BY <1>1, <1>2, SequenceInduction
  <1> QED BY <1>3 DEF G

LEMMA AtSame ==
    ASSUME NEW S, NEW s \in Seq(S), NEW I, NEW J, \A i \in DOMAIN s : i \in I <=> i \in J
    PROVE  At(s, I) = At(s, J)
  <1> DEFINE G == {u \in Seq(S) : (\A i \in DOMAIN u : i \in I <=> i \in J) => At(u, I) = At(u, J)}
  <1>1. <<>> \in G
    BY AtNone, EmptySeq
  <1>2. ASSUME NEW u \in Seq(S), NEW x \in S, u \in G PROVE Append(u, x) \in G
    <2> DEFINE more == Append(u, x)
    <2>1. /\ At(more, I) = IF Len(u) + 1 \in I THEN Append(At(u, I), x) ELSE At(u, I)
          /\ At(more, J) = IF Len(u) + 1 \in J THEN Append(At(u, J), x) ELSE At(u, J)
      BY AtOneMore
    <2>2. more \in Seq(S) /\ Len(u) \in Nat /\ DOMAIN u = 1 .. Len(u)
          /\ DOMAIN more = 1 .. Len(u) + 1
      BY AppendProperties, LenProperties
    <2> HIDE DEF more
    <2>3. ASSUME \A i \in DOMAIN more : i \in I <=> i \in J
          PROVE  At(more, I) = At(more, J)
      <3>1. \A i \in DOMAIN u : i \in I <=> i \in J
        BY <2>2, <2>3
      <3>2. Len(u) + 1 \in I <=> Len(u) + 1 \in J
        BY <2>2, <2>3
      <3>3. At(u, I) = At(u, J)
        BY <1>2, <3>1
      <3> QED BY <2>1, <3>2, <3>3
    <2> QED BY <2>2, <2>3 DEF more
  <1> HIDE DEF G
  <1>3. s \in G
    BY <1>1, <1>2, SequenceInduction
  <1> QED BY <1>3 DEF G

LEMMA AtOutside ==
    ASSUME NEW S, NEW s \in Seq(S), NEW I, \A i \in DOMAIN s : i \notin I
    PROVE  At(s, I) = <<>>
  <1> DEFINE G == {u \in Seq(S) : (\A i \in DOMAIN u : i \notin I) => At(u, I) = <<>>}
  <1>1. <<>> \in G
    BY AtNone, EmptySeq
  <1>2. ASSUME NEW u \in Seq(S), NEW x \in S, u \in G PROVE Append(u, x) \in G
    <2>1. At(Append(u, x), I) = IF Len(u) + 1 \in I THEN Append(At(u, I), x) ELSE At(u, I)
      BY AtOneMore
    <2>2. Append(u, x) \in Seq(S) /\ Len(u) \in Nat /\ DOMAIN u = 1 .. Len(u)
          /\ DOMAIN Append(u, x) = 1 .. Len(u) + 1
      BY AppendProperties, LenProperties
    <2> QED BY <1>2, <2>1, <2>2
  <1> HIDE DEF G
  <1>3. s \in G
    BY <1>1, <1>2, SequenceInduction
  <1> QED BY <1>3 DEF G

\* Positions of which some come before others.
Before(I, J) == \E n \in Nat : (\A i \in I : i <= n) /\ \A j \in J : j > n

LEMMA AtSplit ==
    ASSUME NEW S, NEW s \in Seq(S), NEW I, NEW J, Before(I, J)
    PROVE  At(s, I \cup J) = At(s, I) \o At(s, J)
  <1> SUFFICES ASSUME NEW n \in Nat, \A i \in I : i <= n, \A j \in J : j > n
               PROVE  At(s, I \cup J) = At(s, I) \o At(s, J)
    BY DEF Before
  <1> DEFINE G == {u \in Seq(S) : At(u, I \cup J) = At(u, I) \o At(u, J)}
  <1>1. <<>> \in G
    <2>1. <<>> \o <<>> = <<>> /\ <<>> \in Seq(S)
      BY EmptySeq, ConcatEmptySeq
    <2> QED BY <2>1, AtNone
  <1>2. ASSUME NEW u \in Seq(S), NEW x \in S, u \in G PROVE Append(u, x) \in G
    <2> DEFINE m == Len(u) + 1
    <2>1. \A K : At(Append(u, x), K) = IF m \in K THEN Append(At(u, K), x) ELSE At(u, K)
      BY AtOneMore
    <2>2. Append(u, x) \in Seq(S) /\ m \in Nat /\ DOMAIN u = 1 .. m - 1
      BY AppendProperties, LenProperties
    <2>3. At(u, I) \in Seq(S) /\ At(u, J) \in Seq(S)
      BY AtTyped
    <2> HIDE DEF m
    <2>4. CASE m \in I
      <3>1. m \notin J
        BY <2>2, <2>4
      <3>2. \A i \in DOMAIN u : i \notin J
        BY <2>2, <2>4
      <3>3. At(u, J) = <<>>
        BY <3>2, AtOutside
      <3>4. At(u, I) \o <<>> = At(u, I)
            /\ Append(At(u, I), x) \o <<>> = Append(At(u, I), x)
        <4>1. Append(At(u, I), x) \in Seq(S)
          BY <2>3, AppendProperties
        <4> QED BY <2>3, <4>1, ConcatEmptySeq
      <3>5. At(u, I \cup J) = At(u, I)
        BY <1>2, <3>3, <3>4
      <3> QED BY <2>1, <2>2, <2>4, <3>1, <3>3, <3>4, <3>5
    <2>5. CASE m \notin I /\ m \in J
      <3>1. Append(At(u, I) \o At(u, J), x) = At(u, I) \o Append(At(u, J), x)
        <4> DEFINE A == At(u, I)
                   B == At(u, J)
        <4>1. A \in Seq(S) /\ B \in Seq(S) /\ <<x>> \in Seq(S) /\ A \o B \in Seq(S)
          BY <2>3, ConcatProperties
        <4> HIDE DEF A, B
        <4>2. Append(A \o B, x) = (A \o B) \o <<x>> /\ Append(B, x) = B \o <<x>>
          BY <4>1, AppendIsConcat
        <4>3. (A \o B) \o <<x>> = A \o (B \o <<x>>)
          BY <4>1, ConcatAssociative
        <4>4. Append(A \o B, x) = A \o Append(B, x)
          BY <4>2, <4>3
        <4> QED BY <4>4 DEF A, B
      <3> QED BY <1>2, <2>1, <2>2, <2>5, <3>1
    <2>6. CASE m \notin I /\ m \notin J
      BY <1>2, <2>1, <2>2, <2>6
    <2> QED BY <2>4, <2>5, <2>6
  <1> HIDE DEF G
  <1>3. s \in G
    BY <1>1, <1>2, SequenceInduction
  <1> QED BY <1>3 DEF G

\* One position more, after all the others.
LEMMA AtLater ==
    ASSUME NEW S, NEW s \in Seq(S), NEW n \in DOMAIN s, NEW I, \A i \in I : i < n
    PROVE  At(s, I \cup {n}) = Append(At(s, I), s[n])
  <1> DEFINE G == {u \in Seq(S) : n \in DOMAIN u => At(u, I \cup {n}) = Append(At(u, I), u[n])}
  <1>1. <<>> \in G
    BY EmptySeq
  <1>2. ASSUME NEW u \in Seq(S), NEW x \in S, u \in G PROVE Append(u, x) \in G
    <2> DEFINE m == Len(u) + 1
               more == Append(u, x)
    <2>1. \A K : At(more, K) = IF m \in K THEN Append(At(u, K), x) ELSE At(u, K)
      BY AtOneMore
    <2>2. more \in Seq(S) /\ m \in Nat /\ DOMAIN u = 1 .. m - 1 /\ DOMAIN more = 1 .. m
          /\ more[m] = x /\ \A i \in 1 .. m - 1 : more[i] = u[i]
      BY AppendProperties, LenProperties
    <2> HIDE DEF m, more
    <2>3. n \in Nat
      BY LenProperties
    <2>4. CASE n = m
      <3>1. \A i \in DOMAIN u : i \in I \cup {n} <=> i \in I
        BY <2>2, <2>4
      <3>2. At(u, I \cup {n}) = At(u, I)
        BY <3>1, AtSame
      <3>3. m \notin I
        BY <2>2, <2>4
      <3> QED BY <2>1, <2>2, <2>4, <3>2, <3>3 DEF more
    <2>5. CASE n # m /\ n \in DOMAIN more
      <3>1. n \in DOMAIN u /\ more[n] = u[n] /\ m \notin I
        BY <2>2, <2>3, <2>5
      <3>2. At(u, I \cup {n}) = Append(At(u, I), u[n])
        BY <1>2, <3>1
      <3> QED BY <2>1, <2>2, <2>5, <3>1, <3>2 DEF more
    <2> QED BY <2>2, <2>4, <2>5 DEF more
  <1> HIDE DEF G
  <1>3. s \in G
    BY <1>1, <1>2, SequenceInduction
  <1> QED BY <1>3 DEF G

\* Adjacent positions.
LEMMA AtInterval ==
    ASSUME NEW S, NEW s \in Seq(S), NEW a \in 0 .. Len(s), NEW b \in a .. Len(s)
    PROVE  SubSeq(s, a + 1, b) = At(s, a + 1 .. b)
  <1> DEFINE G == {k \in Nat : a + k <= Len(s) => SubSeq(s, a + 1, a + k) = At(s, a + 1 .. a + k)}
  <1>0. Len(s) \in Nat /\ a \in Nat /\ DOMAIN s = 1 .. Len(s)
    BY LenProperties
  <1>1. 0 \in G
    <2>1. a + 1 .. a + 0 = {}
      BY <1>0
    <2>2. SubSeq(s, a + 1, a + 0) = <<>>
      BY <1>0, SubSeqEmpty
    <2>3. At(s, {}) = <<>>
      BY AtOutside
    <2> QED BY <2>1, <2>2, <2>3
  <1>2. ASSUME NEW k \in Nat, k \in G PROVE k + 1 \in G
    <2> SUFFICES ASSUME a + (k + 1) <= Len(s)
                 PROVE  SubSeq(s, a + 1, a + (k + 1)) = At(s, a + 1 .. a + (k + 1))
      OBVIOUS
    <2>1. SubSeq(s, a + 1, a + k) = At(s, a + 1 .. a + k)
      BY <1>0, <1>2
    <2>2. a + 1 .. a + (k + 1) = (a + 1 .. a + k) \cup {a + (k + 1)}
      BY <1>0
    <2>3. a + (k + 1) \in DOMAIN s /\ \A i \in a + 1 .. a + k : i < a + (k + 1)
      BY <1>0
    <2>4. At(s, (a + 1 .. a + k) \cup {a + (k + 1)}) = Append(At(s, a + 1 .. a + k), s[a + (k + 1)])
      BY <2>3, AtLater
    <2>5. SubSeq(s, a + 1, a + (k + 1)) = Append(SubSeq(s, a + 1, a + k), s[a + (k + 1)])
      <3>1. a + 1 \in 1 .. Len(s) /\ a + (k + 1) \in a + 1 .. Len(s) /\ (a + (k + 1)) - 1 = a + k
        BY <1>0
      <3>2. SubSeq(s, a + 1, a + (k + 1)) = SubSeq(s, a + 1, a + k) \o <<s[a + (k + 1)]>>
        BY <3>1, SubSeqRecursiveSecond
      <3>3. At(s, a + 1 .. a + k) \in Seq(S)
        BY AtTyped
      <3>4. SubSeq(s, a + 1, a + k) \in Seq(S) /\ s[a + (k + 1)] \in S
        <4> DEFINE K == a + 1 .. a + k
        <4> HIDE DEF K
        <4> QED BY <1>0, <2>1, <2>3, <3>3, ElementOfSeq
      <3> QED BY <3>2, <3>4, AppendIsConcat
    <2> QED BY <2>1, <2>2, <2>4, <2>5
  <1>3. b - a \in Nat /\ a + (b - a) = b
    BY <1>0
  <1>4. b - a \in G
    <2> HIDE DEF G
    <2> QED BY <1>1, <1>2, <1>3, NumberInduction
  <1> QED BY <1>0, <1>3, <1>4

-----------------------------------------------------------------------------
(* Members of a set.                                                       *)

Only(s, Q) == At(s, {i \in DOMAIN s : s[i] \in Q})

LEMMA OnlyOfNone ==
    ASSUME NEW Q
    PROVE  Only(<<>>, Q) = <<>>
  BY AtNone DEF Only

LEMMA OnlyOneMore ==
    ASSUME NEW S, NEW s \in Seq(S), NEW x \in S, NEW Q
    PROVE  Only(Append(s, x), Q) = IF x \in Q THEN Append(Only(s, Q), x) ELSE Only(s, Q)
  <1> DEFINE N == Len(s)
             more == Append(s, x)
             I == {i \in DOMAIN more : more[i] \in Q}
             J == {i \in DOMAIN s : s[i] \in Q}
  <1>1. N \in Nat /\ DOMAIN s = 1 .. N /\ DOMAIN more = 1 .. N + 1 /\ more[N + 1] = x
        /\ \A n \in 1 .. N : more[n] = s[n]
    BY AppendProperties, LenProperties
  <1> HIDE DEF more, N
  <1>2. \A i \in DOMAIN s : i \in I <=> i \in J
    BY <1>1
  <1>3. N + 1 \in I <=> x \in Q
    BY <1>1
  <1> HIDE DEF I, J
  <1>4. At(s, I) = At(s, J)
    BY <1>2, AtSame
  <1>5. At(more, I) = IF N + 1 \in I THEN Append(At(s, I), x) ELSE At(s, I)
    BY AtOneMore DEF more, N
  <1> QED BY <1>3, <1>4, <1>5 DEF Only, I, J, more

LEMMA OnlyTyped ==
    ASSUME NEW S, NEW s \in Seq(S), NEW Q
    PROVE  Only(s, Q) \in Seq(S)
  BY AtTyped DEF Only

LEMMA OnlyConcat ==
    ASSUME NEW S, NEW s \in Seq(S), NEW t \in Seq(S), NEW Q
    PROVE  Only(s \o t, Q) = Only(s, Q) \o Only(t, Q)
  <1> DEFINE G == {u \in Seq(S) : Only(s \o u, Q) = Only(s, Q) \o Only(u, Q)}
  <1>1. <<>> \in G
    <2>1. <<>> \in Seq(S) /\ s \o <<>> = s /\ Only(s, Q) \o <<>> = Only(s, Q)
      BY EmptySeq, ConcatEmptySeq, OnlyTyped
    <2> QED BY <2>1, OnlyOfNone
  <1>2. ASSUME NEW u \in Seq(S), NEW x \in S, u \in G PROVE Append(u, x) \in G
    <2>1. s \o u \in Seq(S) /\ Append(u, x) \in Seq(S) /\ Only(s, Q) \in Seq(S) /\ Only(u, Q) \in Seq(S)
      BY ConcatProperties, AppendProperties, OnlyTyped
    <2>2. \A v, w \in Seq(S) : Append(v \o w, x) = v \o Append(w, x)
      <3> TAKE v, w \in Seq(S)
      <3>1. <<x>> \in Seq(S) /\ v \o w \in Seq(S)
        BY ConcatProperties
      <3>2. Append(v \o w, x) = (v \o w) \o <<x>> /\ Append(w, x) = w \o <<x>>
        BY <3>1, AppendIsConcat
      <3>3. (v \o w) \o <<x>> = v \o (w \o <<x>>)
        BY <3>1, ConcatAssociative
      <3> QED BY <3>2, <3>3
    <2>3. Only(Append(s \o u, x), Q) = IF x \in Q THEN Append(Only(s \o u, Q), x) ELSE Only(s \o u, Q)
      BY <2>1, OnlyOneMore
    <2>4. Only(Append(u, x), Q) = IF x \in Q THEN Append(Only(u, Q), x) ELSE Only(u, Q)
      BY OnlyOneMore
    <2>5. Append(s \o u, x) = s \o Append(u, x)
          /\ Append(Only(s, Q) \o Only(u, Q), x) = Only(s, Q) \o Append(Only(u, Q), x)
      BY <2>1, <2>2
    <2> QED BY <1>2, <2>1, <2>3, <2>4, <2>5
  <1> HIDE DEF G
  <1>3. t \in G
    BY <1>1, <1>2, SequenceInduction
  <1> QED BY <1>3 DEF G

LEMMA OnlyAll ==
    ASSUME NEW S, NEW s \in Seq(S), NEW Q, \A i \in DOMAIN s : s[i] \in Q
    PROVE  Only(s, Q) = s
  <1> DEFINE G == {u \in Seq(S) : (\A i \in DOMAIN u : u[i] \in Q) => Only(u, Q) = u}
  <1>1. <<>> \in G
    BY EmptySeq, OnlyOfNone
  <1>2. ASSUME NEW u \in Seq(S), NEW x \in S, u \in G PROVE Append(u, x) \in G
    <2> DEFINE more == Append(u, x)
               N == Len(u)
    <2>1. N \in Nat /\ DOMAIN u = 1 .. N /\ more \in Seq(S) /\ DOMAIN more = 1 .. N + 1
          /\ more[N + 1] = x /\ \A n \in 1 .. N : more[n] = u[n]
      BY AppendProperties, LenProperties
    <2>2. Only(more, Q) = IF x \in Q THEN Append(Only(u, Q), x) ELSE Only(u, Q)
      BY OnlyOneMore
    <2> HIDE DEF more, N
    <2>3. ASSUME \A i \in DOMAIN more : more[i] \in Q
          PROVE  Only(more, Q) = more
      <3>1. x \in Q /\ \A i \in DOMAIN u : u[i] \in Q
        BY <2>1, <2>3
      <3> QED BY <1>2, <2>2, <3>1 DEF more
    <2> QED BY <2>1, <2>3 DEF more
  <1> HIDE DEF G
  <1>3. s \in G
    BY <1>1, <1>2, SequenceInduction
  <1> QED BY <1>3 DEF G

LEMMA OnlyAbsent ==
    ASSUME NEW S, NEW s \in Seq(S), NEW Q, \A i \in DOMAIN s : s[i] \notin Q
    PROVE  Only(s, Q) = <<>>
  <1> DEFINE J == {i \in DOMAIN s : s[i] \in Q}
  <1>1. \A i \in DOMAIN s : i \notin J
    OBVIOUS
  <1> HIDE DEF J
  <1>2. At(s, J) = <<>>
    BY <1>1, AtOutside
  <1> QED BY <1>2 DEF Only, J

\* What is taken from what was taken.
LEMMA Fused ==
    ASSUME NEW S, NEW s \in Seq(S), NEW I, NEW Q
    PROVE  Only(At(s, I), Q) = At(s, {i \in DOMAIN s : i \in I /\ s[i] \in Q})
  <1> DEFINE J(u) == {i \in DOMAIN u : i \in I /\ u[i] \in Q}
             G == {u \in Seq(S) : Only(At(u, I), Q) = At(u, J(u))}
  <1>1. <<>> \in G
    BY AtNone, EmptySeq, OnlyOfNone
  <1>2. ASSUME NEW u \in Seq(S), NEW x \in S, u \in G PROVE Append(u, x) \in G
    <2> DEFINE more == Append(u, x)
               N == Len(u)
    <2>1. N \in Nat /\ DOMAIN u = 1 .. N /\ more \in Seq(S) /\ DOMAIN more = 1 .. N + 1
          /\ more[N + 1] = x /\ \A n \in 1 .. N : more[n] = u[n]
      BY AppendProperties, LenProperties
    <2>2. \A K : At(more, K) = IF N + 1 \in K THEN Append(At(u, K), x) ELSE At(u, K)
      BY AtOneMore
    <2>3. Only(Append(At(u, I), x), Q)
              = IF x \in Q THEN Append(Only(At(u, I), Q), x) ELSE Only(At(u, I), Q)
      <3>1. At(u, I) \in Seq(S)
        BY AtTyped
      <3> QED BY <3>1, OnlyOneMore
    <2> HIDE DEF more, N
    <2>4. \A i \in DOMAIN u : i \in J(more) <=> i \in J(u)
      BY <2>1
    <2>5. N + 1 \in J(more) <=> N + 1 \in I /\ x \in Q
      BY <2>1
    <2>6. Only(At(u, I), Q) = At(u, J(u))
      BY <1>2
    <2> HIDE DEF J
    <2>7. At(u, J(more)) = At(u, J(u))
      BY <2>4, AtSame
    <2>8. Only(At(more, I), Q) = At(more, J(more))
      BY <2>2, <2>3, <2>5, <2>6, <2>7
    <2> QED BY <2>1, <2>8 DEF more
  <1> HIDE DEF G
  <1>3. s \in G
    BY <1>1, <1>2, SequenceInduction
  <1> QED BY <1>3 DEF G

\* How many there are of what was taken.
PlacesOf(s, Q) == {p \in DOMAIN s : s[p] \in Q}
PlacesIn(s, I, Q) == {i \in DOMAIN s : i \in I /\ s[i] \in Q}

LEMMA Counted ==
    ASSUME NEW S, NEW s \in Seq(S), NEW I, NEW Q
    PROVE  Cardinality(PlacesOf(At(s, I), Q)) = Cardinality(PlacesIn(s, I, Q))
  <1> DEFINE J(u) == {i \in DOMAIN u : i \in I /\ u[i] \in Q}
             P(v) == {p \in DOMAIN v : v[p] \in Q}
             G == {u \in Seq(S) : Cardinality(P(At(u, I))) = Cardinality(J(u))}
  <1>0. ASSUME NEW v \in Seq(S), NEW x \in S
        PROVE  /\ IsFiniteSet(P(v))
               /\ Cardinality(P(Append(v, x))) = Cardinality(P(v)) + (IF x \in Q THEN 1 ELSE 0)
    <2> DEFINE more == Append(v, x)
               N == Len(v)
    <2>1. N \in Nat /\ DOMAIN v = 1 .. N /\ DOMAIN more = 1 .. N + 1
          /\ more[N + 1] = x /\ \A n \in 1 .. N : more[n] = v[n]
      BY AppendProperties, LenProperties
    <2> HIDE DEF more, N
    <2>2. IsFiniteSet(P(v))
      <3>1. P(v) \in SUBSET (1 .. N)
        BY <2>1
      <3>2. IsFiniteSet(1 .. N)
        BY <2>1, FS_Interval
      <3> HIDE DEF P
      <3> QED BY ONLY <3>1, <3>2, FS_Subset
    <2>3. N + 1 \notin P(v)
      BY <2>1
    <2>4. P(more) = IF x \in Q THEN P(v) \cup {N + 1} ELSE P(v)
      BY <2>1
    <2> HIDE DEF P
    <2>5. Cardinality(P(v) \cup {N + 1}) = Cardinality(P(v)) + 1
      BY <2>2, <2>3, FS_AddElement
    <2>6. Cardinality(P(v)) \in Nat
      BY <2>2, FS_CardinalityType
    <2> QED BY <2>2, <2>4, <2>5, <2>6 DEF more
  <1>1. <<>> \in G
    <2>1. P(<<>>) = {} /\ J(<<>>) = {}
      OBVIOUS
    <2> QED BY <2>1, AtNone, EmptySeq
  <1>2. ASSUME NEW u \in Seq(S), NEW x \in S, u \in G PROVE Append(u, x) \in G
    <2> DEFINE more == Append(u, x)
               N == Len(u)
    <2>1. N \in Nat /\ DOMAIN u = 1 .. N /\ more \in Seq(S) /\ DOMAIN more = 1 .. N + 1
          /\ more[N + 1] = x /\ \A n \in 1 .. N : more[n] = u[n]
      BY AppendProperties, LenProperties
    <2>2. At(more, I) = IF N + 1 \in I THEN Append(At(u, I), x) ELSE At(u, I)
      BY AtOneMore
    <2>3. At(u, I) \in Seq(S)
      BY AtTyped
    <2> HIDE DEF more, N
    <2>4. IsFiniteSet(J(u)) /\ N + 1 \notin J(u)
      <3>1. J(u) \in SUBSET (1 .. N)
        BY <2>1
      <3>2. N + 1 \notin J(u)
        BY <2>1
      <3>3. IsFiniteSet(1 .. N)
        BY <2>1, FS_Interval
      <3> HIDE DEF J
      <3>4. IsFiniteSet(J(u))
        BY ONLY <3>1, <3>3, FS_Subset
      <3> QED BY <3>2, <3>4
    <2>5. J(more) = IF N + 1 \in I /\ x \in Q THEN J(u) \cup {N + 1} ELSE J(u)
      BY <2>1
    <2>6. Cardinality(P(At(u, I))) = Cardinality(J(u))
      BY <1>2
    <2> HIDE DEF J, P
    <2>7. Cardinality(J(u) \cup {N + 1}) = Cardinality(J(u)) + 1
      BY <2>4, FS_AddElement
    <2>8. Cardinality(P(Append(At(u, I), x))) = Cardinality(P(At(u, I))) + (IF x \in Q THEN 1 ELSE 0)
      BY <1>0, <2>3
    <2>9. Cardinality(J(u)) \in Nat
      BY <2>4, FS_CardinalityType
    <2>10. Cardinality(P(At(more, I))) = Cardinality(J(more))
      BY <2>2, <2>5, <2>6, <2>7, <2>8, <2>9
    <2> QED BY <2>1, <2>10 DEF more
  <1> HIDE DEF G
  <1>3. s \in G
    BY <1>1, <1>2, SequenceInduction
  <1>4. Cardinality(P(At(s, I))) = Cardinality(J(s))
    BY <1>3 DEF G
  <1>5. PlacesOf(At(s, I), Q) = P(At(s, I)) /\ PlacesIn(s, I, Q) = J(s)
    BY DEF PlacesOf, PlacesIn
  <1> QED BY <1>4, <1>5

\* A fold goes on where another ended.
LEMMA FoldConcat ==
    ASSUME NEW kind, NEW members, NEW positions, NEW base, NEW S, NEW s \in Seq(S), NEW t \in Seq(S)
    PROVE  FoldOf(kind, members, positions, base, s \o t)
               = FoldOf(kind, members, positions, FoldOf(kind, members, positions, base, s), t)
  <1> DEFINE mid == FoldOf(kind, members, positions, base, s)
             F(b, u) == FoldOf(kind, members, positions, b, u)
             G == {u \in Seq(S) : F(base, s \o u) = F(mid, u)}
  <1>1. <<>> \in G
    <2>1. <<>> \in Seq(S) /\ s \o <<>> = s
      BY EmptySeq, ConcatEmptySeq
    <2> QED BY <2>1, FoldOfNone
  <1>2. ASSUME NEW u \in Seq(S), NEW x \in S, u \in G PROVE Append(u, x) \in G
    <2>1. s \o u \in Seq(S) /\ Append(u, x) \in Seq(S) /\ <<x>> \in Seq(S)
      BY ConcatProperties, AppendProperties
    <2>2. s \o Append(u, x) = Append(s \o u, x)
      <3>1. Append(s \o u, x) = (s \o u) \o <<x>> /\ Append(u, x) = u \o <<x>>
        BY <2>1, AppendIsConcat
      <3>2. (s \o u) \o <<x>> = s \o (u \o <<x>>)
        BY <2>1, ConcatAssociative
      <3> QED BY <3>1, <3>2
    <2> HIDE DEF mid
    <2>3. F(base, Append(s \o u, x)) = StepAt(kind, members, positions, F(base, s \o u), x)
      <3> DEFINE v == s \o u
      <3>1. v \in Seq(S)
        BY <2>1
      <3> HIDE DEF v
      <3>2. F(base, Append(v, x)) = StepAt(kind, members, positions, F(base, v), x)
        BY <3>1, FoldOfOneMore
      <3> QED BY <3>2 DEF v
    <2>4. F(mid, Append(u, x)) = StepAt(kind, members, positions, F(mid, u), x)
      BY FoldOfOneMore
    <2>5. F(base, s \o u) = F(mid, u)
      BY <1>2
    <2> HIDE DEF F
    <2> QED BY <2>1, <2>2, <2>3, <2>4, <2>5
  <1>3. t \in G
    <2> HIDE DEF G
    <2> QED BY <1>1, <1>2, SequenceInduction
  <1> QED BY <1>3

-----------------------------------------------------------------------------
(* The filter.                                                             *)

LEMMA OnlyWithin ==
    ASSUME NEW S, NEW s \in Seq(S), NEW Q
    PROVE  Only(s, Q) \in Seq(Q)
  <1> DEFINE G == {u \in Seq(S) : Only(u, Q) \in Seq(Q)}
  <1>1. <<>> \in G
    BY EmptySeq, OnlyOfNone
  <1>2. ASSUME NEW u \in Seq(S), NEW x \in S, u \in G PROVE Append(u, x) \in G
    <2>1. Only(Append(u, x), Q) = IF x \in Q THEN Append(Only(u, Q), x) ELSE Only(u, Q)
      BY OnlyOneMore
    <2>2. Append(u, x) \in Seq(S)
      BY AppendProperties
    <2>3. x \in Q => Append(Only(u, Q), x) \in Seq(Q)
      BY <1>2, AppendProperties
    <2> QED BY <1>2, <2>1, <2>2, <2>3
  <1> HIDE DEF G
  <1>3. s \in G
    BY <1>1, <1>2, SequenceInduction
  <1> QED BY <1>3 DEF G

\* What the loop keeps of a bond's rows.
Mask(rows) == BounceBackLoop([k \in DOMAIN rows |-> rows[k].pr])
Looped(rows) == At(rows, {i \in DOMAIN rows : Mask(rows)[i]})

LEMMA LoopedTyped ==
    ASSUME NEW S, NEW s \in Seq(S)
    PROVE  Looped(s) \in Seq(S)
  BY AtTyped DEF Looped

LEMMA LoopedOfNone == Looped(<<>>) = <<>>
  BY AtNone DEF Looped

\* The rows of a bond.
OfBond(S, b) == {r \in S : r.bond = b}

\* No bond comes back once another has begun.
Grouped(u) ==
    \A i, j \in DOMAIN u : i < j /\ u[i].bond = u[j].bond => u[i].bond = u[j - 1].bond

\* The filter once it has read the rows u: the last bond's rows are in the
\* segment, those of the others have been through the loop.
FilterState(S, b, u, st) ==
    /\ st \in [batch : {b}, segment : Seq(S), kept : Seq(S)]
    /\ u = <<>> => st.segment = <<>> /\ st.kept = <<>>
    /\ u # <<>> =>
           /\ st.segment = Only(u, OfBond(S, u[Len(u)].bond))
           /\ Only(st.kept, OfBond(S, u[Len(u)].bond)) = <<>>
           /\ \A c : c # u[Len(u)].bond =>
                  Only(st.kept, OfBond(S, c)) = Looped(Only(u, OfBond(S, c)))

LEMMA SegmentOfLast ==
    ASSUME NEW S, NEW u \in Seq(S), u # <<>>
    PROVE  LET seg == Only(u, OfBond(S, u[Len(u)].bond))
           IN /\ seg # <<>> /\ Head(seg).bond = u[Len(u)].bond
              /\ u[Len(u)] \in S
              /\ \A i \in DOMAIN seg : seg[i].bond = u[Len(u)].bond
  <1> DEFINE last == u[Len(u)]
             Q == OfBond(S, last.bond)
             seg == Only(u, Q)
  <1>1. PICK v \in Seq(S), x \in S : u = Append(v, x)
    BY SequenceEmptyOrAppend
  <1>2. last = x
    BY <1>1, AppendProperties
  <1>3. x \in Q
    BY <1>2 DEF OfBond
  <1> HIDE DEF Q
  <1>4. seg = Append(Only(v, Q), x)
    BY <1>1, <1>3, OnlyOneMore
  <1>5. Only(v, Q) \in Seq(Q) /\ seg \in Seq(Q)
    BY OnlyWithin
  <1>6. seg # <<>>
    BY <1>3, <1>4, <1>5, AppendProperties
  <1>7. \A i \in DOMAIN seg : seg[i] \in Q
    BY <1>5, ElementOfSeq, LenProperties
  <1>8. Head(seg) \in Q
    BY <1>5, <1>6, HeadTailProperties
  <1> HIDE DEF seg, last
  <1>9. /\ seg # <<>> /\ Head(seg).bond = last.bond
        /\ last \in S
        /\ \A i \in DOMAIN seg : seg[i].bond = last.bond
    BY <1>2, <1>6, <1>7, <1>8 DEF Q, OfBond
  <1> QED BY <1>9 DEF seg, last, Q

LEMMA SameFilter ==
    ASSUME NEW B, NEW T, NEW v \in [batch : {B}, segment : T, kept : T],
           NEW w \in [batch : {B}, segment : T, kept : T], v.segment = w.segment, v.kept = w.kept
    PROVE  v = w
  OBVIOUS

With(v, s, k) == [v EXCEPT !.segment = s, !.kept = k]
Filters(B, T) == [batch : {B}, segment : T, kept : T]

LEMMA FilterRecord ==
    ASSUME NEW B, NEW T, NEW v \in Filters(B, T), NEW s \in T, NEW k \in T
    PROVE  With(v, s, k) = [batch |-> B, segment |-> s, kept |-> k]
  <1> DEFINE n == With(v, s, k)
             m == [batch |-> B, segment |-> s, kept |-> k]
  <1>1. n \in [batch : {B}, segment : T, kept : T] /\ n.segment = s /\ n.kept = k
    BY DEF With, Filters
  <1>2. m \in [batch : {B}, segment : T, kept : T] /\ m.segment = s /\ m.kept = k
    OBVIOUS
  <1> HIDE DEF n, m
  <1>3. n = m
    BY <1>1, <1>2, SameFilter
  <1> QED BY <1>3 DEF n, m

\* Its state once the last segment is flushed too.
FlushedState(S, b, u, st) ==
    /\ st = [batch |-> b, segment |-> <<>>, kept |-> st.kept]
    /\ st.kept \in Seq(S)
    /\ \A c : Only(st.kept, OfBond(S, c)) = Looped(Only(u, OfBond(S, c)))

LEMMA FlushKeeps ==
    ASSUME NEW S, NEW b, NEW u \in Seq(S), NEW st, FilterState(S, b, u, st)
    PROVE  FlushedState(S, b, u, Flush(st))
  <1> DEFINE seg == st.segment
             kept == st.kept
  <1>1. st = [batch |-> b, segment |-> seg, kept |-> kept] /\ seg \in Seq(S) /\ kept \in Seq(S)
    BY DEF FilterState
  <1>2. Looped(seg) \in Seq(S)
    BY <1>1, LoopedTyped
  <1>3. kept \o Looped(seg) \in Seq(S) /\ <<>> \in Seq(S)
    BY <1>1, <1>2, ConcatProperties, EmptySeq
  <1>4. Flush(st) = [batch |-> b, segment |-> <<>>, kept |-> kept \o Looped(seg)]
    <2>1. Flush(st) = With(st, <<>>, st.kept \o Looped(seg))
      BY DEF Flush, Looped, Mask, With
    <2> HIDE DEF seg, kept
    <2> DEFINE K == kept \o Looped(seg)
    <2>2. st.kept = kept /\ K \in Seq(S) /\ <<>> \in Seq(S)
      BY <1>3 DEF kept
    <2>3. st \in Filters(b, Seq(S))
      BY DEF FilterState, Filters
    <2> HIDE DEF K
    <2>4. With(st, <<>>, K) = [batch |-> b, segment |-> <<>>, kept |-> K]
      BY <2>2, <2>3, FilterRecord
    <2> QED BY <2>1, <2>2, <2>4 DEF K
  <1>5. ASSUME NEW c
        PROVE  Only(kept \o Looped(seg), OfBond(S, c)) = Looped(Only(u, OfBond(S, c)))
    <2> DEFINE Q == OfBond(S, c)
    <2>1. Only(kept \o Looped(seg), Q) = Only(kept, Q) \o Only(Looped(seg), Q)
      BY <1>1, <1>2, OnlyConcat
    <2>2. Only(kept, Q) \in Seq(S) /\ Only(Looped(seg), Q) \in Seq(S)
      BY <1>1, <1>2, OnlyTyped
    <2>3. CASE u = <<>>
      <3>1. seg = <<>> /\ kept = <<>>
        BY <2>3 DEF FilterState
      <3>2. Only(kept, Q) = <<>> /\ Only(Looped(seg), Q) = <<>> /\ Only(u, Q) = <<>>
        BY <2>3, <3>1, LoopedOfNone, OnlyOfNone
      <3>3. <<>> \o <<>> = <<>>
        BY <1>3, ConcatEmptySeq
      <3> QED BY <2>1, <3>2, <3>3, LoopedOfNone
    <2>4. CASE u # <<>>
      <3> DEFINE last == u[Len(u)].bond
      <3>1. /\ seg = Only(u, OfBond(S, last))
            /\ Only(kept, OfBond(S, last)) = <<>>
            /\ c # last => Only(kept, Q) = Looped(Only(u, Q))
        BY <2>4 DEF FilterState
      <3>2. \A i \in DOMAIN seg : seg[i].bond = last
        <4>1. \A i \in DOMAIN Only(u, OfBond(S, last)) : Only(u, OfBond(S, last))[i].bond = last
          BY <2>4, SegmentOfLast
        <4> HIDE DEF last, seg
        <4> QED BY <3>1, <4>1
      <3> HIDE DEF last
      <3>3. seg \in Seq(OfBond(S, last))
        BY <3>1, OnlyWithin
      <3>4. Looped(seg) \in Seq(OfBond(S, last))
        BY <3>3, LoopedTyped
      <3>5. \A i \in DOMAIN Looped(seg) : Looped(seg)[i] \in OfBond(S, last)
        BY <3>4, ElementOfSeq, LenProperties
      <3>6. CASE c = last
        <4>1. Only(Looped(seg), Q) = Looped(seg)
          BY <1>2, <3>5, <3>6, OnlyAll
        <4>2. Only(kept, Q) = <<>>
          BY <3>1, <3>6
        <4>3. <<>> \o Looped(seg) = Looped(seg)
          BY <1>2, ConcatEmptySeq
        <4> QED BY <2>1, <3>1, <3>6, <4>1, <4>2, <4>3
      <3>7. CASE c # last
        <4>1. \A i \in DOMAIN Looped(seg) : Looped(seg)[i] \notin Q
          BY <3>5, <3>7 DEF OfBond
        <4>2. Only(Looped(seg), Q) = <<>>
          BY <1>2, <4>1, OnlyAbsent
        <4>3. Only(kept, Q) \o <<>> = Only(kept, Q)
          BY <2>2, ConcatEmptySeq
        <4> QED BY <2>1, <3>1, <3>7, <4>2, <4>3
      <3> QED BY <3>6, <3>7
    <2> QED BY <2>3, <2>4
  <1>6. Flush(st).kept = kept \o Looped(seg)
    <2> HIDE DEF kept, seg
    <2> QED BY <1>4
  <1> HIDE DEF kept, seg
  <1> QED BY <1>3, <1>4, <1>5, <1>6 DEF FlushedState

LEMMA AccumulateStep ==
    ASSUME NEW S, NEW b, NEW u \in Seq(S), NEW x \in S, NEW st,
           FilterState(S, b, u, st), Grouped(Append(u, x))
    PROVE  FilterState(S, b, Append(u, x), Accumulate(st, x))
  <1>0. FlushedState(S, b, u, Flush(st))
    BY FlushKeeps
  <1> DEFINE more == Append(u, x)
             N == Len(u)
             Of(v, c) == Only(v, OfBond(S, c))
             new == Accumulate(st, x)
  <1>1. N \in Nat /\ DOMAIN u = 1 .. N /\ more \in Seq(S) /\ DOMAIN more = 1 .. N + 1
        /\ Len(more) = N + 1 /\ more # <<>>
        /\ more[N + 1] = x /\ \A n \in 1 .. N : more[n] = u[n]
    BY AppendProperties, LenProperties
  <1>2. \A c : Of(more, c) = IF x.bond = c THEN Append(Of(u, c), x) ELSE Of(u, c)
    <2> TAKE c
    <2>1. Only(Append(u, x), OfBond(S, c))
              = IF x \in OfBond(S, c) THEN Append(Of(u, c), x) ELSE Of(u, c)
      BY OnlyOneMore
    <2> QED BY <2>1 DEF OfBond
  <1>3. Grouped(more)
    OBVIOUS
  <1>4. st = [batch |-> b, segment |-> st.segment, kept |-> st.kept]
        /\ st.segment \in Seq(S) /\ st.kept \in Seq(S)
    BY DEF FilterState
  <1> HIDE DEF more, N
  <1>5. ASSUME NEW flushed \in [batch : {b}, segment : Seq(S), kept : Seq(S)],
               new = [flushed EXCEPT !.segment = Append(@, x)],
               Append(flushed.segment, x) = Of(more, x.bond),
               Of(flushed.kept, x.bond) = <<>>,
               \A c : c # x.bond => Of(flushed.kept, c) = Looped(Of(u, c))
        PROVE  FilterState(S, b, more, new)
    <2>1. Append(flushed.segment, x) \in Seq(S)
      BY AppendProperties
    <2>2. new = [batch |-> b, segment |-> Append(flushed.segment, x), kept |-> flushed.kept]
      BY <1>5
    <2>3. more[Len(more)] = x
      BY <1>1
    <2>4. \A c : c # x.bond => Of(more, c) = Of(u, c)
      BY <1>2
    <2> HIDE DEF new
    <2> QED BY <1>1, <1>5, <2>1, <2>2, <2>3, <2>4 DEF FilterState
  <1>6. CASE u = <<>>
    <2>1. st.segment = <<>> /\ st.kept = <<>>
      BY <1>6 DEF FilterState
    <2>2. new = [st EXCEPT !.segment = Append(@, x)]
      BY <2>1 DEF Accumulate
    <2>3. \A c : Of(u, c) = <<>> /\ Of(st.kept, c) = <<>>
      BY <1>6, <2>1, OnlyOfNone
    <2> HIDE DEF Of, new
    <2>4. Append(st.segment, x) = Of(more, x.bond)
      BY <1>2, <2>1, <2>3
    <2>5. FilterState(S, b, more, new)
      BY <1>4, <1>5, <2>2, <2>3, <2>4, LoopedOfNone
    <2> QED BY <2>5 DEF more, new
  <1>7. CASE u # <<>>
    <2> DEFINE last == u[N].bond
    <2>1. /\ st.segment = Of(u, last)
          /\ Of(st.kept, last) = <<>>
          /\ \A c : c # last => Of(st.kept, c) = Looped(Of(u, c))
      BY <1>7 DEF FilterState, N
    <2>2. st.segment # <<>> /\ Head(st.segment).bond = last
      BY <1>7, <2>1, SegmentOfLast DEF N
    <2>3. N \in 1 .. N
      <3>1. Len(u) \in Nat \ {0}
        BY <1>7, EmptySeq
      <3> QED BY <3>1 DEF N
    <2>4. CASE x.bond = last
      <3>1. new = [st EXCEPT !.segment = Append(@, x)]
        BY <2>2, <2>4 DEF Accumulate
      <3> HIDE DEF Of, new, last
      <3>2. Append(st.segment, x) = Of(more, x.bond)
        BY <1>2, <2>1, <2>4
      <3>3. FilterState(S, b, more, new)
        BY <1>4, <1>5, <2>1, <2>4, <3>1, <3>2
      <3> QED BY <3>3 DEF more, new
    <2>5. CASE x.bond # last
      <3> DEFINE f == Flush(st)
      <3>1. /\ f = [batch |-> b, segment |-> <<>>, kept |-> f.kept]
            /\ f.kept \in Seq(S) /\ <<>> \in Seq(S)
            /\ \A c : Of(f.kept, c) = Looped(Of(u, c))
        <4>1. <<>> \in Seq(S)
          BY EmptySeq
        <4> QED BY <1>0, <4>1 DEF FlushedState
      <3>8. f \in [batch : {b}, segment : Seq(S), kept : Seq(S)] /\ f.segment = <<>>
        <4> DEFINE k == f.kept
        <4>1. f = [batch |-> b, segment |-> <<>>, kept |-> k] /\ k \in Seq(S) /\ <<>> \in Seq(S)
          BY <3>1
        <4> HIDE DEF f, k
        <4> QED BY ONLY <4>1
      <3>2. new = [f EXCEPT !.segment = Append(@, x)]
        BY <2>2, <2>5 DEF Accumulate
      <3>3. \A i \in DOMAIN u : u[i] \notin OfBond(S, x.bond)
        <4> SUFFICES ASSUME NEW i \in 1 .. N, u[i].bond = x.bond PROVE FALSE
          BY <1>1 DEF OfBond
        <4>1. i \in DOMAIN more /\ N + 1 \in DOMAIN more /\ i < N + 1 /\ (N + 1) - 1 = N
          BY <1>1
        <4>2. more[i].bond = more[N + 1].bond
          BY <1>1
        <4>3. more[i].bond = more[N].bond
          BY <1>3, <4>1, <4>2 DEF Grouped
        <4> QED BY <1>1, <2>3, <2>5, <4>3
      <3>4. Of(u, x.bond) = <<>>
        BY <3>3, OnlyAbsent
      <3> HIDE DEF Of, new, f
      <3>5. Append(f.segment, x) = Of(more, x.bond)
        BY <1>2, <3>4, <3>8
      <3>6. Of(f.kept, x.bond) = <<>>
        BY <3>1, <3>4, LoopedOfNone
      <3>7. FilterState(S, b, more, new)
        BY <1>5, <3>1, <3>2, <3>5, <3>6, <3>8
      <3> QED BY <3>7 DEF more, new
    <2> QED BY <2>4, <2>5
  <1> QED BY <1>6, <1>7

FilterOf(b, u) == FoldOf("filter", <<>>, {}, [NoFilter EXCEPT !.batch = b], u)

LEMMA GroupedStart ==
    ASSUME NEW S, NEW u \in Seq(S), NEW x \in S, Grouped(Append(u, x))
    PROVE  Grouped(u)
  <1> DEFINE more == Append(u, x)
             N == Len(u)
  <1>1. N \in Nat /\ DOMAIN u = 1 .. N /\ DOMAIN more = 1 .. N + 1
        /\ \A n \in 1 .. N : more[n] = u[n]
    BY AppendProperties, LenProperties
  <1>2. Grouped(more)
    OBVIOUS
  <1> HIDE DEF more, N
  <1>3. ASSUME NEW i \in 1 .. N, NEW j \in 1 .. N, i < j, u[i].bond = u[j].bond
        PROVE  u[i].bond = u[j - 1].bond
    <2>1. i \in DOMAIN more /\ j \in DOMAIN more /\ j - 1 \in 1 .. N
      BY <1>1, <1>3
    <2>2. more[i] = u[i] /\ more[j] = u[j] /\ more[j - 1] = u[j - 1]
      BY <1>1, <2>1
    <2>3. more[i].bond = more[j - 1].bond
      BY <1>2, <1>3, <2>1, <2>2 DEF Grouped
    <2> QED BY <2>2, <2>3
  <1> QED BY <1>1, <1>3 DEF Grouped

LEMMA FilterReads ==
    ASSUME NEW S, NEW b, NEW u \in Seq(S), Grouped(u)
    PROVE  FilterState(S, b, u, FilterOf(b, u))
  <1> DEFINE G == {v \in Seq(S) : Grouped(v) => FilterState(S, b, v, FilterOf(b, v))}
  <1>1. <<>> \in G
    <2>1. <<>> \in Seq(S)
      BY EmptySeq
    <2>2. FilterOf(b, <<>>) = [NoFilter EXCEPT !.batch = b]
      BY FoldOfNone DEF FilterOf
    <2>3. FilterState(S, b, <<>>, FilterOf(b, <<>>))
      BY <2>1, <2>2 DEF FilterState, NoFilter
    <2> QED BY <2>1, <2>3
  <1>2. ASSUME NEW v \in Seq(S), NEW x \in S, v \in G PROVE Append(v, x) \in G
    <2>1. Append(v, x) \in Seq(S)
      BY AppendProperties
    <2>2. ASSUME Grouped(Append(v, x))
          PROVE  FilterState(S, b, Append(v, x), FilterOf(b, Append(v, x)))
      <3>1. FilterState(S, b, v, FilterOf(b, v))
        BY <1>2, <2>2, GroupedStart
      <3>2. FilterOf(b, Append(v, x)) = StepAt("filter", <<>>, {}, FilterOf(b, v), x)
        BY FoldOfOneMore DEF FilterOf
      <3>3. FilterOf(b, Append(v, x)) = Accumulate(FilterOf(b, v), x)
        BY <3>2 DEF StepAt
      <3> QED BY <2>2, <3>1, <3>3, AccumulateStep
    <2> QED BY <2>1, <2>2
  <1> HIDE DEF G
  <1>3. u \in G
    BY <1>1, <1>2, SequenceInduction
  <1> QED BY <1>3 DEF G

-----------------------------------------------------------------------------
(* The sorted file.                                                        *)

IsFlat(seqs, n, f) ==
    f = [i \in 1 .. n |-> IF i = 1 THEN seqs[i] ELSE f[i - 1] \o seqs[i]]

LEMMA FlatExists ==
    ASSUME NEW seqs, NEW n \in Nat
    PROVE  \E f : IsFlat(seqs, n, f)
  <1> DEFINE G == {k \in Nat : \E f : IsFlat(seqs, k, f)}
  <1>1. 0 \in G
    <2> DEFINE f == [i \in 1 .. 0 |-> 0]
    <2>1. 1 .. 0 = {}
      OBVIOUS
    <2>2. f = [i \in 1 .. 0 |-> IF i = 1 THEN seqs[i] ELSE f[i - 1] \o seqs[i]]
      BY <2>1
    <2>3. IsFlat(seqs, 0, f)
      BY <2>2 DEF IsFlat
    <2> HIDE DEF f
    <2> QED BY <2>3
  <1>2. ASSUME NEW k \in Nat, k \in G PROVE k + 1 \in G
    <2>1. PICK f : IsFlat(seqs, k, f)
      BY <1>2
    <2> DEFINE g == [i \in 1 .. k + 1 |-> IF i = 1 THEN seqs[i] ELSE f[i - 1] \o seqs[i]]
    <2>2. \A i \in 1 .. k : f[i] = IF i = 1 THEN seqs[i] ELSE f[i - 1] \o seqs[i]
      BY <2>1 DEF IsFlat
    <2>3. \A i \in 1 .. k : g[i] = f[i]
      <3>1. \A i \in 1 .. k : i \in 1 .. k + 1
        OBVIOUS
      <3> QED BY <2>2, <3>1
    <2>4. \A i \in 1 .. k + 1 : i # 1 => f[i - 1] = g[i - 1]
      <3>1. \A i \in 1 .. k + 1 : i # 1 => i - 1 \in 1 .. k
        OBVIOUS
      <3> HIDE DEF g
      <3> QED BY <2>3, <3>1
    <2>5. g = [i \in 1 .. k + 1 |-> IF i = 1 THEN seqs[i] ELSE g[i - 1] \o seqs[i]]
      <3> HIDE DEF g
      <3>1. \A i \in 1 .. k + 1 : (IF i = 1 THEN seqs[i] ELSE f[i - 1] \o seqs[i])
                = IF i = 1 THEN seqs[i] ELSE g[i - 1] \o seqs[i]
        BY <2>4
      <3> QED BY <3>1 DEF g
    <2>6. IsFlat(seqs, k + 1, g)
      <3> HIDE DEF g
      <3> QED BY <2>5 DEF IsFlat
    <2> HIDE DEF g
    <2> QED BY <2>6
  <1> HIDE DEF G
  <1>3. n \in G
    BY <1>1, <1>2, NumberInduction
  <1> QED BY <1>3 DEF G

LEMMA FlattenIsFlat ==
    ASSUME NEW seqs, Len(seqs) \in Nat \ {0}
    PROVE  \E f : IsFlat(seqs, Len(seqs), f) /\ FlattenSeq(seqs) = f[Len(seqs)]
  <1> DEFINE N == Len(seqs)
             f == CHOOSE g : IsFlat(seqs, N, g)
  <1>1. N \in Nat /\ N # 0
    OBVIOUS
  <1>2. IsFlat(seqs, N, f)
    BY <1>1, FlatExists
  <1>3. FlattenSeq(seqs) = f[N]
    BY <1>1 DEF FlattenSeq, IsFlat
  <1> HIDE DEF f
  <1> QED BY <1>2, <1>3

LEMMA GroupedConcat ==
    ASSUME NEW S, NEW s \in Seq(S), NEW t \in Seq(S), Grouped(s), NEW b,
           \A i \in DOMAIN s : s[i].bond # b, \A i \in DOMAIN t : t[i].bond = b
    PROVE  Grouped(s \o t)
  <1> DEFINE u == s \o t
             N == Len(s)
             M == Len(t)
  <1>1. /\ N \in Nat /\ M \in Nat /\ DOMAIN s = 1 .. N /\ DOMAIN t = 1 .. M /\ DOMAIN u = 1 .. N + M
        /\ \A i \in 1 .. N : u[i] = s[i]
        /\ \A i \in N + 1 .. N + M : u[i] = t[i - N] /\ i - N \in 1 .. M
    <2>1. N \in Nat /\ M \in Nat /\ DOMAIN s = 1 .. N /\ DOMAIN t = 1 .. M
      BY LenProperties
    <2>2. u \in Seq(S) /\ Len(u) = N + M
          /\ \A i \in 1 .. N + M : u[i] = IF i <= N THEN s[i] ELSE t[i - N]
      BY ConcatProperties
    <2>3. DOMAIN u = 1 .. N + M
      BY <2>2, LenProperties
    <2> HIDE DEF u, N, M
    <2> QED BY <2>1, <2>2, <2>3
  <1> HIDE DEF u, N, M
  <1>2. \A i \in 1 .. N : u[i].bond # b
    BY <1>1
  <1>3. \A i \in N + 1 .. N + M : u[i].bond = b
    BY <1>1
  <1>4. ASSUME NEW i \in 1 .. N + M, NEW j \in 1 .. N + M, i < j, u[i].bond = u[j].bond
        PROVE  u[i].bond = u[j - 1].bond
    <2>1. CASE j <= N
      <3>1. i \in 1 .. N /\ j \in 1 .. N /\ j - 1 \in 1 .. N
        BY <1>1, <1>4, <2>1
      <3>2. s[i].bond = s[j].bond
        BY <1>1, <1>4, <3>1
      <3>3. s[i].bond = s[j - 1].bond
        BY <1>1, <1>4, <3>1, <3>2 DEF Grouped
      <3> QED BY <1>1, <3>1, <3>3
    <2>2. CASE j > N
      <3>1. j \in N + 1 .. N + M
        BY <1>1, <2>2
      <3>2. i \notin 1 .. N
        BY <1>2, <1>3, <1>4, <3>1
      <3>3. j - 1 \in N + 1 .. N + M /\ i \in N + 1 .. N + M
        BY <1>1, <1>4, <3>2
      <3> QED BY <1>3, <3>3
    <2> QED BY <1>1, <2>1, <2>2
  <1>5. Grouped(u)
    BY <1>1, <1>4 DEF Grouped
  <1> QED BY <1>5 DEF u

\* Blocks of rows of one bond each.
LEMMA FlattenGrouped ==
    ASSUME NEW S, NEW n \in Nat \ {0}, NEW bonds, NEW seqs, NEW f, IsFlat(seqs, n, f),
           \A i \in 1 .. n : seqs[i] \in Seq(OfBond(S, bonds[i])),
           \A i, j \in 1 .. n : bonds[i] = bonds[j] => i = j
    PROVE  f[n] \in Seq(S) /\ Grouped(f[n])
  <1> DEFINE Fine(k) ==
                 /\ f[k] \in Seq(S) /\ Grouped(f[k])
                 /\ \A p \in DOMAIN f[k] : \E i \in 1 .. k : f[k][p].bond = bonds[i]
             G == {k \in Nat : k + 1 <= n => Fine(k + 1)}
  <1>0. ASSUME NEW i \in 1 .. n
        PROVE  /\ seqs[i] \in Seq(S) /\ Grouped(seqs[i])
               /\ \A p \in DOMAIN seqs[i] : seqs[i][p].bond = bonds[i]
    <2>1. seqs[i] \in Seq(OfBond(S, bonds[i]))
      OBVIOUS
    <2>2. OfBond(S, bonds[i]) \subseteq S
      BY DEF OfBond
    <2>3. seqs[i] \in Seq(S)
      BY <2>1, <2>2, SeqMonotonic
    <2>4. \A p \in DOMAIN seqs[i] : seqs[i][p] \in OfBond(S, bonds[i])
      BY <2>1, ElementOfSeq, LenProperties
    <2>5. \A p \in DOMAIN seqs[i] : seqs[i][p].bond = bonds[i]
      BY <2>4 DEF OfBond
    <2>6. DOMAIN seqs[i] = 1 .. Len(seqs[i]) /\ Len(seqs[i]) \in Nat
      BY <2>3, LenProperties
    <2>7. Grouped(seqs[i])
      <3> SUFFICES ASSUME NEW p \in DOMAIN seqs[i], NEW q \in DOMAIN seqs[i], p < q
                   PROVE  seqs[i][p].bond = seqs[i][q - 1].bond
        BY DEF Grouped
      <3>1. q - 1 \in DOMAIN seqs[i]
        BY <2>6
      <3> QED BY <2>5, <3>1
    <2> QED BY <2>3, <2>5, <2>7
  <1>1. 0 \in G
    <2>1. 1 \in 1 .. n /\ f[1] = seqs[1]
      BY DEF IsFlat
    <2>2. /\ seqs[1] \in Seq(S) /\ Grouped(seqs[1])
          /\ \A p \in DOMAIN seqs[1] : seqs[1][p].bond = bonds[1]
      BY <1>0, <2>1
    <2>3. Fine(1)
      BY <2>1, <2>2
    <2> HIDE DEF Fine
    <2> QED BY <2>3
  <1>2. ASSUME NEW k \in Nat, k \in G PROVE k + 1 \in G
    <2> SUFFICES ASSUME (k + 1) + 1 <= n PROVE Fine((k + 1) + 1)
      OBVIOUS
    <2> DEFINE m == k + 1
               l == m + 1
               past == f[m]
               next == seqs[l]
    <2>1. m \in Nat /\ l \in 1 .. n /\ l # 1 /\ m \in 1 .. n /\ l - 1 = m /\ m < l
      OBVIOUS
    <2>2. f[l] = past \o next
      BY <2>1 DEF IsFlat
    <2>3. Fine(m)
      BY <1>2
    <2>4. /\ next \in Seq(S) /\ Grouped(next)
          /\ \A p \in DOMAIN next : next[p].bond = bonds[l]
      BY <1>0, <2>1
    <2>5. /\ past \in Seq(S) /\ Grouped(past)
          /\ \A p \in DOMAIN past : \E i \in 1 .. m : past[p].bond = bonds[i]
      BY <2>3
    <2> HIDE DEF past, next, l, m, Fine
    <2>6. \A i \in 1 .. m : bonds[i] # bonds[l]
      <3> TAKE i \in 1 .. m
      <3>1. i \in 1 .. n /\ i # l
        BY <2>1
      <3> QED BY <2>1, <3>1
    <2>7. \A p \in DOMAIN past : past[p].bond # bonds[l]
      BY <2>5, <2>6
    <2>8. Grouped(past \o next)
      BY <2>4, <2>5, <2>7, GroupedConcat
    <2>9. /\ past \o next \in Seq(S) /\ Len(past \o next) = Len(past) + Len(next)
          /\ \A i \in 1 .. Len(past) + Len(next) :
                 (past \o next)[i] = IF i <= Len(past) THEN past[i] ELSE next[i - Len(past)]
      BY <2>4, <2>5, ConcatProperties
    <2>10. /\ Len(past) \in Nat /\ Len(next) \in Nat /\ DOMAIN past = 1 .. Len(past)
           /\ DOMAIN next = 1 .. Len(next) /\ DOMAIN (past \o next) = 1 .. Len(past \o next)
      BY <2>4, <2>5, <2>9, LenProperties
    <2>11. ASSUME NEW p \in DOMAIN (past \o next)
           PROVE  \E i \in 1 .. l : (past \o next)[p].bond = bonds[i]
      <3>1. CASE p <= Len(past)
        <4>1. p \in DOMAIN past /\ (past \o next)[p] = past[p]
          BY <2>9, <2>10, <3>1
        <4>2. PICK i \in 1 .. m : past[p].bond = bonds[i]
          BY <2>5, <4>1
        <4>3. i \in 1 .. l
          BY <2>1
        <4> QED BY <4>1, <4>2, <4>3
      <3>2. CASE ~(p <= Len(past))
        <4>1. p - Len(past) \in DOMAIN next /\ (past \o next)[p] = next[p - Len(past)]
          BY <2>9, <2>10, <3>2
        <4>2. l \in 1 .. l
          BY <2>1
        <4> QED BY <2>4, <4>1, <4>2
      <3> QED BY <3>1, <3>2
    <2>12. Fine(l)
      BY <2>2, <2>8, <2>9, <2>11 DEF Fine
    <2> QED BY <2>12 DEF l, m
  <1>3. n - 1 \in Nat /\ (n - 1) + 1 = n
    OBVIOUS
  <1>4. n - 1 \in G
    <2> HIDE DEF G
    <2> QED BY <1>1, <1>2, <1>3, NumberInduction
  <1>5. Fine(n)
    BY <1>3, <1>4
  <1> QED BY <1>5

\* A sequence of its own members.
IsSeq(s) == s \in Seq({s[i] : i \in DOMAIN s})

LEMMA SeqIsSeq ==
    ASSUME NEW S, NEW s \in Seq(S)
    PROVE  IsSeq(s)
  BY SeqOfRange DEF Range, IsSeq

LEMMA ListOfBonds ==
    ASSUME NEW S, NEW rows \in Seq(S)
    PROVE  LET T == {r.bond : r \in ToSet(rows)}
               l == SetToSeq(T)
           IN /\ Cardinality(T) \in Nat /\ l \in [1 .. Cardinality(T) -> T]
              /\ \A i, j \in 1 .. Cardinality(T) : l[i] = l[j] => i = j
  <1> DEFINE T == {r.bond : r \in ToSet(rows)}
             N == Len(rows)
             g == [i \in 1 .. N |-> rows[i].bond]
             l == SetToSeq(T)
  <1>1. N \in Nat /\ DOMAIN rows = 1 .. N
    BY LenProperties
  <1> HIDE DEF N
  <1>2. g \in Surjection(1 .. N, T)
    BY <1>1 DEF Surjection, ToSet
  <1>3. IsFiniteSet(1 .. N)
    BY <1>1, FS_Interval
  <1> HIDE DEF T, g
  <1>4. IsFiniteSet(T)
    BY ONLY <1>2, <1>3, FS_Surjection
  <1>5. Cardinality(T) \in Nat /\ ExistsBijection(1 .. Cardinality(T), T)
    BY <1>4, FS_CardinalityType
  <1>6. \E f \in [1 .. Cardinality(T) -> T] : IsInjective(f)
    BY <1>5 DEF ExistsBijection, Bijection, Injection, Surjection, IsInjective
  <1>7. l \in [1 .. Cardinality(T) -> T] /\ IsInjective(l)
    BY <1>6 DEF SetToSeq
  <1> HIDE DEF l
  <1>8. /\ Cardinality(T) \in Nat /\ l \in [1 .. Cardinality(T) -> T]
        /\ \A i, j \in 1 .. Cardinality(T) : l[i] = l[j] => i = j
    BY <1>5, <1>7 DEF IsInjective
  <1> QED BY <1>8 DEF T, l

LEMMA SortedGrouped ==
    ASSUME NEW S, shifted.rows \in Seq(S)
    PROVE  SortedRows \in Seq(S) /\ Grouped(SortedRows)
  <1> DEFINE rows == shifted.rows
             T == {r.bond : r \in ToSet(rows)}
             l == SetToSeq(T)
             n == Cardinality(T)
             Of(b, d) == Filtered(rows, LAMBDA r : r.bond = b /\ r.day = d)
             seqs == [i \in DOMAIN l |-> Of(l[i], "pre2012") \o Of(l[i], "post2012")]
  <1>1. SortedRows = FlattenSeq(seqs)
    BY DEF SortedRows
  <1>2. n \in Nat /\ l \in [1 .. n -> T] /\ \A i, j \in 1 .. n : l[i] = l[j] => i = j
    BY ListOfBonds
  <1>3. ASSUME NEW b
        PROVE  Of(b, "pre2012") \o Of(b, "post2012") \in Seq(OfBond(S, b))
    <2>1. ASSUME NEW d
          PROVE  Of(b, d) \in Seq(OfBond(S, b))
      <3> DEFINE Q == {r \in S : r.bond = b /\ r.day = d}
      <3>1. \A i \in DOMAIN rows : rows[i] \in S
        BY ElementOfSeq, LenProperties
      <3>2. {i \in DOMAIN rows : rows[i].bond = b /\ rows[i].day = d} = {i \in DOMAIN rows : rows[i] \in Q}
        BY <3>1
      <3>3. Of(b, d) = Only(rows, Q)
        BY <3>2 DEF Filtered, Only
      <3>4. Q \subseteq OfBond(S, b)
        BY DEF OfBond
      <3> HIDE DEF Q, Of
      <3>5. Only(rows, Q) \in Seq(Q)
        BY OnlyWithin
      <3> QED BY <3>3, <3>4, <3>5, SeqMonotonic
    <2> HIDE DEF Of
    <2> QED BY <2>1, ConcatProperties
  <1> HIDE DEF l, T, Of, n
  <1>4. DOMAIN seqs = 1 .. n /\ \A i \in 1 .. n : seqs[i] \in Seq(OfBond(S, l[i]))
    BY <1>2, <1>3
  <1>5. Len(seqs) = n
    <2>1. seqs \in Seq({seqs[i] : i \in 1 .. n})
      <3>1. seqs = [i \in 1 .. n |-> seqs[i]]
        BY <1>4
      <3> HIDE DEF seqs
      <3> QED BY <1>2, <3>1, IsASeq
    <2> HIDE DEF seqs
    <2> QED BY <1>2, <1>4, <2>1, LenProperties
  <1> HIDE DEF seqs
  <1>6. CASE n = 0
    <2>1. FlattenSeq(seqs) = seqs
      BY <1>5, <1>6 DEF FlattenSeq
    <2>2. DOMAIN seqs = {}
      BY <1>4, <1>6
    <2>3. seqs \in Seq(S)
      <3>1. seqs = [i \in 1 .. 0 |-> seqs[i]]
        BY <1>4, <1>6, <2>2
      <3> QED BY <3>1, IsASeq
    <2> QED BY <1>1, <2>1, <2>2, <2>3 DEF Grouped
  <1>7. CASE n # 0
    <2>1. PICK f : IsFlat(seqs, n, f) /\ FlattenSeq(seqs) = f[n]
      BY <1>2, <1>5, <1>7, FlattenIsFlat
    <2>2. f[n] \in Seq(S) /\ Grouped(f[n])
      BY <1>2, <1>4, <1>7, <2>1, FlattenGrouped
    <2> QED BY <1>1, <2>1, <2>2
  <1> QED BY <1>6, <1>7

-----------------------------------------------------------------------------
(* What the steps of a chunk leave.                                        *)

Survivors ==
    {r \in Rows : /\ Kept1a(r)
                  /\ <<r.bond, r.day, r.seq>> \notin cancelled
                  /\ AsofKept(r)
                  /\ ~(profile.wis /\ r.wis)}
SellSide == {r \in Rows : r.side = "S" /\ Finite(r)}
Written == {r \in Rows : ~(profile.screens /\ r.screened) /\ r.day # "bad"}
On(days) == {r \in Rows : r.day \in days}

Netted == IF profile.net THEN NetOut(Surviving(ChunkRows), pool)
          ELSE [rows |-> Surviving(ChunkRows), pool |-> pool]
Unique == Dedup(Netted.rows, sells)
Dated == Filtered(Unique.rows, LAMBDA r : ~(profile.screens /\ r.screened) /\ r.day # "bad")
PartOf(days) == Filtered(Dated, LAMBDA r : r.day \in days)

LEMMA ParityOfFilters ==
    ASSUME NEW x \in Seq(Rows)
    PROVE  /\ Surviving(x) = Only(x, Survivors)
           /\ FiniteSells(x) = Only(x, SellSide)
           /\ Filtered(x, LAMBDA r : ~(profile.screens /\ r.screened) /\ r.day # "bad") = Only(x, Written)
           /\ \A days : Filtered(x, LAMBDA r : r.day \in days) = Only(x, On(days))
  <1>1. \A i \in DOMAIN x : x[i] \in Rows
    BY ElementOfSeq, LenProperties
  <1> DEFINE D == DOMAIN x
  <1>2. Surviving(x) = Only(x, Survivors)
    <2>1. {i \in D : /\ Kept1a(x[i]) /\ <<x[i].bond, x[i].day, x[i].seq>> \notin cancelled
                     /\ AsofKept(x[i]) /\ ~(profile.wis /\ x[i].wis)}
              = {i \in D : x[i] \in Survivors}
      BY <1>1 DEF Survivors
    <2> QED BY <2>1 DEF Surviving, Filtered, Only
  <1>3. FiniteSells(x) = Only(x, SellSide)
    <2>1. {i \in D : x[i].side = "S" /\ Finite(x[i])} = {i \in D : x[i] \in SellSide}
      BY <1>1 DEF SellSide
    <2> QED BY <2>1 DEF FiniteSells, Filtered, Only
  <1>4. Filtered(x, LAMBDA r : ~(profile.screens /\ r.screened) /\ r.day # "bad") = Only(x, Written)
    <2>1. {i \in D : ~(profile.screens /\ x[i].screened) /\ x[i].day # "bad"} = {i \in D : x[i] \in Written}
      BY <1>1 DEF Written
    <2> QED BY <2>1 DEF Filtered, Only
  <1>5. ASSUME NEW days PROVE Filtered(x, LAMBDA r : r.day \in days) = Only(x, On(days))
    <2>1. {i \in D : x[i].day \in days} = {i \in D : x[i] \in On(days)}
      BY <1>1 DEF On
    <2> QED BY <2>1 DEF Filtered, Only
  <1> QED BY <1>2, <1>3, <1>4, <1>5

Consumed(kind, x, from) == FoldOf(kind, <<>>, {}, [rows |-> <<>>, pool |-> from], x)
Taking(kind, r) == IF kind = "net" THEN Finite(r) ELSE r.side = "B"

\* What a row makes of the rows and of the pool.
RowTaken(kind, R, p, x) ==
    IF Taking(kind, x) /\ ValueKey(x) \in DOMAIN p
    THEN [rows |-> R, pool |-> p (-) SetToBag({ValueKey(x)})]
    ELSE [rows |-> Append(R, x), pool |-> p]

LEMMA ConsumeStep ==
    ASSUME NEW kind \in {"net", "dedup"}, NEW acc, NEW R, NEW p, NEW x,
           acc = [rows |-> R, pool |-> p]
    PROVE  StepAt(kind, <<>>, {}, acc, x) = RowTaken(kind, R, p, x)
  <1> DEFINE q == p (-) SetToBag({ValueKey(x)})
  <1>1. acc \in [rows : {R}, pool : {p}] /\ acc.rows = R /\ acc.pool = p
    OBVIOUS
  <1>2. \A e : [acc EXCEPT !.pool = e] = [rows |-> R, pool |-> e]
    BY <1>1
  <1>3. \A e : [acc EXCEPT !.rows = e] = [rows |-> e, pool |-> p]
    BY <1>1
  <1>4. StepAt(kind, <<>>, {}, acc, x)
            = IF Taking(kind, x) /\ BagIn(ValueKey(x), acc.pool)
              THEN [acc EXCEPT !.pool = acc.pool (-) SetToBag({ValueKey(x)})]
              ELSE [acc EXCEPT !.rows = Append(acc.rows, x)]
    BY DEF StepAt, Taking
  <1>5. BagIn(ValueKey(x), acc.pool) <=> ValueKey(x) \in DOMAIN p
    BY <1>1 DEF BagIn, BagToSet
  <1> HIDE DEF q
  <1> QED BY <1>1, <1>2, <1>3, <1>4, <1>5 DEF RowTaken, q

LEMMA ConsumeTyped ==
    ASSUME NEW kind \in {"net", "dedup"}, NEW S, NEW x \in Seq(S), NEW from
    PROVE  \E R \in Seq(S) : \E p : Consumed(kind, x, from) = [rows |-> R, pool |-> p]
  <1> DEFINE F(u) == \E R \in Seq(S) : \E p : Consumed(kind, u, from) = [rows |-> R, pool |-> p]
             G == {u \in Seq(S) : F(u)}
  <1>1. <<>> \in G
    <2>1. <<>> \in Seq(S)
      BY EmptySeq
    <2>2. Consumed(kind, <<>>, from) = [rows |-> <<>>, pool |-> from]
      BY FoldOfNone DEF Consumed
    <2> QED BY <2>1, <2>2
  <1>2. ASSUME NEW u \in Seq(S), NEW y \in S, u \in G PROVE Append(u, y) \in G
    <2>1. PICK R \in Seq(S) : \E p : Consumed(kind, u, from) = [rows |-> R, pool |-> p]
      BY <1>2
    <2>a. PICK p : Consumed(kind, u, from) = [rows |-> R, pool |-> p]
      BY <2>1
    <2>2. Consumed(kind, Append(u, y), from) = StepAt(kind, <<>>, {}, Consumed(kind, u, from), y)
      BY FoldOfOneMore DEF Consumed
    <2>3. Append(u, y) \in Seq(S) /\ Append(R, y) \in Seq(S)
      BY AppendProperties
    <2>4. Consumed(kind, Append(u, y), from) = RowTaken(kind, R, p, y)
      BY <2>a, <2>2, ConsumeStep
    <2>5. F(Append(u, y))
      BY <2>3, <2>4 DEF RowTaken
    <2> HIDE DEF F
    <2> QED BY <2>3, <2>5
  <1> HIDE DEF G
  <1>3. x \in G
    BY <1>1, <1>2, SequenceInduction
  <1> QED BY <1>3 DEF G

LEMMA ChunkTyped ==
    ASSUME file \in Seq(Rows), at \in Nat, chunk \in Nat
    PROVE  ChunkRows \in Seq(Rows)
  <1> DEFINE hi == IF at + chunk < Len(file) THEN at + chunk ELSE Len(file)
  <1>1. Len(file) \in Nat /\ hi \in Int /\ at + 1 \in Int /\ \A i \in at + 1 .. hi : i \in 1 .. Len(file)
    BY LenProperties
  <1>2. \A i \in at + 1 .. hi : file[i] \in Rows
    BY <1>1, ElementOfSeq
  <1> HIDE DEF hi
  <1>3. SubSeq(file, at + 1, hi) \in Seq(Rows)
    BY <1>1, <1>2, SubSeqProperties
  <1> QED BY <1>3 DEF ChunkRows, hi

LEMMA PiecesTyped ==
    ASSUME file \in Seq(Rows), at \in Nat, chunk \in Nat
    PROVE  /\ Surviving(ChunkRows) \in Seq(Rows)
           /\ Netted.rows \in Seq(Rows) /\ Netted = [rows |-> Netted.rows, pool |-> Netted.pool]
           /\ Unique.rows \in Seq(Rows) /\ Unique = [rows |-> Unique.rows, pool |-> Unique.pool]
           /\ Dated \in Seq(Rows)
           /\ \A days : PartOf(days) \in Seq(Rows)
  <1>1. ChunkRows \in Seq(Rows)
    BY ChunkTyped
  <1>2. Surviving(ChunkRows) \in Seq(Rows)
    BY <1>1, ParityOfFilters, OnlyTyped
  <1>3. \A x \in Seq(Rows) : \A from : /\ NetOut(x, from) = Consumed("net", x, from)
                                       /\ Dedup(x, from) = Consumed("dedup", x, from)
    BY NetOutIsFold, DedupIsFold DEF Consumed
  <1>4. Netted.rows \in Seq(Rows) /\ Netted = [rows |-> Netted.rows, pool |-> Netted.pool]
    <2>1. CASE profile.net
      <3>1. Netted = Consumed("net", Surviving(ChunkRows), pool)
        BY <1>2, <1>3, <2>1 DEF Netted
      <3>2. PICK R \in Seq(Rows) : \E p : Netted = [rows |-> R, pool |-> p]
        BY <1>2, <3>1, ConsumeTyped
      <3> QED BY <3>2
    <2>2. CASE ~profile.net
      BY <1>2, <2>2 DEF Netted
    <2> QED BY <2>1, <2>2
  <1>5. Unique.rows \in Seq(Rows) /\ Unique = [rows |-> Unique.rows, pool |-> Unique.pool]
    <2>1. Unique = Consumed("dedup", Netted.rows, sells)
      BY <1>3, <1>4 DEF Unique
    <2>2. PICK R \in Seq(Rows) : \E p : Unique = [rows |-> R, pool |-> p]
      BY <1>4, <2>1, ConsumeTyped
    <2> QED BY <2>2
  <1>6. Dated \in Seq(Rows)
    BY <1>5, ParityOfFilters, OnlyTyped DEF Dated
  <1>7. ASSUME NEW days PROVE PartOf(days) \in Seq(Rows)
    <2>1. PartOf(days) = Only(Dated, On(days))
      BY <1>6, ParityOfFilters DEF PartOf
    <2> QED BY <1>6, <2>1, OnlyTyped
  <1> QED BY <1>2, <1>4, <1>5, <1>6, <1>7

-----------------------------------------------------------------------------
(* The filter's invariant.                                                 *)

\* An output file.
IsFile(f) == \E s, r : f = [state |-> s, rows |-> r] /\ IsSeq(r)

Reached == IF at < Len(SortedRows) THEN at ELSE Len(SortedRows)

FilterInv ==
    /\ file \in Seq(Rows) /\ chunk \in Nat /\ at \in Nat
    /\ IsFile(dev) /\ IsFile(shifted)
    /\ pc = "filtering" =>
           \E b \in BatchSizes : filter = FilterOf(b, SubSeq(SortedRows, 1, Reached))
    /\ FilteringIgnoresBatches

\* What a filtered file has of a bond.
LoopOfBond(sorted, out, c) ==
    LET of == At(sorted, {i \in DOMAIN sorted : sorted[i].bond = c})
        mask == BounceBackLoop([i \in DOMAIN of |-> of[i].pr])
    IN At(out, {i \in DOMAIN out : out[i].bond = c}) = At(of, {i \in DOMAIN of : mask[i]})

LEMMA EmptyIsSeq == IsSeq(<<>>)
  <1>1. <<>> \in Seq({})
    BY EmptySeq
  <1> QED BY <1>1, SeqIsSeq

LEMMA LeftoversAreFiles ==
    ASSUME NEW f \in Leftovers
    PROVE  IsFile(f)
  <1>1. f = [state |-> "absent", rows |-> <<>>] \/ f = [state |-> "whole", rows |-> <<OldRow>>]
        \/ f = [state |-> "torn", rows |-> <<OldRow>>]
    BY DEF Leftovers, Absent, Whole
  <1>2. <<OldRow>> \in Seq({OldRow})
    OBVIOUS
  <1>3. IsSeq(<<OldRow>>)
    BY <1>2, SeqIsSeq
  <1> QED BY <1>1, <1>3, EmptyIsSeq DEF IsFile

LEMMA WriteIsFile ==
    ASSUME NEW f, IsFile(f), NEW S, NEW x \in Seq(S)
    PROVE  IsFile(Write(f, x)) /\ IsFile(Closed(f))
           /\ IsFile(IF f.state = "open" THEN [f EXCEPT !.state = "torn"] ELSE f)
  <1>1. PICK s, r : f = [state |-> s, rows |-> r] /\ IsSeq(r)
    BY DEF IsFile
  <1>2. ASSUME NEW old, IsSeq(old) PROVE IsSeq(old \o x)
    <2> DEFINE R == {old[i] : i \in DOMAIN old}
               Both == R \cup S
    <2>1. R \subseteq Both /\ S \subseteq Both /\ old \in Seq(R)
      BY <1>2 DEF IsSeq
    <2> HIDE DEF R, Both
    <2>2. old \in Seq(Both) /\ x \in Seq(Both)
      BY <2>1, SeqMonotonic
    <2>3. old \o x \in Seq(Both)
      BY <2>2, ConcatProperties
    <2> QED BY <2>3, SeqIsSeq
  <1>3. IsFile(Write(f, x))
    <2> DEFINE old == IF f.state = "open" THEN f.rows ELSE <<>>
    <2>1. IsSeq(old)
      BY <1>1, EmptyIsSeq
    <2>2. Write(f, x) = IF x = <<>> THEN f ELSE [state |-> "open", rows |-> old \o x]
      BY DEF Write
    <2> HIDE DEF old
    <2>3. IsSeq(old \o x)
      BY <1>2, <2>1
    <2> QED BY <2>2, <2>3 DEF IsFile
  <1>4. \A e : [f EXCEPT !.state = e] = [state |-> e, rows |-> r]
    <2>1. f \in [state : {s}, rows : {r}] /\ f.rows = r
      BY <1>1
    <2> QED BY <2>1
  <1>5. IsFile(Closed(f)) /\ IsFile(IF f.state = "open" THEN [f EXCEPT !.state = "torn"] ELSE f)
    BY <1>1, <1>4 DEF Closed, IsFile
  <1> QED BY <1>3, <1>5

LEMMA ShiftIsFile ==
    ASSUME NEW rows, IsSeq(rows)
    PROVE  IsFile(Whole(DecimalShift(rows)))
  <1> DEFINE kept == Filtered(rows, LAMBDA r : ShiftFactor(r.pr) # 0)
             new == [i \in DOMAIN kept |-> [kept[i] EXCEPT !.pr = @ \div ShiftFactor(@)]]
             S == {rows[i] : i \in DOMAIN rows}
  <1>1. rows \in Seq(S)
    BY DEF IsSeq
  <1>2. kept \in Seq(S)
    <2> DEFINE I == {i \in DOMAIN rows : ShiftFactor(rows[i].pr) # 0}
    <2>1. kept = At(rows, I)
      BY DEF Filtered
    <2> HIDE DEF I, kept, S
    <2> QED BY <1>1, <2>1, AtTyped
  <1>3. DecimalShift(rows) = new
    BY DEF DecimalShift
  <1> HIDE DEF kept, S
  <1>4. Len(kept) \in Nat /\ DOMAIN kept = 1 .. Len(kept)
    BY <1>2, LenProperties
  <1>5. new = [i \in 1 .. Len(kept) |-> new[i]]
    BY <1>4
  <1> HIDE DEF new
  <1>6. new \in Seq({new[i] : i \in 1 .. Len(kept)})
    BY <1>4, <1>5, IsASeq
  <1>7. IsSeq(new)
    BY <1>6, SeqIsSeq
  <1> QED BY <1>3, <1>7 DEF IsFile, Whole

LEMMA FilterInvInit == Init => FilterInv
  <1> SUFFICES ASSUME Init PROVE FilterInv
    OBVIOUS
  <1>1. file \in Seq(Rows) /\ chunk \in Nat /\ at = 0 /\ pc = "scan1"
    BY FileAssumption DEF Init
  <1>2. IsFile(dev)
    BY LeftoversAreFiles DEF Init
  <1>3. IsFile(shifted)
    <2>1. shifted = Absent /\ Absent \in Leftovers
      BY DEF Init, Leftovers
    <2> QED BY <2>1, LeftoversAreFiles
  <1> QED BY <1>1, <1>2, <1>3 DEF FilterInv, FilteringIgnoresBatches

LEMMA FilterSteps ==
    FilterInv /\ [Next]_vars => FilterInv'
  <1> SUFFICES ASSUME FilterInv, [Next]_vars PROVE FilterInv'
    OBVIOUS
  <1> DEFINE elsewhere == pc' \notin {"filtering", "filtered"}
  <1>0. /\ file \in Seq(Rows) /\ chunk \in Nat /\ at \in Nat
        /\ IsFile(dev) /\ IsFile(shifted)
        /\ pc = "filtering" =>
               \E b \in BatchSizes : filter = FilterOf(b, SubSeq(SortedRows, 1, Reached))
    BY DEF FilterInv
  <1>a. ASSUME UNCHANGED <<file, chunk>>, at' \in Nat, IsFile(dev'), IsFile(shifted'), elsewhere
        PROVE  FilterInv'
    BY <1>0, <1>a DEF FilterInv, FilteringIgnoresBatches
  <1>1. CASE Scan1
    BY <1>0, <1>1, <1>a DEF Scan1, inputVars, outVars, corrVars
  <1>2. CASE Scan2
    BY <1>0, <1>2, <1>a DEF Scan2, inputVars, outVars, corrVars
  <1>3. CASE Pass2
    <2> DEFINE x == IF PartOf({"beyond"}) # <<>> THEN <<>> ELSE PartOf(DevDays)
    <2>1. PartOf({"beyond"}) \in Seq(Rows) /\ PartOf(DevDays) \in Seq(Rows)
      BY <1>0, PiecesTyped
    <2>2. x \in Seq(Rows)
      BY <2>1, EmptySeq
    <2>3. dev' = Write(dev, x) \/ dev' = Closed(Write(dev, x))
      BY <1>3 DEF Pass2, PartOf, Dated, Unique, Netted
    <2>4. UNCHANGED <<file, chunk, shifted>> /\ at' = at + chunk /\ pc' \in {"failed", "verify", "pass2"}
      BY <1>3 DEF Pass2, inputVars, corrVars
    <2> HIDE DEF x
    <2>5. IsFile(Write(dev, x))
      BY <1>0, <2>2, WriteIsFile
    <2>6. IsFile(Closed(Write(dev, x)))
      BY <2>2, <2>5, WriteIsFile
    <2> QED BY <1>0, <1>a, <2>3, <2>4, <2>5, <2>6
  <1>4. CASE Verify
    BY <1>0, <1>4, <1>a DEF Verify, inputVars, outVars, corrVars
  <1>5. CASE Kill
    <2>1. <<>> \in Seq({})
      BY EmptySeq
    <2>2. IsFile(IF dev.state = "open" THEN [dev EXCEPT !.state = "torn"] ELSE dev)
      BY <1>0, <2>1, WriteIsFile
    <2>3. dev' = IF dev.state = "open" THEN [dev EXCEPT !.state = "torn"] ELSE dev
      BY <1>5 DEF Kill
    <2>4. IsFile(dev')
      BY <2>2, <2>3
    <2>5. UNCHANGED <<file, chunk, at, shifted>> /\ pc' = "failed"
      BY <1>5 DEF Kill, inputVars, corrVars
    <2> QED BY <1>0, <1>a, <2>4, <2>5
  <1>6. CASE Shift
    <2>1. UNCHANGED <<file, chunk, at, dev>> /\ pc' = "shifted"
      BY <1>6 DEF Shift, inputVars, outVars
    <2>2. shifted' = shifted \/ shifted' = Whole(DecimalShift(dev.rows))
      BY <1>6 DEF Shift
    <2>3. IsSeq(dev.rows)
      BY <1>0 DEF IsFile
    <2>4. IsFile(shifted')
      BY <1>0, <2>2, <2>3, ShiftIsFile
    <2> QED BY <1>0, <1>a, <2>1, <2>4
  <1> DEFINE S == {shifted.rows[i] : i \in DOMAIN shifted.rows}
             sorted == SortedRows
  <1>7. shifted.rows \in Seq(S) /\ sorted \in Seq(S) /\ Grouped(sorted)
    <2>1. shifted.rows \in Seq(S)
      BY <1>0 DEF IsFile, IsSeq
    <2> HIDE DEF S
    <2> QED BY <2>1, SortedGrouped
  <1> HIDE DEF S
  <1>8. UNCHANGED shifted => SortedRows' = sorted
    BY DEF SortedRows, Filtered
  <1>9. Len(sorted) \in Nat
    BY <1>7, LenProperties
  <1>10. CASE StartFilter
    <2>1. /\ UNCHANGED <<file, chunk, dev, shifted>> /\ at' = 0 /\ pc' = "filtering"
          /\ \E b \in BatchSizes : filter' = [NoFilter EXCEPT !.batch = b]
      BY <1>10 DEF StartFilter, inputVars, outVars
    <2>2. PICK b \in BatchSizes : filter' = [NoFilter EXCEPT !.batch = b]
      BY <2>1
    <2>3. Reached' = 0 /\ SortedRows' = sorted
      BY <1>8, <1>9, <2>1 DEF Reached
    <2>4. SubSeq(sorted, 1, 0) = <<>>
      BY SubSeqEmpty
    <2>5. FilterOf(b, <<>>) = [NoFilter EXCEPT !.batch = b]
      BY FoldOfNone DEF FilterOf
    <2>6. filter' = FilterOf(b, SubSeq(SortedRows, 1, Reached)')
      BY <2>2, <2>3, <2>4, <2>5
    <2>7. FilterOf(b, SubSeq(SortedRows, 1, Reached))' = FilterOf(b, SubSeq(SortedRows, 1, Reached)')
      BY DEF FilterOf
    <2> QED BY <1>0, <2>1, <2>6, <2>7 DEF FilterInv, FilteringIgnoresBatches
  <1>11. CASE ReadBatch
    <2> DEFINE m == IF at + filter.batch < Len(sorted) THEN at + filter.batch ELSE Len(sorted)
               rows == SubSeq(sorted, at + 1, m)
               past == SubSeq(sorted, 1, at)
    <2>1. /\ pc = "filtering" /\ at < Len(sorted) /\ UNCHANGED <<file, chunk, dev, shifted, pc>>
          /\ filter' = FoldLeft(Accumulate, filter, rows) /\ at' = at + filter.batch
      BY <1>11 DEF ReadBatch, inputVars, outVars
    <2>2. Reached = at
      BY <2>1 DEF Reached
    <2>3. PICK b \in BatchSizes : filter = FilterOf(b, past)
      BY <1>0, <2>1, <2>2
    <2>4. b \in Nat /\ b # 0
      BY FileAssumption
    <2>5. past \in Seq(S) /\ rows \in Seq(S) /\ past \o rows = SubSeq(sorted, 1, m)
          /\ m \in at .. Len(sorted) /\ filter.batch = b
      <3>1. past \in Seq(S)
        <4>1. \A i \in 1 .. at : sorted[i] \in S
          BY <1>0, <1>7, <1>9, <2>1, ElementOfSeq
        <4> QED BY <1>0, <4>1, SubSeqProperties
      <3>2. Grouped(past)
        <4>1. at \in 0 .. Len(sorted)
          BY <1>0, <1>9, <2>1
        <4> HIDE DEF sorted
        <4>2. Len(past) = at /\ \A i \in 1 .. at : past[i] = sorted[i]
          <5>1. \A i \in 1 .. at : sorted[i] \in S
            BY <1>7, <1>9, <4>1, ElementOfSeq
          <5>2. Len(past) = (IF 1 <= at THEN at - 1 + 1 ELSE 0)
                /\ \A i \in 1 .. at - 1 + 1 : past[i] = sorted[1 + i - 1]
            BY <1>0, <5>1, SubSeqProperties
          <5> QED BY <1>0, <5>2
        <4>3. DOMAIN past = 1 .. at /\ DOMAIN sorted = 1 .. Len(sorted)
          BY <1>7, <3>1, <4>2, LenProperties
        <4> HIDE DEF past
        <4>4. ASSUME NEW i \in 1 .. at, NEW j \in 1 .. at, i < j, past[i].bond = past[j].bond
              PROVE  past[i].bond = past[j - 1].bond
          <5>1. i \in DOMAIN sorted /\ j \in DOMAIN sorted /\ j - 1 \in 1 .. at
            BY <1>9, <4>1, <4>3, <4>4
          <5>2. sorted[i].bond = sorted[j - 1].bond
            BY <1>7, <4>2, <4>4, <5>1 DEF Grouped
          <5> QED BY <4>2, <5>1, <5>2
        <4> QED BY <4>3, <4>4 DEF Grouped
      <3>3. FilterState(S, b, past, filter)
        <4> HIDE DEF past
        <4> QED BY <2>3, <3>1, <3>2, FilterReads
      <3>4. filter.batch = b
        <4> HIDE DEF past
        <4> QED BY <3>3 DEF FilterState
      <3>5. m \in at .. Len(sorted)
        BY <1>0, <1>9, <2>1, <2>4, <3>4
      <3> HIDE DEF m
      <3>6. rows \in Seq(S)
        <4>1. \A i \in at + 1 .. m : sorted[i] \in S
          BY <1>0, <1>7, <1>9, <3>5, ElementOfSeq
        <4>2. at + 1 \in Int /\ m \in Int
          BY <1>0, <1>9, <3>5
        <4> QED BY <4>1, <4>2, SubSeqProperties
      <3>7. past \o rows = SubSeq(sorted, 1, m)
        <4>1. 1 \in 1 .. Len(sorted) + 1 /\ at \in 1 - 1 .. Len(sorted) /\ m \in at .. Len(sorted)
          BY <1>0, <1>9, <2>1, <3>5
        <4> HIDE DEF sorted
        <4> QED BY <1>7, <4>1, ConcatAdjacentSubSeq
      <3> QED BY <3>1, <3>4, <3>5, <3>6, <3>7
    <2>6. filter' = FilterOf(b, SubSeq(sorted, 1, m))
      <3>1. filter' = FoldOf("filter", <<>>, {}, filter, rows)
        BY <2>1, ReadIsFold
      <3> HIDE DEF past, rows, m
      <3>2. FilterOf(b, past \o rows) = FoldOf("filter", <<>>, {}, FilterOf(b, past), rows)
        <4> DEFINE base == [NoFilter EXCEPT !.batch = b]
        <4>1. past \in Seq(S) /\ rows \in Seq(S)
          BY <2>5
        <4> HIDE DEF base
        <4>2. FoldOf("filter", <<>>, {}, base, past \o rows)
                  = FoldOf("filter", <<>>, {}, FoldOf("filter", <<>>, {}, base, past), rows)
          BY <4>1, FoldConcat
        <4> QED BY <4>2 DEF FilterOf, base
      <3> QED BY <2>3, <2>5, <3>1, <3>2
    <2>7. at' \in Nat /\ Reached' = m /\ SortedRows' = sorted
      <3>1. SortedRows' = sorted
        BY <1>8, <2>1
      <3> HIDE DEF sorted
      <3>2. Reached' = IF at' < Len(SortedRows') THEN at' ELSE Len(SortedRows')
        BY DEF Reached
      <3> QED BY <1>0, <1>9, <2>1, <2>4, <2>5, <3>1, <3>2
    <2>8. FilterOf(b, SubSeq(SortedRows, 1, Reached))' = FilterOf(b, SubSeq(SortedRows', 1, Reached'))
      BY DEF FilterOf
    <2>9. filter' = FilterOf(b, SubSeq(SortedRows, 1, Reached))'
      <3> HIDE DEF sorted, m
      <3> QED BY <2>6, <2>7, <2>8
    <2>10. pc' = "filtering" /\ UNCHANGED <<file, chunk, dev, shifted>>
      BY <2>1
    <2> HIDE DEF sorted, m, rows, past
    <2> QED BY <1>0, <2>7, <2>9, <2>10 DEF FilterInv, FilteringIgnoresBatches
  <1>12. CASE PublishFilter
    <2>1. /\ pc = "filtering" /\ ~(at < Len(sorted)) /\ UNCHANGED <<file, chunk, at, dev, shifted>>
          /\ corr' = Whole(Flush(filter).kept) /\ pc' = "filtered"
      <3>1. at >= Len(sorted)
        BY <1>12 DEF PublishFilter
      <3>2. ~(at < Len(sorted))
        BY <1>0, <1>9, <3>1
      <3> QED BY <1>12, <3>2 DEF PublishFilter, inputVars, outVars
    <2>2. Reached = Len(sorted)
      BY <2>1 DEF Reached
    <2>3. PICK b \in BatchSizes : filter = FilterOf(b, SubSeq(sorted, 1, Len(sorted)))
      BY <1>0, <2>1, <2>2
    <2> HIDE DEF sorted
    <2>4. SubSeq(sorted, 1, Len(sorted)) = sorted
      BY <1>7, SubSeqFull
    <2>5. FilterState(S, b, sorted, filter)
      BY <1>7, <2>3, <2>4, FilterReads
    <2>6. FlushedState(S, b, sorted, Flush(filter))
      BY <1>7, <2>5, FlushKeeps
    <2> DEFINE kept == Flush(filter).kept
    <2>7. kept \in Seq(S) /\ \A c : Only(kept, OfBond(S, c)) = Looped(Only(sorted, OfBond(S, c)))
      BY <2>6 DEF FlushedState
    <2>8. corr'.rows = kept
      BY <2>1 DEF Whole
    <2> HIDE DEF kept
    <2>9. \A x \in Seq(S) : \A c : Filtered(x, LAMBDA r : r.bond = c) = Only(x, OfBond(S, c))
      <3> TAKE x \in Seq(S)
      <3> TAKE c
      <3>1. \A i \in DOMAIN x : x[i] \in S
        BY ElementOfSeq, LenProperties
      <3>2. {i \in DOMAIN x : x[i].bond = c} = {i \in DOMAIN x : x[i] \in OfBond(S, c)}
        BY <3>1 DEF OfBond
      <3> QED BY <3>2 DEF Filtered, Only
    <2>10. ASSUME NEW c
           PROVE  LET of == Filtered(SortedRows', LAMBDA r : r.bond = c)
                      mask == BounceBackLoop([i \in DOMAIN of |-> of[i].pr])
                  IN Filtered(corr'.rows, LAMBDA r : r.bond = c) = At(of, {i \in DOMAIN of : mask[i]})
      <3> DEFINE of == Only(sorted, OfBond(S, c))
      <3>1. SortedRows' = sorted
        BY <1>8, <2>1 DEF sorted
      <3>2. Filtered(SortedRows', LAMBDA r : r.bond = c) = of
        BY <1>7, <2>9, <3>1
      <3>3. Filtered(corr'.rows, LAMBDA r : r.bond = c) = Looped(of)
        BY <2>7, <2>8, <2>9
      <3> HIDE DEF of
      <3> QED BY <3>2, <3>3 DEF Looped, Mask
    <2>11. FilteringIgnoresBatches'
      BY <2>10 DEF FilteringIgnoresBatches, Filtered
    <2>12. pc' # "filtering" /\ UNCHANGED <<file, chunk, at, dev, shifted>>
      BY <2>1
    <2> QED BY <1>0, <2>11, <2>12 DEF FilterInv
  <1>13. CASE KillFilter
    BY <1>0, <1>13, <1>a DEF KillFilter, inputVars, outVars
  <1>14. CASE UNCHANGED vars
    <2>1. UNCHANGED <<file, chunk, at, dev, shifted, filter, corr, pc>>
      BY <1>14 DEF vars
    <2>2. FilteringIgnoresBatches'
      <3>1. SortedRows' = SortedRows /\ pc' = pc /\ corr' = corr /\ shifted' = shifted
        BY <1>8, <2>1
      <3>2. FilteringIgnoresBatches
        BY DEF FilterInv
      <3> HIDE DEF sorted
      <3>3. ASSUME NEW c \in {r.bond : r \in ToSet(shifted.rows)}, pc = "filtered"
            PROVE  LoopOfBond(SortedRows, corr.rows, c)
        BY ONLY <3>2, <3>3 DEF FilteringIgnoresBatches, Filtered, LoopOfBond
      <3>4. ASSUME NEW c \in {r.bond : r \in ToSet(shifted'.rows)}, pc' = "filtered"
            PROVE  LoopOfBond(SortedRows', corr'.rows, c)
        BY ONLY <3>1, <3>3, <3>4
      <3> QED BY ONLY <3>4 DEF FilteringIgnoresBatches, Filtered, LoopOfBond
    <2>3. \A b : FilterOf(b, SubSeq(SortedRows, 1, Reached))' = FilterOf(b, SubSeq(SortedRows, 1, Reached))
      BY <1>8, <2>1 DEF FilterOf, Reached
    <2> QED BY <1>0, <2>1, <2>2, <2>3 DEF FilterInv
  <1> QED BY <1>1, <1>2, <1>3, <1>4, <1>5, <1>6, <1>10, <1>11, <1>12, <1>13, <1>14 DEF Next

\* process_partition filters a bond's prices as one sequence, wherever the
\* batches of its reader cut them.
THEOREM BatchesMakeNoDifference == Spec => []FilteringIgnoresBatches
  <1>1. FilterInv => FilteringIgnoresBatches
    BY DEF FilterInv
  <1> QED BY <1>1, FilterInvInit, FilterSteps, PTL DEF Spec

-----------------------------------------------------------------------------
(* Bags, and what is taken from them.                                      *)

Copies(B, k) == IF k \in DOMAIN B THEN B[k] ELSE 0
Rest(c, n) == IF n < c THEN c - n ELSE 0
IsPool(B) == \A k \in DOMAIN B : B[k] \in Nat /\ B[k] > 0

LEMMA PoolCopies ==
    ASSUME NEW B, IsPool(B), NEW k
    PROVE  Copies(B, k) \in Nat /\ (k \in DOMAIN B <=> Copies(B, k) > 0)
  BY DEF IsPool, Copies

LEMMA EmptyPool == IsPool(EmptyBag) /\ \A k : Copies(EmptyBag, k) = 0
  BY DEF IsPool, Copies, EmptyBag, SetToBag

LEMMA PoolUnion ==
    ASSUME NEW A, NEW B, IsPool(A), IsPool(B)
    PROVE  IsPool(A (+) B) /\ \A k : Copies(A (+) B, k) = Copies(A, k) + Copies(B, k)
  <1> DEFINE U == A (+) B
  <1>1. DOMAIN U = (DOMAIN A) \cup (DOMAIN B)
        /\ \A k \in DOMAIN U : U[k] = Copies(A, k) + Copies(B, k)
    BY DEF (+), Copies
  <1>2. \A k : /\ Copies(A, k) \in Nat /\ (k \in DOMAIN A <=> Copies(A, k) > 0)
               /\ Copies(B, k) \in Nat /\ (k \in DOMAIN B <=> Copies(B, k) > 0)
    BY PoolCopies
  <1> HIDE DEF U
  <1>3. IsPool(U)
    <2> SUFFICES ASSUME NEW k \in DOMAIN U PROVE U[k] \in Nat /\ U[k] > 0
      BY DEF IsPool
    <2>1. U[k] = Copies(A, k) + Copies(B, k) /\ (k \in DOMAIN A \/ k \in DOMAIN B)
      BY <1>1
    <2> QED BY <1>2, <2>1
  <1>4. ASSUME NEW k PROVE Copies(U, k) = Copies(A, k) + Copies(B, k)
    <2>1. CASE k \in DOMAIN U
      BY <1>1, <2>1 DEF Copies
    <2>2. CASE k \notin DOMAIN U
      <3>1. k \notin DOMAIN A /\ k \notin DOMAIN B
        BY <1>1, <2>2
      <3> QED BY <2>2, <3>1 DEF Copies
    <2> QED BY <2>1, <2>2
  <1> QED BY <1>3, <1>4 DEF U

LEMMA PoolTake ==
    ASSUME NEW B, IsPool(B), NEW k \in DOMAIN B
    PROVE  LET less == B (-) SetToBag({k})
           IN IsPool(less) /\ \A j : Copies(less, j) = Copies(B, j) - (IF j = k THEN 1 ELSE 0)
  <1> DEFINE less == B (-) SetToBag({k})
             E == [e \in DOMAIN B |-> IF e = k THEN B[e] - 1 ELSE B[e]]
  <1>1. less = [e \in {d \in DOMAIN E : E[d] > 0} |-> E[e]]
    <2>1. DOMAIN SetToBag({k}) = {k} /\ SetToBag({k})[k] = 1
      BY DEF SetToBag
    <2>2. E = [e \in DOMAIN B |-> IF e \in DOMAIN SetToBag({k}) THEN B[e] - SetToBag({k})[e] ELSE B[e]]
      BY <2>1
    <2> HIDE DEF E
    <2> QED BY <2>2 DEF (-)
  <1>2. \A d \in DOMAIN B : B[d] \in Nat /\ B[d] > 0
    BY DEF IsPool
  <1> HIDE DEF less
  <1>3. /\ DOMAIN less = {d \in DOMAIN B : E[d] > 0}
        /\ \A d \in DOMAIN less : less[d] = E[d]
    BY <1>1
  <1>4. \A d \in DOMAIN B : E[d] \in Nat /\ E[d] = B[d] - (IF d = k THEN 1 ELSE 0)
    BY <1>2
  <1> HIDE DEF E
  <1>5. IsPool(less)
    BY <1>3, <1>4 DEF IsPool
  <1>6. ASSUME NEW j PROVE Copies(less, j) = Copies(B, j) - (IF j = k THEN 1 ELSE 0)
    <2>1. CASE j \in DOMAIN B /\ E[j] > 0
      BY <1>3, <1>4, <2>1 DEF Copies
    <2>2. CASE j \in DOMAIN B /\ ~(E[j] > 0)
      <3>1. E[j] = 0 /\ j \notin DOMAIN less
        BY <1>3, <1>4, <2>2
      <3>2. B[j] - (IF j = k THEN 1 ELSE 0) = 0
        BY <1>4, <2>2, <3>1
      <3> QED BY <2>2, <3>1, <3>2 DEF Copies
    <2>3. CASE j \notin DOMAIN B
      <3>1. j \notin DOMAIN less /\ j # k
        BY <1>3, <2>3
      <3> QED BY <2>3, <3>1 DEF Copies
    <2> QED BY <2>1, <2>2, <2>3
  <1> QED BY <1>5, <1>6 DEF less

\* Of the members at some positions, how many have a key.
LEMMA TallyCounts ==
    ASSUME NEW S, NEW keys \in Seq(S)
    PROVE  /\ IsPool(Tally(keys))
           /\ \A k : Copies(Tally(keys), k) = Cardinality({i \in DOMAIN keys : keys[i] = k})
  <1> DEFINE T == Tally(keys)
             Of(k) == {i \in DOMAIN keys : keys[i] = k}
  <1>1. DOMAIN T = ToSet(keys) /\ \A k \in DOMAIN T : T[k] = Cardinality(Of(k))
    BY DEF Tally
  <1>2. \A k : IsFiniteSet(Of(k)) /\ Cardinality(Of(k)) \in Nat /\ (Of(k) # {} <=> Cardinality(Of(k)) > 0)
    <2> TAKE k
    <2>1. Len(keys) \in Nat /\ DOMAIN keys = 1 .. Len(keys)
      BY LenProperties
    <2>2. IsFiniteSet(1 .. Len(keys)) /\ Of(k) \in SUBSET (1 .. Len(keys))
      BY <2>1, FS_Interval
    <2> HIDE DEF Of
    <2>3. IsFiniteSet(Of(k))
      BY ONLY <2>2, FS_Subset
    <2>4. Cardinality(Of(k)) \in Nat /\ (Cardinality(Of(k)) = 0 <=> Of(k) = {})
      BY <2>3, FS_CardinalityType, FS_EmptySet
    <2> QED BY <2>3, <2>4
  <1>3. \A k : k \in ToSet(keys) <=> Of(k) # {}
    BY DEF ToSet
  <1> HIDE DEF T, Of
  <1>4. IsPool(T)
    BY <1>1, <1>2, <1>3 DEF IsPool
  <1>5. ASSUME NEW k PROVE Copies(T, k) = Cardinality(Of(k))
    <2>1. Cardinality(Of(k)) \in Nat /\ (Of(k) # {} <=> Cardinality(Of(k)) > 0)
      BY <1>2
    <2> QED BY <1>1, <1>3, <2>1 DEF Copies
  <1> QED BY <1>4, <1>5 DEF T, Of

\* The matching rows of a value up to a position.
Held(V, n, k) == {j \in V : j <= n /\ ValueKey(file[j]) = k}
TakenAt(V, total, i) ==
    i \in V /\ Cardinality(Held(V, i - 1, ValueKey(file[i]))) < Copies(total, ValueKey(file[i]))
PoolAt(V, total, n, p) ==
    IsPool(p) /\ \A k : Copies(p, k) = Rest(Copies(total, k), Cardinality(Held(V, n, k)))

LEMMA HeldFinite ==
    ASSUME NEW N \in Nat, NEW V \in SUBSET (1 .. N), NEW n, NEW k
    PROVE  IsFiniteSet(Held(V, n, k)) /\ Cardinality(Held(V, n, k)) \in Nat
  <1>1. Held(V, n, k) \in SUBSET (1 .. N) /\ IsFiniteSet(1 .. N)
    <2>1. Held(V, n, k) \in SUBSET (1 .. N)
      BY DEF Held
    <2>2. IsFiniteSet(1 .. N)
      BY FS_Interval
    <2> QED BY <2>1, <2>2
  <1>2. IsFiniteSet(Held(V, n, k))
    BY ONLY <1>1, FS_Subset
  <1> QED BY <1>2, FS_CardinalityType

HoldsAt(V, l, k) == IF l \in V /\ ValueKey(file[l]) = k THEN 1 ELSE 0

LEMMA HeldOneMore ==
    ASSUME NEW N \in Nat, NEW V \in SUBSET (1 .. N), NEW n \in Nat, NEW k
    PROVE  Cardinality(Held(V, n + 1, k)) = Cardinality(Held(V, n, k)) + HoldsAt(V, n + 1, k)
  <1> DEFINE A == Held(V, n, k)
             B == Held(V, n + 1, k)
  <1>1. IsFiniteSet(A) /\ Cardinality(A) \in Nat
    BY HeldFinite
  <1>2. n + 1 \notin A
    BY DEF Held
  <1>3. B = IF n + 1 \in V /\ ValueKey(file[n + 1]) = k THEN A \cup {n + 1} ELSE A
    <2>1. \A j \in V : j <= n + 1 <=> j <= n \/ j = n + 1
      OBVIOUS
    <2> QED BY <2>1 DEF Held
  <1> HIDE DEF A, B
  <1>4. Cardinality(A \cup {n + 1}) = Cardinality(A) + 1
    BY <1>1, <1>2, FS_AddElement
  <1>5. Cardinality(B) = Cardinality(A) + HoldsAt(V, n + 1, k)
    BY <1>1, <1>3, <1>4 DEF HoldsAt
  <1> QED BY <1>5 DEF A, B

\* A chunk's consumption, of the pool as the rows before it left it.
Ready(kind, a, hi, I, V, total, from) ==
    /\ kind \in {"net", "dedup"} /\ a \in Nat /\ hi \in a .. Len(file)
    /\ I \in SUBSET (a + 1 .. hi) /\ V \in SUBSET DOMAIN file
    /\ \A i \in a + 1 .. hi : i \in V <=> i \in I /\ Taking(kind, file[i])
    /\ \A k : Copies(total, k) \in Nat
    /\ PoolAt(V, total, a, from)
ConsumedTo(kind, hi, I, V, total, from) ==
    \E p : /\ PoolAt(V, total, hi, p)
           /\ Consumed(kind, At(file, I), from)
                  = [rows |-> At(file, {i \in I : ~TakenAt(V, total, i)}), pool |-> p]
LEMMA ConsumeAt ==
    ASSUME file \in Seq(Rows), NEW kind, NEW a, NEW hi, NEW I, NEW V, NEW total, NEW from,
           Ready(kind, a, hi, I, V, total, from)
    PROVE  ConsumedTo(kind, hi, I, V, total, from)
  <1> SUFFICES ASSUME kind \in {"net", "dedup"}, a \in Nat, hi \in a .. Len(file),
                      I \in SUBSET (a + 1 .. hi), V \in SUBSET DOMAIN file,
                      \A i \in a + 1 .. hi : i \in V <=> i \in I /\ Taking(kind, file[i]),
                      \A k : Copies(total, k) \in Nat,
                      PoolAt(V, total, a, from)
               PROVE  \E p : /\ PoolAt(V, total, hi, p)
                             /\ Consumed(kind, At(file, I), from)
                                    = [rows |-> At(file, {i \in I : ~TakenAt(V, total, i)}), pool |-> p]
    BY DEF Ready, ConsumedTo
  <1> DEFINE In(n) == {i \in I : i <= n}
             Kept(n) == {i \in In(n) : ~TakenAt(V, total, i)}
             Good(n) == \E p : /\ PoolAt(V, total, n, p)
                               /\ Consumed(kind, At(file, In(n)), from)
                                      = [rows |-> At(file, Kept(n)), pool |-> p]
             G == {m \in Nat : a + m <= hi => Good(a + m)}
  <1>0. Len(file) \in Nat /\ DOMAIN file = 1 .. Len(file) /\ hi \in Nat /\ a <= hi /\ hi <= Len(file)
        /\ \A i \in I : i \in Int /\ a < i /\ i <= hi
    <2>1. Len(file) \in Nat /\ DOMAIN file = 1 .. Len(file)
      BY LenProperties
    <2> QED BY <2>1
  <1> HIDE DEF In, Kept, Good
  <1>1. 0 \in G
    <2>1. In(a) = {}
      <3>1. \A i \in I : ~(i <= a)
        BY <1>0
      <3> QED BY <3>1 DEF In
    <2>2. Kept(a) = {}
      BY <2>1 DEF Kept
    <2>3. At(file, {}) = <<>>
      BY AtOutside
    <2>4. Consumed(kind, <<>>, from) = [rows |-> <<>>, pool |-> from]
      BY FoldOfNone DEF Consumed
    <2>5. Good(a)
      BY <2>1, <2>2, <2>3, <2>4 DEF Good
    <2>6. a + 0 = a
      OBVIOUS
    <2> QED BY <2>5, <2>6
  <1>2. ASSUME NEW m \in Nat, m \in G PROVE m + 1 \in G
    <2> SUFFICES ASSUME a + (m + 1) <= hi PROVE Good(a + (m + 1))
      OBVIOUS
    <2> DEFINE n == a + m
               l == n + 1
               x == file[l]
               k == ValueKey(x)
    <2>1. n \in Nat /\ l \in Nat /\ l \in a + 1 .. hi /\ l \in DOMAIN file /\ a + (m + 1) = l /\ l - 1 = n
      BY <1>0
    <2>2. x \in Rows
      BY <1>0, <2>1, ElementOfSeq
    <2>3. PICK p : /\ PoolAt(V, total, n, p)
                   /\ Consumed(kind, At(file, In(n)), from) = [rows |-> At(file, Kept(n)), pool |-> p]
      <3>1. Good(a + m)
        BY <1>0, <1>2
      <3> QED BY <3>1 DEF Good
    <2>4. l \in V <=> l \in I /\ Taking(kind, x)
      BY <2>1
    <2>5. \A j : Cardinality(Held(V, l, j))
                     = Cardinality(Held(V, n, j)) + (IF l \in V /\ k = j THEN 1 ELSE 0)
      <3> TAKE j
      <3>1. V \in SUBSET (1 .. Len(file))
        BY <1>0
      <3>2. Cardinality(Held(V, n + 1, j)) = Cardinality(Held(V, n, j)) + HoldsAt(V, n + 1, j)
        <4>1. Len(file) \in Nat /\ n \in Nat
          BY <1>0, <2>1
        <4> HIDE DEF n
        <4> QED BY ONLY <3>1, <4>1, HeldOneMore
      <3> QED BY <3>2 DEF HoldsAt
    <2>6. \A j : Cardinality(Held(V, n, j)) \in Nat /\ Copies(total, j) \in Nat
      <3> TAKE j
      <3>1. V \in SUBSET (1 .. Len(file))
        BY <1>0
      <3> QED BY <1>0, <3>1, HeldFinite
    <2>7. IsPool(p) /\ \A j : Copies(p, j) = Rest(Copies(total, j), Cardinality(Held(V, n, j)))
      BY <2>3 DEF PoolAt
    <2>8. TakenAt(V, total, l) <=> l \in V /\ Cardinality(Held(V, n, k)) < Copies(total, k)
      BY <2>1 DEF TakenAt
    <2>9. /\ In(l) = (IF l \in I THEN In(n) \cup {l} ELSE In(n))
          /\ \A i \in In(n) : i < l
          /\ Kept(l) = (IF l \in I /\ ~TakenAt(V, total, l) THEN Kept(n) \cup {l} ELSE Kept(n))
          /\ \A i \in Kept(n) : i < l
      <3>2. In(l) = (IF l \in I THEN In(n) \cup {l} ELSE In(n)) /\ \A i \in In(n) : i < l
        <4>1. \A i \in I : i \in Int /\ (i <= l <=> i <= n \/ i = l) /\ (i <= n => i < l)
          BY <1>0, <2>1
        <4> HIDE DEF l, n
        <4> QED BY <4>1 DEF In
      <3> HIDE DEF l, n
      <3>3. Kept(l) = (IF l \in I /\ ~TakenAt(V, total, l) THEN Kept(n) \cup {l} ELSE Kept(n))
        BY <3>2 DEF Kept
      <3>4. \A i \in Kept(n) : i < l
        BY <3>2 DEF Kept
      <3> QED BY <3>2, <3>3, <3>4
    <2> HIDE DEF n, l, x
    <2>10. CASE l \notin I
      <3>1. \A j : Cardinality(Held(V, l, j)) = Cardinality(Held(V, n, j))
        BY <2>4, <2>5, <2>6, <2>10
      <3>2. PoolAt(V, total, l, p)
        BY <2>7, <3>1 DEF PoolAt
      <3>3. Good(l)
        <4>1. In(l) = In(n)
          BY <2>9, <2>10
        <4>2. Kept(l) = Kept(n)
          BY <2>9, <2>10
        <4>3. Consumed(kind, At(file, In(l)), from) = [rows |-> At(file, Kept(l)), pool |-> p]
          BY <2>3, <4>1, <4>2
        <4> QED BY <3>2, <4>3 DEF Good
      <3> QED BY <2>1, <3>3
    <2>11. CASE l \in I
      <3>1. At(file, In(l)) = Append(At(file, In(n)), x)
        BY <2>1, <2>9, <2>11, AtLater DEF x
      <3>2. At(file, In(n)) \in Seq(Rows)
        BY AtTyped
      <3>3. Consumed(kind, At(file, In(l)), from) = RowTaken(kind, At(file, Kept(n)), p, x)
        <4> DEFINE acc == Consumed(kind, At(file, In(n)), from)
                   R == At(file, Kept(n))
        <4>1. Consumed(kind, Append(At(file, In(n)), x), from) = StepAt(kind, <<>>, {}, acc, x)
          BY <2>2, <3>2, FoldOfOneMore DEF Consumed
        <4>2. acc = [rows |-> R, pool |-> p]
          BY <2>3
        <4> HIDE DEF acc, R
        <4>3. StepAt(kind, <<>>, {}, acc, x) = RowTaken(kind, R, p, x)
          BY <4>2, ConsumeStep
        <4> QED BY <3>1, <4>1, <4>3 DEF R
      <3>4. k \in DOMAIN p <=> Cardinality(Held(V, n, k)) < Copies(total, k)
        <4>1. k \in DOMAIN p <=> Copies(p, k) > 0
          BY <2>7, PoolCopies
        <4> HIDE DEF k
        <4> QED BY <2>6, <2>7, <4>1 DEF Rest
      <3>5. CASE TakenAt(V, total, l)
        <4>1. Taking(kind, x) /\ k \in DOMAIN p
          BY <2>4, <2>8, <3>4, <3>5
        <4> DEFINE q == p (-) SetToBag({k})
        <4>2. IsPool(q) /\ \A j : Copies(q, j) = Copies(p, j) - (IF j = k THEN 1 ELSE 0)
          BY <2>7, <4>1, PoolTake
        <4>3. RowTaken(kind, At(file, Kept(n)), p, x) = [rows |-> At(file, Kept(n)), pool |-> q]
          BY <4>1 DEF RowTaken
        <4> HIDE DEF q, k
        <4>4. ASSUME NEW j PROVE Copies(q, j) = Rest(Copies(total, j), Cardinality(Held(V, l, j)))
          <5>1. Cardinality(Held(V, l, j)) = Cardinality(Held(V, n, j)) + (IF k = j THEN 1 ELSE 0)
            BY <2>5, <2>8, <3>5
          <5>2. Copies(p, j) = Rest(Copies(total, j), Cardinality(Held(V, n, j)))
            BY <2>7
          <5>3. j = k => Cardinality(Held(V, n, j)) < Copies(total, j)
            BY <2>8, <3>5
          <5>4. Cardinality(Held(V, n, j)) \in Nat /\ Copies(total, j) \in Nat
            BY <2>6
          <5>5. CASE j = k
            BY <4>2, <5>1, <5>2, <5>3, <5>4, <5>5 DEF Rest
          <5>6. CASE j # k
            BY <4>2, <5>1, <5>2, <5>4, <5>6 DEF Rest
          <5> QED BY <5>5, <5>6
        <4>5. PoolAt(V, total, l, q)
          BY <4>2, <4>4 DEF PoolAt
        <4>6. Good(l)
          <5>1. Kept(l) = Kept(n)
            BY <2>9, <3>5
          <5>2. Consumed(kind, At(file, In(l)), from) = [rows |-> At(file, Kept(l)), pool |-> q]
            BY <3>3, <4>3, <5>1
          <5> QED BY <4>5, <5>2 DEF Good
        <4> QED BY <2>1, <4>6
      <3>6. CASE ~TakenAt(V, total, l)
        <4>1. ~(Taking(kind, x) /\ k \in DOMAIN p)
          BY <2>4, <2>8, <2>11, <3>4, <3>6
        <4>2. RowTaken(kind, At(file, Kept(n)), p, x) = [rows |-> Append(At(file, Kept(n)), x), pool |-> p]
          BY <4>1 DEF RowTaken
        <4>3. At(file, Kept(l)) = Append(At(file, Kept(n)), x)
          <5>1. Kept(l) = Kept(n) \cup {l} /\ \A i \in Kept(n) : i < l
            <6>1. Kept(l) = Kept(n) \cup {l}
              BY <2>9, <2>11, <3>6, Zenon
            <6> QED BY <2>9, <6>1, Zenon
          <5>2. At(file, Kept(n) \cup {l}) = Append(At(file, Kept(n)), file[l])
            BY <2>1, <5>1, AtLater
          <5> QED BY <5>1, <5>2 DEF x
        <4> HIDE DEF k
        <4>4. ASSUME NEW j PROVE Copies(p, j) = Rest(Copies(total, j), Cardinality(Held(V, l, j)))
          <5>1. Cardinality(Held(V, l, j)) = Cardinality(Held(V, n, j)) + (IF l \in V /\ k = j THEN 1 ELSE 0)
            BY <2>5
          <5>2. Copies(p, j) = Rest(Copies(total, j), Cardinality(Held(V, n, j)))
            BY <2>7
          <5>3. l \in V /\ k = j => ~(Cardinality(Held(V, n, j)) < Copies(total, j))
            BY <2>8, <3>6
          <5>4. Cardinality(Held(V, n, j)) \in Nat /\ Copies(total, j) \in Nat
            BY <2>6
          <5> QED BY <5>1, <5>2, <5>3, <5>4 DEF Rest
        <4>5. PoolAt(V, total, l, p)
          BY <2>7, <4>4 DEF PoolAt
        <4>6. Good(l)
          <5>1. Consumed(kind, At(file, In(l)), from) = [rows |-> At(file, Kept(l)), pool |-> p]
            BY <3>3, <4>2, <4>3
          <5> QED BY <4>5, <5>1 DEF Good
        <4> QED BY <2>1, <4>6
      <3> QED BY <3>5, <3>6
    <2> QED BY <2>10, <2>11
  <1>3. hi - a \in Nat /\ a + (hi - a) = hi
    BY <1>0
  <1>4. hi - a \in G
    <2> HIDE DEF G
    <2> QED BY <1>1, <1>2, <1>3, NumberInduction
  <1>5. Good(hi)
    BY <1>3, <1>4
  <1>6. In(hi) = I /\ Kept(hi) = {i \in I : ~TakenAt(V, total, i)}
    <2>1. In(hi) = I
      BY <1>0 DEF In
    <2> QED BY <2>1 DEF Kept
  <1> QED BY <1>5, <1>6 DEF Good

-----------------------------------------------------------------------------
(* The trades that stand, as the scans count them.                         *)

ReversedKey(r) == <<r.bond, r.prday, r.pr>>
CancelsKey(r) == <<r.bond, r.day, r.orig>>
Reverses(r) == profile.net /\ r.asof = "R" /\ Finite(r) /\ r.prday # "bad"
Cancels(r) == r.st # "T" /\ r.orig # NoSeq

CancelledUpTo(n) == {CancelsKey(file[c]) : c \in {c \in Index : c <= n /\ Cancels(file[c])}}
ReversersOf(n, k) == {c \in Index : c <= n /\ Reverses(file[c]) /\ ReversedKey(file[c]) = k}
TotalReversed ==
    [k \in {ReversedKey(file[c]) : c \in Index} |-> Cardinality(ReversersOf(Len(file), k))]

Valids == {i \in Index : Valid(i)}
Nettable == {i \in Valids : profile.net /\ Finite(file[i])}
Lefts == {i \in Valids : ~TakenAt(Nettable, TotalReversed, i)}

SellersOf(n, k) ==
    {j \in Lefts : /\ j <= n /\ profile.dedup /\ file[j].side = "S"
                   /\ Finite(file[j]) /\ ValueKey(file[j]) = k}
TotalSold == [k \in {ValueKey(file[i]) : i \in Index} |-> Cardinality(SellersOf(Len(file), k))]
Buys == {i \in Lefts : file[i].side = "B"}
Uniques == {i \in Lefts : ~TakenAt(Buys, TotalSold, i)}
Clean(days, n) == {i \in Uniques : i <= n /\ file[i] \in Written /\ file[i].day \in days}

LEMMA Totals ==
    ASSUME file \in Seq(Rows), NEW k
    PROVE  /\ Copies(TotalReversed, k) = Cardinality(ReversersOf(Len(file), k))
           /\ Copies(TotalSold, k) = Cardinality(SellersOf(Len(file), k))
           /\ Copies(TotalReversed, k) \in Nat /\ Copies(TotalSold, k) \in Nat
           /\ \A n : /\ IsFiniteSet(ReversersOf(n, k)) /\ Cardinality(ReversersOf(n, k)) \in Nat
                     /\ IsFiniteSet(SellersOf(n, k)) /\ Cardinality(SellersOf(n, k)) \in Nat
  <1>1. Len(file) \in Nat /\ Index = 1 .. Len(file)
    BY LenProperties DEF Index
  <1>2. IsFiniteSet(1 .. Len(file))
    BY <1>1, FS_Interval
  <1>3. Valids \subseteq Index /\ Lefts \subseteq Index
    BY DEF Valids, Lefts
  <1>4. ASSUME NEW n
        PROVE  /\ IsFiniteSet(ReversersOf(n, k)) /\ Cardinality(ReversersOf(n, k)) \in Nat
               /\ IsFiniteSet(SellersOf(n, k)) /\ Cardinality(SellersOf(n, k)) \in Nat
    <2>1. ReversersOf(n, k) \in SUBSET (1 .. Len(file)) /\ SellersOf(n, k) \in SUBSET (1 .. Len(file))
      BY <1>1, <1>3 DEF ReversersOf, SellersOf
    <2>2. IsFiniteSet(ReversersOf(n, k)) /\ IsFiniteSet(SellersOf(n, k))
      BY ONLY <1>2, <2>1, FS_Subset
    <2> QED BY <2>2, FS_CardinalityType
  <1>5. Copies(TotalReversed, k) = Cardinality(ReversersOf(Len(file), k))
    <2>1. CASE k \in {ReversedKey(file[c]) : c \in Index}
      BY <2>1 DEF Copies, TotalReversed
    <2>2. CASE k \notin {ReversedKey(file[c]) : c \in Index}
      <3>1. ReversersOf(Len(file), k) = {}
        BY <2>2 DEF ReversersOf
      <3> QED BY <2>2, <3>1, FS_EmptySet DEF Copies, TotalReversed
    <2> QED BY <2>1, <2>2
  <1>6. Copies(TotalSold, k) = Cardinality(SellersOf(Len(file), k))
    <2>1. CASE k \in {ValueKey(file[i]) : i \in Index}
      BY <2>1 DEF Copies, TotalSold
    <2>2. CASE k \notin {ValueKey(file[i]) : i \in Index}
      <3>1. SellersOf(Len(file), k) = {}
        BY <1>3, <2>2 DEF SellersOf
      <3> QED BY <2>2, <3>1, FS_EmptySet DEF Copies, TotalSold
    <2> QED BY <2>1, <2>2
  <1> QED BY <1>4, <1>5, <1>6

\* Of a row with a parsed date they are those of the specification.
LEMMA StandsIsLeft ==
    ASSUME file \in Seq(Rows), NEW i \in Index, file[i].day # "bad"
    PROVE  Stands(i) <=> i \in Lefts
  <1> DEFINE k == ValueKey(file[i])
  <1>1. Len(file) \in Nat /\ Index = 1 .. Len(file)
    BY LenProperties DEF Index
  <1>2. Nettable \subseteq Index
    BY DEF Nettable, Valids
  <1>3. CASE profile.net /\ Valid(i) /\ Finite(file[i])
    <2>1. {j \in Index : j < i /\ Valid(j) /\ SameValue(i, j)} = Held(Nettable, i - 1, k)
      <3>1. ASSUME NEW j \in Index
            PROVE  j < i /\ Valid(j) /\ SameValue(i, j) <=> j \in Held(Nettable, i - 1, k)
        <4>1. j < i <=> j <= i - 1
          BY <1>1
        <4>2. SameValue(i, j) <=> ValueKey(file[j]) = k
          BY DEF SameValue
        <4>3. ValueKey(file[j]) = k => Finite(file[j])
          BY <1>3 DEF ValueKey, Finite
        <4> HIDE DEF k
        <4> QED BY <1>3, <4>1, <4>2, <4>3 DEF Held, Nettable, Valids
      <3>2. \A j \in Held(Nettable, i - 1, k) : j \in Index
        BY <1>2 DEF Held
      <3> HIDE DEF k
      <3> QED BY <3>1, <3>2
    <2>2. {c \in Index : /\ file[c].asof = "R" /\ Finite(file[c])
                         /\ <<file[c].bond, file[c].prday, file[c].pr>> = ValueKey(file[i])}
              = ReversersOf(Len(file), k)
      <3>1. \A c \in Index : <<file[c].bond, file[c].prday, file[c].pr>> = ValueKey(file[i])
                => file[c].prday # "bad"
        BY DEF ValueKey
      <3>2. \A c \in Index : c <= Len(file)
        BY <1>1
      <3> QED BY <1>3, <3>1, <3>2 DEF ReversersOf, Reverses, ReversedKey
    <2>3. Reversed(i) <=> Cardinality(Held(Nettable, i - 1, k)) < Cardinality(ReversersOf(Len(file), k))
      <3>1. Reversed(i) <=>
                Cardinality({j \in Index : j < i /\ Valid(j) /\ SameValue(i, j)})
                    < Cardinality({c \in Index :
                          /\ file[c].asof = "R" /\ Finite(file[c])
                          /\ <<file[c].bond, file[c].prday, file[c].pr>> = ValueKey(file[i])})
        BY <1>3 DEF Reversed, Count
      <3> HIDE DEF k
      <3> QED BY <2>1, <2>2, <3>1
    <2>4. Copies(TotalReversed, k) = Cardinality(ReversersOf(Len(file), k))
      BY Totals
    <2>5. i \in Nettable /\ i \in Valids
      BY <1>3 DEF Nettable, Valids
    <2> HIDE DEF k
    <2>6. TakenAt(Nettable, TotalReversed, i)
              <=> Cardinality(Held(Nettable, i - 1, k)) < Cardinality(ReversersOf(Len(file), k))
      BY <2>4, <2>5 DEF TakenAt, k
    <2> QED BY <1>3, <2>3, <2>5, <2>6 DEF Stands, Lefts
  <1>4. CASE ~(profile.net /\ Valid(i) /\ Finite(file[i]))
    <2>1. i \notin Nettable
      BY <1>4 DEF Nettable, Valids
    <2>2. ~Reversed(i)
      BY <1>4 DEF Reversed
    <2> QED BY <2>1, <2>2 DEF Stands, Lefts, TakenAt, Valids
  <1> QED BY <1>3, <1>4

LEMMA DuplicateIsTaken ==
    ASSUME file \in Seq(Rows), NEW i \in Index, file[i].day # "bad"
    PROVE  Stands(i) /\ ~Duplicate(i) <=> i \in Uniques
  <1> DEFINE k == ValueKey(file[i])
  <1>1. Len(file) \in Nat /\ Index = 1 .. Len(file)
    BY LenProperties DEF Index
  <1>2. Lefts \subseteq Index /\ Buys \subseteq Index
    BY DEF Lefts, Buys, Valids
  <1>3. Stands(i) <=> i \in Lefts
    BY StandsIsLeft
  <1>4. \A j \in Index : ValueKey(file[j]) = k => (Stands(j) <=> j \in Lefts)
    <2> SUFFICES ASSUME NEW j \in Index, ValueKey(file[j]) = k
                 PROVE  Stands(j) <=> j \in Lefts
      OBVIOUS
    <2>1. file[j].day = file[i].day
      BY DEF ValueKey
    <2> QED BY <2>1, StandsIsLeft
  <1>5. /\ Copies(TotalSold, k) = Cardinality(SellersOf(Len(file), k))
        /\ Cardinality(SellersOf(Len(file), k)) \in Nat
    BY Totals
  <1>6. Cardinality(Held(Buys, i - 1, k)) \in Nat
    BY <1>1, <1>2, HeldFinite
  <1>7. CASE i \notin Lefts
    BY <1>3, <1>7 DEF Uniques
  <1>8. CASE i \in Lefts /\ ~(profile.dedup /\ file[i].side = "B" /\ Finite(file[i]))
    <2>1. ~Duplicate(i)
      BY <1>8 DEF Duplicate
    <2>2. ~TakenAt(Buys, TotalSold, i)
      <3>1. CASE file[i].side # "B"
        BY <3>1 DEF TakenAt, Buys
      <3>2. CASE ~(profile.dedup /\ Finite(file[i]))
        <4>1. SellersOf(Len(file), k) = {}
          BY <3>2 DEF SellersOf, ValueKey, Finite
        <4>2. Copies(TotalSold, k) = 0
          BY <1>5, <4>1, FS_EmptySet
        <4> QED BY <1>6, <4>2 DEF TakenAt
      <3> QED BY <1>8, <3>1, <3>2
    <2> QED BY <1>3, <1>8, <2>1, <2>2 DEF Uniques
  <1>9. CASE i \in Lefts /\ profile.dedup /\ file[i].side = "B" /\ Finite(file[i])
    <2>1. {j \in Index : j < i /\ Stands(j) /\ file[j].side = "B" /\ SameValue(i, j)}
              = Held(Buys, i - 1, k)
      <3>1. ASSUME NEW j \in Index
            PROVE  j < i /\ Stands(j) /\ file[j].side = "B" /\ SameValue(i, j)
                       <=> j \in Held(Buys, i - 1, k)
        <4>1. j < i <=> j <= i - 1
          BY <1>1
        <4>2. SameValue(i, j) <=> ValueKey(file[j]) = k
          BY DEF SameValue
        <4> HIDE DEF k
        <4> QED BY <1>4, <4>1, <4>2 DEF Held, Buys
      <3>2. \A j \in Held(Buys, i - 1, k) : j \in Index
        BY <1>2 DEF Held
      <3> HIDE DEF k
      <3> QED BY <3>1, <3>2
    <2>2. {j \in Index : Stands(j) /\ file[j].side = "S" /\ SameValue(i, j)} = SellersOf(Len(file), k)
      <3>1. ASSUME NEW j \in Index
            PROVE  Stands(j) /\ file[j].side = "S" /\ SameValue(i, j) <=> j \in SellersOf(Len(file), k)
        <4>1. j <= Len(file)
          BY <1>1
        <4>2. SameValue(i, j) <=> ValueKey(file[j]) = k
          BY DEF SameValue
        <4>3. ValueKey(file[j]) = k => Finite(file[j])
          BY <1>9 DEF ValueKey, Finite
        <4> HIDE DEF k
        <4> QED BY <1>4, <1>9, <4>1, <4>2, <4>3 DEF SellersOf
      <3>2. \A j \in SellersOf(Len(file), k) : j \in Index
        BY <1>2 DEF SellersOf
      <3> HIDE DEF k
      <3> QED BY <3>1, <3>2
    <2>3. Duplicate(i) <=> Cardinality(Held(Buys, i - 1, k)) < Cardinality(SellersOf(Len(file), k))
      <3>1. Duplicate(i) <=>
                Cardinality({j \in Index : j < i /\ Stands(j) /\ file[j].side = "B" /\ SameValue(i, j)})
                    < Cardinality({j \in Index : Stands(j) /\ file[j].side = "S" /\ SameValue(i, j)})
        BY <1>3, <1>9 DEF Duplicate, Count
      <3> HIDE DEF k
      <3> QED BY <2>1, <2>2, <3>1
    <2>4. i \in Buys
      BY <1>9 DEF Buys
    <2> HIDE DEF k
    <2>5. TakenAt(Buys, TotalSold, i)
              <=> Cardinality(Held(Buys, i - 1, k)) < Cardinality(SellersOf(Len(file), k))
      BY <1>5, <2>4 DEF TakenAt, k
    <2> QED BY <1>3, <1>9, <2>3, <2>5 DEF Uniques
  <1> QED BY <1>7, <1>8, <1>9

LEMMA CleanIsClean ==
    ASSUME file \in Seq(Rows), NEW days, "bad" \notin days
    PROVE  CleanRows(days) = At(file, Clean(days, Len(file)))
  <1> DEFINE I == {i \in Index : /\ Stands(i) /\ ~Duplicate(i)
                                 /\ ~(profile.screens /\ file[i].screened)
                                 /\ file[i].day \in days}
  <1>1. Len(file) \in Nat /\ Index = 1 .. Len(file) /\ \A i \in Index : file[i] \in Rows
    BY LenProperties, ElementOfSeq DEF Index
  <1>2. CleanRows(days) = At(file, I)
    BY DEF CleanRows
  <1>3. ASSUME NEW i \in Index
        PROVE  i \in I <=> i \in Clean(days, Len(file))
    <2>1. CASE file[i].day \notin days
      BY <2>1 DEF Clean
    <2>2. CASE file[i].day \in days
      <3>1. file[i].day # "bad"
        BY <2>2
      <3>2. Stands(i) /\ ~Duplicate(i) <=> i \in Uniques
        BY <3>1, DuplicateIsTaken
      <3>3. file[i] \in Written <=> ~(profile.screens /\ file[i].screened)
        BY <1>1, <3>1 DEF Written
      <3>4. i <= Len(file)
        BY <1>1
      <3> QED BY <2>2, <3>2, <3>3, <3>4 DEF Clean
    <2> QED BY <2>1, <2>2
  <1>4. I = Clean(days, Len(file))
    <2>1. \A i \in Clean(days, Len(file)) : i \in Index
      BY DEF Clean, Uniques, Lefts, Valids
    <2>2. \A i \in I : i \in Index
      OBVIOUS
    <2> HIDE DEF I
    <2> QED BY <1>3, <2>1, <2>2
  <1> HIDE DEF I
  <1> QED BY <1>2, <1>4

LEMMA Frame ==
    ASSUME UNCHANGED <<file, profile>>
    PROVE  /\ Nettable' = Nettable /\ TotalReversed' = TotalReversed /\ Valids' = Valids
           /\ Lefts' = Lefts /\ Buys' = Buys /\ TotalSold' = TotalSold /\ Uniques' = Uniques
           /\ \A days, n : Clean(days, n)' = Clean(days, n)
           /\ \A n, k : ReversersOf(n, k)' = ReversersOf(n, k) /\ SellersOf(n, k)' = SellersOf(n, k)
           /\ \A n : CancelledUpTo(n)' = CancelledUpTo(n)
           /\ \A V, t, n, p : PoolAt(V, t, n, p)' <=> PoolAt(V, t, n, p)
  <1>1. file' = file /\ profile' = profile /\ Index' = Index
    BY DEF Index
  <1>2. \A i : Valid(i)' <=> Valid(i)
    BY <1>1 DEF Valid, Kept1a, AsofKept
  <1>3. Valids' = Valids
    BY <1>1, <1>2 DEF Valids
  <1>4. Nettable' = Nettable
    BY <1>1, <1>3 DEF Nettable
  <1>5. ASSUME NEW n, NEW k PROVE ReversersOf(n, k)' = ReversersOf(n, k)
    BY <1>1 DEF ReversersOf, Reverses
  <1>6. TotalReversed' = TotalReversed
    BY <1>1, <1>5 DEF TotalReversed
  <1>7. ASSUME NEW V, NEW n, NEW k PROVE Held(V, n, k)' = Held(V, n, k)
    BY <1>1 DEF Held
  <1>8. ASSUME NEW V, NEW t, NEW i PROVE TakenAt(V, t, i)' <=> TakenAt(V, t, i)
    BY <1>1, <1>7 DEF TakenAt
  <1>9. Lefts' = Lefts
    BY <1>3, <1>4, <1>6, <1>8 DEF Lefts
  <1>10. Buys' = Buys
    BY <1>1, <1>9 DEF Buys
  <1>11. ASSUME NEW n, NEW k PROVE SellersOf(n, k)' = SellersOf(n, k)
    BY <1>1, <1>9 DEF SellersOf
  <1>12. TotalSold' = TotalSold
    BY <1>1, <1>11 DEF TotalSold
  <1>13. Uniques' = Uniques
    BY <1>8, <1>9, <1>10, <1>12 DEF Uniques
  <1>14. ASSUME NEW days, NEW n PROVE Clean(days, n)' = Clean(days, n)
    BY <1>1, <1>13 DEF Clean, Written
  <1>15. ASSUME NEW n PROVE CancelledUpTo(n)' = CancelledUpTo(n)
    BY <1>1 DEF CancelledUpTo
  <1>16. ASSUME NEW V, NEW t, NEW n, NEW p PROVE PoolAt(V, t, n, p)' <=> PoolAt(V, t, n, p)
    BY <1>7 DEF PoolAt
  <1> QED BY <1>3, <1>4, <1>5, <1>6, <1>9, <1>10, <1>11, <1>12, <1>13, <1>14, <1>15, <1>16

-----------------------------------------------------------------------------
(* A chunk.                                                                *)

ChunkEnd == IF at + chunk < Len(file) THEN at + chunk ELSE Len(file)
InChunk(I) == {i \in I : at < i /\ i <= ChunkEnd}

Scanning == file \in Seq(Rows) /\ chunk \in Nat \ {0} /\ at \in Nat /\ at <= Len(file)

LEMMA ChunkBounds ==
    ASSUME Scanning
    PROVE  /\ Len(file) \in Nat /\ Index = 1 .. Len(file) /\ \A i \in Index : file[i] \in Rows
           /\ ChunkEnd \in Nat /\ ChunkEnd \in at .. Len(file) /\ at \in 0 .. Len(file)
           /\ at + 1 .. ChunkEnd = InChunk(Index)
           /\ LastChunk => ChunkEnd = Len(file)
           /\ ~LastChunk => ChunkEnd = at + chunk /\ at + chunk <= Len(file)
           /\ ChunkRows = At(file, at + 1 .. ChunkEnd)
  <1>1. Len(file) \in Nat /\ Index = 1 .. Len(file) /\ \A i \in Index : file[i] \in Rows
    BY LenProperties, ElementOfSeq DEF Index, Scanning
  <1>2. /\ ChunkEnd \in Nat /\ ChunkEnd \in at .. Len(file) /\ at \in 0 .. Len(file)
        /\ LastChunk => ChunkEnd = Len(file)
        /\ ~LastChunk => ChunkEnd = at + chunk /\ at + chunk <= Len(file)
    BY <1>1 DEF ChunkEnd, LastChunk, Scanning
  <1>3. at + 1 .. ChunkEnd = InChunk(Index)
    BY <1>1, <1>2 DEF InChunk
  <1>4. ChunkRows = SubSeq(file, at + 1, ChunkEnd)
    BY DEF ChunkRows, ChunkEnd
  <1>5. SubSeq(file, at + 1, ChunkEnd) = At(file, at + 1 .. ChunkEnd)
    BY <1>2, AtInterval DEF Scanning
  <1> QED BY <1>1, <1>2, <1>3, <1>4, <1>5

LEMMA SurvivingAt ==
    ASSUME Scanning, cancelled = CancelledUpTo(Len(file))
    PROVE  Surviving(ChunkRows) = At(file, InChunk(Valids))
  <1>1. /\ Len(file) \in Nat /\ Index = 1 .. Len(file) /\ \A i \in Index : file[i] \in Rows
        /\ ChunkRows = At(file, at + 1 .. ChunkEnd)
        /\ at + 1 .. ChunkEnd = InChunk(Index)
        /\ file \in Seq(Rows)
    BY ChunkBounds DEF Scanning
  <1>2. ChunkRows \in Seq(Rows)
    BY <1>1, AtTyped
  <1>3. Surviving(ChunkRows) = Only(ChunkRows, Survivors)
    BY <1>2, ParityOfFilters
  <1> DEFINE J == {i \in DOMAIN file : i \in InChunk(Index) /\ file[i] \in Survivors}
  <1>4. Only(At(file, InChunk(Index)), Survivors) = At(file, J)
    BY <1>1, Fused
  <1>5. ASSUME NEW i \in Index
        PROVE  file[i] \in Survivors <=> Valid(i)
    <2>1. <<file[i].bond, file[i].day, file[i].seq>> \in cancelled
              <=> \E c \in Index : /\ file[c].st # "T" /\ file[c].orig # NoSeq
                                   /\ <<file[c].bond, file[c].day, file[c].orig>>
                                      = <<file[i].bond, file[i].day, file[i].seq>>
      <3>1. \A c \in Index : c <= Len(file)
        BY <1>1
      <3> QED BY <3>1 DEF CancelledUpTo, CancelsKey, Cancels
    <2>2. file[i] \in Rows
      BY <1>1
    <2> QED BY <2>1, <2>2 DEF Survivors, Valid
  <1>6. J = InChunk(Valids)
    BY <1>1, <1>5 DEF InChunk, Valids, Index
  <1> HIDE DEF J
  <1> QED BY <1>1, <1>3, <1>4, <1>6

LEMMA NettedAt ==
    ASSUME Scanning, cancelled = CancelledUpTo(Len(file)),
           PoolAt(Nettable, TotalReversed, at, pool)
    PROVE  \E p : /\ PoolAt(Nettable, TotalReversed, ChunkEnd, p)
                  /\ Netted = [rows |-> At(file, InChunk(Lefts)), pool |-> p]
  <1> DEFINE I == InChunk(Valids)
             L == {i \in I : ~TakenAt(Nettable, TotalReversed, i)}
  <1>1. /\ Len(file) \in Nat /\ Index = 1 .. Len(file) /\ ChunkEnd \in at .. Len(file)
        /\ at + 1 .. ChunkEnd = InChunk(Index) /\ file \in Seq(Rows) /\ at \in Nat
    BY ChunkBounds DEF Scanning
  <1>2. Surviving(ChunkRows) = At(file, I)
    BY SurvivingAt
  <1>3. L = InChunk(Lefts)
    BY DEF InChunk, Lefts
  <1>4. Valids \subseteq Index
    BY DEF Valids
  <1>5. CASE profile.net
    <2>1. Netted = Consumed("net", At(file, I), pool)
      <3>1. Netted = NetOut(Surviving(ChunkRows), pool)
        BY <1>5 DEF Netted
      <3> QED BY <1>2, <3>1, NetOutIsFold DEF Consumed
    <2>2. I \in SUBSET (at + 1 .. ChunkEnd)
      BY <1>1, <1>4 DEF InChunk
    <2>3. Nettable \in SUBSET DOMAIN file
      BY <1>4 DEF Nettable, Index
    <2>4. \A i \in at + 1 .. ChunkEnd : i \in Nettable <=> i \in I /\ Taking("net", file[i])
      BY <1>1, <1>5 DEF Nettable, InChunk, Taking
    <2>5. \A k : Copies(TotalReversed, k) \in Nat
      BY <1>1, Totals
    <2> HIDE DEF I
    <2>0. /\ file \in Seq(Rows) /\ at \in Nat /\ ChunkEnd \in at .. Len(file)
          /\ "net" \in {"net", "dedup"} /\ PoolAt(Nettable, TotalReversed, at, pool)
      BY <1>1
    <2>a. Ready("net", at, ChunkEnd, I, Nettable, TotalReversed, pool)
      BY ONLY <2>0, <2>2, <2>3, <2>4, <2>5 DEF Ready
    <2>b. ConsumedTo("net", ChunkEnd, I, Nettable, TotalReversed, pool)
      BY <2>a, <2>0, ConsumeAt
    <2>6. \E p : /\ PoolAt(Nettable, TotalReversed, ChunkEnd, p)
                 /\ Consumed("net", At(file, I), pool)
                        = [rows |-> At(file, {i \in I : ~TakenAt(Nettable, TotalReversed, i)}), pool |-> p]
      BY ONLY <2>b DEF ConsumedTo
    <2> QED BY <1>3, <2>1, <2>6
  <1>6. CASE ~profile.net
    <2>1. Nettable = {}
      BY <1>6 DEF Nettable
    <2>2. L = I
      BY <2>1 DEF TakenAt
    <2>3. Netted = [rows |-> At(file, I), pool |-> pool]
      BY <1>2, <1>6 DEF Netted
    <2>4. \A n, k : Held(Nettable, n, k) = {}
      BY <2>1 DEF Held
    <2>5. PoolAt(Nettable, TotalReversed, ChunkEnd, pool)
      BY <2>4 DEF PoolAt
    <2> QED BY <1>3, <2>2, <2>3, <2>5
  <1> QED BY <1>5, <1>6

LEMMA UniqueAt ==
    ASSUME Scanning, cancelled = CancelledUpTo(Len(file)),
           PoolAt(Nettable, TotalReversed, at, pool), PoolAt(Buys, TotalSold, at, sells)
    PROVE  /\ \E p : PoolAt(Buys, TotalSold, ChunkEnd, p)
                     /\ Unique = [rows |-> At(file, InChunk(Uniques)), pool |-> p]
           /\ \A days : /\ PartOf(days) = At(file, InChunk(Clean(days, Len(file))))
                        /\ At(file, Clean(days, ChunkEnd)) = At(file, Clean(days, at)) \o PartOf(days)
  <1>1. /\ Len(file) \in Nat /\ Index = 1 .. Len(file) /\ ChunkEnd \in at .. Len(file)
        /\ at + 1 .. ChunkEnd = InChunk(Index) /\ file \in Seq(Rows) /\ at \in Nat
        /\ \A i \in Index : file[i] \in Rows
    BY ChunkBounds DEF Scanning
  <1>2. Netted.rows = At(file, InChunk(Lefts))
    BY NettedAt
  <1>3. Valids \subseteq Index /\ Lefts \subseteq Index /\ Buys \subseteq Index /\ Uniques \subseteq Index
    BY DEF Valids, Lefts, Buys, Uniques
  <1>4. \E p : PoolAt(Buys, TotalSold, ChunkEnd, p)
               /\ Unique = [rows |-> At(file, InChunk(Uniques)), pool |-> p]
    <2> DEFINE I == InChunk(Lefts)
    <2>1. Unique = Consumed("dedup", At(file, I), sells)
      <3>1. Unique = Dedup(Netted.rows, sells)
        BY DEF Unique
      <3> QED BY <1>2, <3>1, DedupIsFold DEF Consumed
    <2>2. I \in SUBSET (at + 1 .. ChunkEnd)
      BY <1>1, <1>3 DEF InChunk
    <2>3. Buys \in SUBSET DOMAIN file
      BY <1>3 DEF Index
    <2>4. \A i \in at + 1 .. ChunkEnd : i \in Buys <=> i \in I /\ Taking("dedup", file[i])
      BY <1>1 DEF Buys, InChunk, Taking
    <2>5. \A k : Copies(TotalSold, k) \in Nat
      BY <1>1, Totals
    <2>6. {i \in I : ~TakenAt(Buys, TotalSold, i)} = InChunk(Uniques)
      BY DEF InChunk, Uniques
    <2> HIDE DEF I
    <2>0. /\ file \in Seq(Rows) /\ at \in Nat /\ ChunkEnd \in at .. Len(file)
          /\ "dedup" \in {"net", "dedup"} /\ PoolAt(Buys, TotalSold, at, sells)
      BY <1>1
    <2>a. Ready("dedup", at, ChunkEnd, I, Buys, TotalSold, sells)
      BY ONLY <2>0, <2>2, <2>3, <2>4, <2>5 DEF Ready
    <2>b. ConsumedTo("dedup", ChunkEnd, I, Buys, TotalSold, sells)
      BY <2>a, <2>0, ConsumeAt
    <2>7. \E p : /\ PoolAt(Buys, TotalSold, ChunkEnd, p)
                 /\ Consumed("dedup", At(file, I), sells)
                        = [rows |-> At(file, {i \in I : ~TakenAt(Buys, TotalSold, i)}), pool |-> p]
      BY ONLY <2>b DEF ConsumedTo
    <2> QED BY <2>1, <2>6, <2>7
  <1>5. Unique.rows = At(file, InChunk(Uniques))
    BY <1>4
  <1> DEFINE W == {i \in DOMAIN file : i \in InChunk(Uniques) /\ file[i] \in Written}
  <1>6. Dated = At(file, W)
    <2>1. Unique.rows \in Seq(Rows)
      BY <1>1, <1>5, AtTyped
    <2>2. Dated = Only(Unique.rows, Written)
      BY <2>1, ParityOfFilters DEF Dated
    <2>3. Only(At(file, InChunk(Uniques)), Written) = At(file, W)
      BY <1>1, Fused
    <2> HIDE DEF W
    <2> QED BY <1>5, <2>2, <2>3
  <1>7. ASSUME NEW days
        PROVE  PartOf(days) = At(file, InChunk(Clean(days, Len(file))))
    <2> DEFINE J == {i \in DOMAIN file : i \in W /\ file[i] \in On(days)}
    <2>1. J = InChunk(Clean(days, Len(file)))
      <3>1. \A i \in Uniques : i <= Len(file) /\ i \in DOMAIN file /\ file[i] \in Rows
        BY <1>1, <1>3 DEF Index
      <3> QED BY <3>1 DEF InChunk, Clean, On
    <2>2. Dated \in Seq(Rows)
      <3> HIDE DEF W
      <3> QED BY <1>1, <1>6, AtTyped
    <2>3. PartOf(days) = Only(Dated, On(days))
      BY <2>2, ParityOfFilters DEF PartOf
    <2>4. Only(At(file, W), On(days)) = At(file, J)
      <3> HIDE DEF W
      <3> QED BY <1>1, Fused
    <2> HIDE DEF J, W
    <2> QED BY <1>6, <2>1, <2>3, <2>4
  <1> HIDE DEF W
  <1>8. ASSUME NEW days
        PROVE  At(file, Clean(days, ChunkEnd)) = At(file, Clean(days, at)) \o PartOf(days)
    <2> DEFINE A == Clean(days, at)
               B == InChunk(Clean(days, Len(file)))
    <2>1. \A i \in Uniques : i \in Int /\ i <= Len(file)
      BY <1>1, <1>3
    <2>2. Clean(days, ChunkEnd) = A \cup B
      <3>1. \A i \in Uniques : i <= ChunkEnd <=> i <= at \/ (at < i /\ i <= ChunkEnd)
        BY <1>1, <2>1
      <3> QED BY <2>1, <3>1 DEF Clean, InChunk
    <2>3. (\A i \in A : i <= at) /\ \A i \in B : i > at
      BY <1>1, <2>1 DEF Clean, InChunk
    <2> HIDE DEF A, B
    <2>4. At(file, A \cup B) = At(file, A) \o At(file, B)
      <3>1. file \in Seq(Rows) /\ at \in Nat
        BY <1>1
      <3>2. Before(A, B)
        BY <1>1, <2>3 DEF Before
      <3> QED BY ONLY <3>1, <3>2, AtSplit
    <2> QED BY <1>7, <2>2, <2>4 DEF A, B
  <1> QED BY <1>4, <1>7, <1>8

-----------------------------------------------------------------------------
(* The counts of the first two scans.                                      *)

KeyAt(kind, r) == IF kind = "reversed" THEN ReversedKey(r) ELSE ValueKey(r)
Marked(kind, V, n, k) == {j \in V : j <= n /\ KeyAt(kind, file[j]) = k}
KeysAt(kind, rows) == [i \in DOMAIN rows |-> KeyAt(kind, rows[i])]
CountedTo(kind, V, n, B) ==
    IsPool(B) /\ \A k : Copies(B, k) = Cardinality(Marked(kind, V, n, k))
Reversers == {c \in Index : Reverses(file[c])}
Sellers == {j \in Lefts : profile.dedup /\ file[j].side = "S" /\ Finite(file[j])}

LEMMA Marks ==
    /\ \A n, k : ReversersOf(n, k) = Marked("reversed", Reversers, n, k)
    /\ \A n, k : SellersOf(n, k) = Marked("value", Sellers, n, k)
  <1>1. \A n, k : ReversersOf(n, k) = Marked("reversed", Reversers, n, k)
    BY DEF ReversersOf, Marked, Reversers, KeyAt
  <1>2. \A n, k : SellersOf(n, k) = Marked("value", Sellers, n, k)
    BY DEF SellersOf, Marked, Sellers, KeyAt
  <1> QED BY <1>1, <1>2

LEMMA TallyAdds ==
    ASSUME Scanning, NEW kind, NEW V \in SUBSET Index, NEW B, CountedTo(kind, V, at, B)
    PROVE  CountedTo(kind, V, ChunkEnd, B (+) Tally(KeysAt(kind, At(file, InChunk(V)))))
  <1> DEFINE X == At(file, InChunk(V))
             T == Tally(KeysAt(kind, X))
  <1>1. /\ Len(file) \in Nat /\ Index = 1 .. Len(file) /\ ChunkEnd \in at .. Len(file)
        /\ file \in Seq(Rows) /\ at \in Nat /\ DOMAIN file = Index
        /\ \A i \in Index : file[i] \in Rows
    BY ChunkBounds DEF Scanning, Index
  <1>2. X \in Seq(Rows)
    <2> DEFINE I == InChunk(V)
    <2> HIDE DEF I
    <2> QED BY <1>1, AtTyped
  <1>3. Len(X) \in Nat /\ DOMAIN X = 1 .. Len(X) /\ \A p \in 1 .. Len(X) : X[p] \in Rows
    BY <1>2, LenProperties, ElementOfSeq
  <1> HIDE DEF X
  <1>4. KeysAt(kind, X) \in Seq({KeyAt(kind, r) : r \in Rows}) /\ DOMAIN KeysAt(kind, X) = DOMAIN X
        /\ \A p \in DOMAIN X : KeysAt(kind, X)[p] = KeyAt(kind, X[p])
    <2> DEFINE K == {KeyAt(kind, r) : r \in Rows}
               F(p) == KeyAt(kind, X[p])
    <2>1. KeysAt(kind, X) = [p \in 1 .. Len(X) |-> F(p)]
      BY <1>3 DEF KeysAt
    <2>2. \A p \in 1 .. Len(X) : F(p) \in K
      BY <1>3
    <2> HIDE DEF K, F
    <2>3. KeysAt(kind, X) \in Seq(K)
      BY <1>3, <2>1, <2>2, IsASeq
    <2> QED BY <1>3, <2>3 DEF K, KeysAt
  <1>5. IsPool(T) /\ \A k : Copies(T, k) = Cardinality({p \in DOMAIN X : KeysAt(kind, X)[p] = k})
    <2> DEFINE Y == KeysAt(kind, X)
               K == {KeyAt(kind, r) : r \in Rows}
    <2>1. Y \in Seq(K) /\ DOMAIN Y = DOMAIN X
      BY <1>4
    <2> HIDE DEF Y, K
    <2>2. /\ IsPool(Tally(Y))
          /\ \A k : Copies(Tally(Y), k) = Cardinality({p \in DOMAIN Y : Y[p] = k})
      BY <2>1, TallyCounts
    <2> QED BY <2>1, <2>2 DEF Y
  <1>6. IsPool(B) /\ \A k : Copies(B, k) = Cardinality(Marked(kind, V, at, k))
    BY DEF CountedTo
  <1> HIDE DEF T
  <1>7. IsPool(B (+) T) /\ \A k : Copies(B (+) T, k) = Copies(B, k) + Copies(T, k)
    BY <1>5, <1>6, PoolUnion
  <1>8. ASSUME NEW k PROVE Copies(B (+) T, k) = Cardinality(Marked(kind, V, ChunkEnd, k))
    <2> DEFINE Q == {r \in Rows : KeyAt(kind, r) = k}
               D == {i \in DOMAIN file : i \in InChunk(V) /\ file[i] \in Q}
               A == Marked(kind, V, at, k)
    <2>1. {p \in DOMAIN X : KeysAt(kind, X)[p] = k} = {p \in DOMAIN X : X[p] \in Q}
      BY <1>3, <1>4
    <2>2. Cardinality({p \in DOMAIN X : X[p] \in Q}) = Cardinality(D)
      <3> DEFINE I == InChunk(V)
      <3>1. PlacesOf(X, Q) = {p \in DOMAIN X : X[p] \in Q} /\ PlacesIn(file, I, Q) = D
        BY DEF PlacesOf, PlacesIn
      <3>2. X = At(file, I)
        BY DEF X
      <3> HIDE DEF I, Q, D
      <3>3. Cardinality(PlacesOf(At(file, I), Q)) = Cardinality(PlacesIn(file, I, Q))
        BY <1>1, Counted
      <3> QED BY <3>1, <3>2, <3>3
    <2>3. Marked(kind, V, ChunkEnd, k) = A \cup D
      <3>1. \A i \in V : i \in Index /\ (i <= ChunkEnd <=> i <= at \/ (at < i /\ i <= ChunkEnd))
        BY <1>1
      <3> QED BY <1>1, <3>1 DEF Marked, InChunk
    <2>4. A \cap D = {}
      <3>1. \A i \in V : i <= at => ~(at < i)
        BY <1>1
      <3> QED BY <1>1, <3>1 DEF Marked, InChunk
    <2>5. A \in SUBSET (1 .. Len(file)) /\ D \in SUBSET (1 .. Len(file))
      BY <1>1 DEF Marked
    <2> HIDE DEF A, D, Q
    <2>6. IsFiniteSet(A) /\ IsFiniteSet(D)
      <3>1. IsFiniteSet(1 .. Len(file))
        BY <1>1, FS_Interval
      <3> QED BY ONLY <3>1, <2>5, FS_Subset
    <2>7. Cardinality(A \cup D) = Cardinality(A) + Cardinality(D)
      <3>1. Cardinality(A \cup D) = Cardinality(A) + Cardinality(D) - Cardinality(A \cap D)
        BY ONLY <2>6, FS_Union
      <3>2. Cardinality(A) \in Nat /\ Cardinality(D) \in Nat
        BY <2>6, FS_CardinalityType
      <3>3. Cardinality(A \cap D) = 0
        BY <2>4, FS_EmptySet
      <3> QED BY <3>1, <3>2, <3>3
    <2> QED BY <1>5, <1>6, <1>7, <2>1, <2>2, <2>3, <2>7 DEF A
  <1> QED BY <1>7, <1>8 DEF CountedTo, T, X

LEMMA ReversedAt ==
    ASSUME Scanning, CountedTo("reversed", Reversers, at, reversals), Scan1
    PROVE  CountedTo("reversed", Reversers, ChunkEnd, reversals')
  <1> DEFINE reversed == Filtered(ChunkRows, LAMBDA r : Reverses(r))
             Q == {r \in Rows : Reverses(r)}
  <1>1. /\ Len(file) \in Nat /\ Index = 1 .. Len(file) /\ at + 1 .. ChunkEnd = InChunk(Index)
        /\ file \in Seq(Rows) /\ ChunkRows = At(file, at + 1 .. ChunkEnd) /\ DOMAIN file = Index
        /\ \A i \in Index : file[i] \in Rows
    BY ChunkBounds DEF Scanning, Index
  <1>2. ChunkRows \in Seq(Rows)
    BY <1>1, AtTyped
  <1>3. \A i \in DOMAIN ChunkRows : ChunkRows[i] \in Rows
    BY <1>2, ElementOfSeq, LenProperties
  <1>4. reversals' = reversals (+) Tally([i \in DOMAIN reversed |->
                         <<reversed[i].bond, reversed[i].prday, reversed[i].pr>>])
    BY DEF Scan1, Reverses
  <1>5. reversed = Only(ChunkRows, Q)
    <2>1. {i \in DOMAIN ChunkRows : Reverses(ChunkRows[i])} = {i \in DOMAIN ChunkRows : ChunkRows[i] \in Q}
      BY <1>3
    <2> QED BY <2>1 DEF Filtered, Only
  <1> DEFINE J == {i \in DOMAIN file : i \in InChunk(Index) /\ file[i] \in Q}
  <1>6. J = InChunk(Reversers)
    BY <1>1 DEF InChunk, Reversers
  <1> HIDE DEF Q, reversed
  <1>7. Only(At(file, InChunk(Index)), Q) = At(file, J)
    BY <1>1, Fused
  <1> HIDE DEF J
  <1>8. reversed = At(file, InChunk(Reversers))
    BY <1>1, <1>5, <1>6, <1>7
  <1>9. reversals' = reversals (+) Tally(KeysAt("reversed", reversed))
    BY <1>4 DEF KeysAt, KeyAt, ReversedKey
  <1>10. Reversers \in SUBSET Index
    BY DEF Reversers
  <1> QED BY <1>8, <1>9, <1>10, TallyAdds

LEMMA CancelledAt ==
    ASSUME Scanning, cancelled = CancelledUpTo(at), Scan1
    PROVE  cancelled' = CancelledUpTo(ChunkEnd)
  <1>1. /\ Len(file) \in Nat /\ Index = 1 .. Len(file) /\ ChunkEnd \in at .. Len(file) /\ at \in Nat
    BY ChunkBounds DEF Scanning
  <1>2. ToSet(ChunkRows) = {file[i] : i \in InChunk(Index)}
    <2> DEFINE K == 1 .. ChunkEnd - at
    <2>1. ChunkRows = [i \in K |-> file[at + i]]
      <3>1. ChunkRows = SubSeq(file, at + 1, ChunkEnd)
        BY DEF ChunkRows, ChunkEnd
      <3>2. SubSeq(file, at + 1, ChunkEnd) = [i \in 1 .. ChunkEnd - (at + 1) + 1 |-> file[i + (at + 1) - 1]]
        BY <1>1
      <3> QED BY <1>1, <3>1, <3>2
    <2>2. ToSet(ChunkRows) = {file[at + i] : i \in K}
      BY <2>1 DEF ToSet
    <2>3. \A i \in K : at + i \in InChunk(Index)
      BY <1>1 DEF InChunk
    <2>4. \A i \in InChunk(Index) : i - at \in K /\ at + (i - at) = i
      BY <1>1 DEF InChunk
    <2>5. {file[at + i] : i \in K} = {file[i] : i \in InChunk(Index)}
      <3> HIDE DEF K
      <3> QED BY <2>3, <2>4
    <2> QED BY <2>2, <2>5
  <1>3. cancelled' = cancelled \cup {CancelsKey(r) : r \in {s \in ToSet(ChunkRows) : Cancels(s)}}
    BY DEF Scan1, CancelsKey, Cancels
  <1>4. \A i \in Index : i <= ChunkEnd <=> i <= at \/ i \in InChunk(Index)
    BY <1>1 DEF InChunk
  <1>5. InChunk(Index) \subseteq Index
    BY DEF InChunk
  <1> HIDE DEF CancelsKey, Cancels
  <1>6. {CancelsKey(r) : r \in {s \in ToSet(ChunkRows) : Cancels(s)}}
            = {CancelsKey(file[c]) : c \in {c \in InChunk(Index) : Cancels(file[c])}}
    BY <1>2
  <1>7. CancelledUpTo(ChunkEnd) = CancelledUpTo(at)
            \cup {CancelsKey(file[c]) : c \in {c \in InChunk(Index) : Cancels(file[c])}}
    BY <1>4, <1>5 DEF CancelledUpTo
  <1> QED BY <1>3, <1>6, <1>7

LEMMA SoldAt ==
    ASSUME Scanning, cancelled = CancelledUpTo(Len(file)),
           PoolAt(Nettable, TotalReversed, at, pool), profile.dedup,
           CountedTo("value", Sellers, at, sells), Scan2
    PROVE  CountedTo("value", Sellers, ChunkEnd, sells')
  <1>1. /\ Len(file) \in Nat /\ Index = 1 .. Len(file) /\ file \in Seq(Rows) /\ DOMAIN file = Index
        /\ \A i \in Index : file[i] \in Rows
    BY ChunkBounds DEF Scanning, Index
  <1>2. Netted.rows = At(file, InChunk(Lefts))
    BY NettedAt
  <1>3. sells' = sells (+) Tally(KeysOf(FiniteSells(Netted.rows)))
    BY DEF Scan2, Netted
  <1>4. FiniteSells(Netted.rows) = Only(Netted.rows, SellSide)
    <2>1. Netted.rows \in Seq(Rows)
      BY <1>1, <1>2, AtTyped
    <2> QED BY <2>1, ParityOfFilters
  <1> DEFINE J == {i \in DOMAIN file : i \in InChunk(Lefts) /\ file[i] \in SellSide}
  <1>5. J = InChunk(Sellers)
    <2>1. Lefts \subseteq Index
      BY DEF Lefts, Valids
    <2> QED BY <1>1, <2>1 DEF InChunk, Sellers, SellSide
  <1>6. Only(At(file, InChunk(Lefts)), SellSide) = At(file, J)
    BY <1>1, Fused
  <1> HIDE DEF J
  <1>7. FiniteSells(Netted.rows) = At(file, InChunk(Sellers))
    BY <1>2, <1>4, <1>5, <1>6
  <1>8. sells' = sells (+) Tally(KeysAt("value", FiniteSells(Netted.rows)))
    BY <1>3 DEF KeysAt, KeyAt, KeysOf
  <1>9. Sellers \in SUBSET Index
    BY DEF Sellers, Lefts, Valids
  <1> QED BY <1>7, <1>8, <1>9, TallyAdds

-----------------------------------------------------------------------------
(* The output files.                                                       *)

\* What an output file is when `rows` of this run are for it.
OutAt(f, rows, s) ==
    IF rows = <<>> THEN f \in Leftovers ELSE f = [state |-> s, rows |-> rows]

LEMMA LeftoverStates ==
    ASSUME NEW f \in Leftovers
    PROVE  \/ f = [state |-> "absent", rows |-> <<>>]
           \/ f = [state |-> "whole", rows |-> <<OldRow>>]
           \/ f = [state |-> "torn", rows |-> <<OldRow>>]
  BY DEF Leftovers, Absent, Whole

LEMMA WriteOut ==
    ASSUME NEW f, NEW rows \in Seq(Rows), NEW x \in Seq(Rows), OutAt(f, rows, "open")
    PROVE  OutAt(Write(f, x), rows \o x, "open")
  <1>1. CASE x = <<>>
    <2>1. Write(f, x) = f
      BY <1>1 DEF Write
    <2>2. rows \o x = rows
      BY <1>1, ConcatEmptySeq
    <2> QED BY <2>1, <2>2
  <1>2. CASE x # <<>> /\ rows = <<>>
    <2>1. f.state # "open"
      BY <1>2, LeftoverStates DEF OutAt
    <2>2. rows \o x = x /\ <<>> \o x = x
      BY <1>2, ConcatEmptySeq
    <2>3. Write(f, x) = [state |-> "open", rows |-> x]
      BY <1>2, <2>1, <2>2 DEF Write
    <2> QED BY <1>2, <2>2, <2>3 DEF OutAt
  <1>3. CASE x # <<>> /\ rows # <<>>
    <2>1. f = [state |-> "open", rows |-> rows]
      BY <1>3 DEF OutAt
    <2>2. Write(f, x) = [state |-> "open", rows |-> rows \o x]
      BY <1>3, <2>1 DEF Write
    <2>3. rows \o x # <<>>
      <3>1. Len(rows) # 0 /\ Len(rows) \in Nat /\ Len(x) \in Nat
        BY <1>3, EmptySeq, LenProperties
      <3>2. Len(rows \o x) = Len(rows) + Len(x)
        BY ConcatProperties
      <3> QED BY <3>1, <3>2, EmptySeq
    <2> QED BY <2>2, <2>3 DEF OutAt
  <1> QED BY <1>1, <1>2, <1>3

LEMMA ClosedOut ==
    ASSUME NEW f, NEW rows, OutAt(f, rows, "open")
    PROVE  OutAt(Closed(f), rows, "whole")
  <1>1. CASE rows = <<>>
    <2>1. Closed(f) = f
      BY <1>1, LeftoverStates DEF Closed, OutAt
    <2> QED BY <1>1, <2>1 DEF OutAt
  <1>2. CASE rows # <<>>
    <2>1. f = [state |-> "open", rows |-> rows]
      BY <1>2 DEF OutAt
    <2>2. f \in [state : {"open"}, rows : {rows}]
      BY <2>1
    <2>3. [f EXCEPT !.state = "whole"] = [state |-> "whole", rows |-> rows]
      BY <2>2
    <2>4. Closed(f) = [state |-> "whole", rows |-> rows]
      BY <2>1, <2>3 DEF Closed
    <2> QED BY <1>2, <2>4 DEF OutAt
  <1> QED BY <1>1, <1>2

\* The comparison of the row counts with the counters.
Agrees(f, n) == f.state = "absent" \/ (f.state = "whole" /\ Len(f.rows) = n)

LEMMA AgreesIsExact ==
    ASSUME NEW f, NEW rows, OutAt(f, rows, "whole"), Agrees(f, Len(rows))
    PROVE  f.rows = rows
  <1>1. CASE rows = <<>>
    <2>1. f.state # "torn" /\ (f.state = "whole" => Len(<<OldRow>>) = Len(<<>>))
      BY <1>1, LeftoverStates DEF OutAt, Agrees
    <2>2. Len(<<OldRow>>) = 1 /\ Len(<<>>) = 0
      OBVIOUS
    <2> QED BY <1>1, <2>1, <2>2, LeftoverStates DEF OutAt
  <1>2. CASE rows # <<>>
    BY <1>2 DEF OutAt
  <1> QED BY <1>1, <1>2

\* The clean rows of a partition before a position.
CleanAt(days, n) == At(file, Clean(days, n))
Writing(n, s, d, h, w) ==
    /\ OutAt(d, CleanAt(DevDays, n), s) /\ OutAt(h, CleanAt({"holdout"}, n), s)
    /\ w = [dev |-> Len(CleanAt(DevDays, n)), hold |-> Len(CleanAt({"holdout"}, n))]

LEMMA WritingStarts ==
    ASSUME file \in Seq(Rows), NEW d \in Leftovers, NEW h \in Leftovers, NEW w,
           w = [dev |-> 0, hold |-> 0]
    PROVE  Writing(0, "open", d, h, w)
  <1>1. ASSUME NEW days PROVE CleanAt(days, 0) = <<>>
    <2>1. Index = 1 .. Len(file) /\ Len(file) \in Nat /\ DOMAIN file = Index
      BY LenProperties DEF Index
    <2>2. \A i \in DOMAIN file : i \notin Clean(days, 0)
      BY <2>1 DEF Clean
    <2> QED BY <2>2, AtOutside DEF CleanAt
  <1>2. Len(<<>>) = 0
    OBVIOUS
  <1>3. CleanAt(DevDays, 0) = <<>> /\ CleanAt({"holdout"}, 0) = <<>>
    BY <1>1
  <1> QED BY <1>2, <1>3 DEF Writing, OutAt

LEMMA PartWritten ==
    ASSUME Scanning, cancelled = CancelledUpTo(Len(file)),
           PoolAt(Nettable, TotalReversed, at, pool), PoolAt(Buys, TotalSold, at, sells),
           NEW days, NEW f, OutAt(f, CleanAt(days, at), "open")
    PROVE  /\ OutAt(Write(f, PartOf(days)), CleanAt(days, ChunkEnd), "open")
           /\ OutAt(Closed(Write(f, PartOf(days))), CleanAt(days, ChunkEnd), "whole")
           /\ Len(CleanAt(days, ChunkEnd)) = Len(CleanAt(days, at)) + Len(PartOf(days))
  <1>1. CleanAt(days, ChunkEnd) = CleanAt(days, at) \o PartOf(days)
    BY UniqueAt DEF CleanAt
  <1>2. CleanAt(days, at) \in Seq(Rows)
    <2>1. file \in Seq(Rows)
      BY DEF Scanning
    <2> QED BY <2>1, AtTyped DEF CleanAt
  <1>3. PartOf(days) \in Seq(Rows)
    <2>1. file \in Seq(Rows) /\ at \in Nat /\ chunk \in Nat
      BY DEF Scanning
    <2> QED BY <2>1, PiecesTyped
  <1>4. OutAt(Write(f, PartOf(days)), CleanAt(days, ChunkEnd), "open")
    BY <1>1, <1>2, <1>3, WriteOut
  <1>5. OutAt(Closed(Write(f, PartOf(days))), CleanAt(days, ChunkEnd), "whole")
    BY <1>4, ClosedOut
  <1>6. Len(CleanAt(days, ChunkEnd)) = Len(CleanAt(days, at)) + Len(PartOf(days))
    BY <1>1, <1>2, <1>3, ConcatProperties
  <1> QED BY <1>4, <1>5, <1>6

\* Pass 2 does to the files what it should, unless it raises.
LEMMA ChunkWritten ==
    ASSUME Scanning, cancelled = CancelledUpTo(Len(file)),
           PoolAt(Nettable, TotalReversed, at, pool), PoolAt(Buys, TotalSold, at, sells),
           Writing(at, "open", dev, hold, written), Pass2, pc' # "failed"
    PROVE  /\ PoolAt(Nettable, TotalReversed, ChunkEnd, pool')
           /\ PoolAt(Buys, TotalSold, ChunkEnd, sells')
           /\ Writing(ChunkEnd, IF LastChunk THEN "whole" ELSE "open", dev', hold', written')
  <1>1. /\ pool' = Netted.pool /\ sells' = Unique.pool
        /\ PartOf({"beyond"}) = <<>>
        /\ dev' = (IF LastChunk THEN Closed(Write(dev, PartOf(DevDays))) ELSE Write(dev, PartOf(DevDays)))
        /\ hold' = (IF LastChunk THEN Closed(Write(hold, PartOf({"holdout"})))
                    ELSE Write(hold, PartOf({"holdout"})))
        /\ written' = [dev |-> written.dev + Len(PartOf(DevDays)),
                       hold |-> written.hold + Len(PartOf({"holdout"}))]
    <2>1. PartOf({"beyond"}) = <<>>
      BY DEF Pass2, Netted, Unique, Dated, PartOf
    <2>2. pool' = Netted.pool /\ sells' = Unique.pool
      BY DEF Pass2, Netted, Unique
    <2>3. dev' = (IF LastChunk THEN Closed(Write(dev, PartOf(DevDays))) ELSE Write(dev, PartOf(DevDays)))
      BY <2>1 DEF Pass2, Netted, Unique, Dated, PartOf
    <2>4. hold' = (IF LastChunk THEN Closed(Write(hold, PartOf({"holdout"})))
                   ELSE Write(hold, PartOf({"holdout"})))
      BY <2>1 DEF Pass2, Netted, Unique, Dated, PartOf
    <2>5. written' = [dev |-> written.dev + Len(PartOf(DevDays)),
                      hold |-> written.hold + Len(PartOf({"holdout"}))]
      BY <2>1 DEF Pass2, Netted, Unique, Dated, PartOf
    <2> QED BY <2>1, <2>2, <2>3, <2>4, <2>5
  <1>2. PoolAt(Nettable, TotalReversed, ChunkEnd, pool')
    <2>1. PICK p : /\ PoolAt(Nettable, TotalReversed, ChunkEnd, p)
                   /\ Netted = [rows |-> At(file, InChunk(Lefts)), pool |-> p]
      BY NettedAt
    <2> QED BY <1>1, <2>1
  <1>3. PoolAt(Buys, TotalSold, ChunkEnd, sells')
    <2>1. PICK p : /\ PoolAt(Buys, TotalSold, ChunkEnd, p)
                   /\ Unique = [rows |-> At(file, InChunk(Uniques)), pool |-> p]
      BY UniqueAt
    <2> QED BY <1>1, <2>1
  <1>4. /\ OutAt(dev, CleanAt(DevDays, at), "open") /\ OutAt(hold, CleanAt({"holdout"}, at), "open")
        /\ written.dev = Len(CleanAt(DevDays, at)) /\ written.hold = Len(CleanAt({"holdout"}, at))
    BY DEF Writing
  <1>5. /\ OutAt(Write(dev, PartOf(DevDays)), CleanAt(DevDays, ChunkEnd), "open")
        /\ OutAt(Closed(Write(dev, PartOf(DevDays))), CleanAt(DevDays, ChunkEnd), "whole")
        /\ Len(CleanAt(DevDays, ChunkEnd)) = Len(CleanAt(DevDays, at)) + Len(PartOf(DevDays))
    BY <1>4, PartWritten
  <1>6. /\ OutAt(Write(hold, PartOf({"holdout"})), CleanAt({"holdout"}, ChunkEnd), "open")
        /\ OutAt(Closed(Write(hold, PartOf({"holdout"}))), CleanAt({"holdout"}, ChunkEnd), "whole")
        /\ Len(CleanAt({"holdout"}, ChunkEnd)) = Len(CleanAt({"holdout"}, at)) + Len(PartOf({"holdout"}))
    BY <1>4, PartWritten
  <1>7. Writing(ChunkEnd, IF LastChunk THEN "whole" ELSE "open", dev', hold', written')
    BY <1>1, <1>4, <1>5, <1>6 DEF Writing
  <1> QED BY <1>2, <1>3, <1>7

-----------------------------------------------------------------------------
(* The invariant of the scans.                                             *)

Untouched(d, h, w) == d \in Leftovers /\ h \in Leftovers /\ w = [dev |-> 0, hold |-> 0]
ScanState(p, n, can, revs, pl, sl, d, h, w) ==
    /\ p \in {"scan1", "scan2", "pass2"} => n \in Nat /\ n <= Len(file)
    /\ p \in {"scan1", "scan2"} => Untouched(d, h, w)
    /\ p = "scan1" => /\ can = CancelledUpTo(n)
                      /\ CountedTo("reversed", Reversers, n, revs)
                      /\ sl = EmptyBag
    /\ p \in {"scan2", "pass2"} => /\ can = CancelledUpTo(Len(file))
                                   /\ PoolAt(Nettable, TotalReversed, n, pl)
                                   /\ PoolAt(Nettable, TotalReversed, 0, revs)
    /\ p = "scan2" => profile.dedup /\ CountedTo("value", Sellers, n, sl)
    /\ p = "pass2" => PoolAt(Buys, TotalSold, n, sl) /\ Writing(n, "open", d, h, w)
    /\ p = "verify" => Writing(Len(file), "whole", d, h, w)
    /\ p = "cleaned" => /\ d.rows = CleanAt(DevDays, Len(file))
                        /\ h.rows = CleanAt({"holdout"}, Len(file))

CleanInv ==
    /\ file \in Seq(Rows) /\ chunk \in Nat \ {0}
    /\ ScanState(pc, at, cancelled, reversals, pool, sells, dev, hold, written)

LEMMA ScanFrame ==
    ASSUME UNCHANGED <<file, profile>>,
           ScanState(pc', at', cancelled', reversals', pool', sells', dev', hold', written')
    PROVE  ScanState(pc, at, cancelled, reversals, pool, sells, dev, hold, written)'
  <1>1. /\ file' = file /\ profile' = profile
        /\ Nettable' = Nettable /\ TotalReversed' = TotalReversed /\ Lefts' = Lefts
        /\ Buys' = Buys /\ TotalSold' = TotalSold /\ Uniques' = Uniques /\ Index' = Index
    BY Frame DEF Index
  <1>2. Reversers' = Reversers /\ Sellers' = Sellers
    BY <1>1 DEF Reversers, Sellers, Reverses, Finite
  <1>3. PoolAt(Nettable, TotalReversed, at', pool') => PoolAt(Nettable, TotalReversed, at, pool)'
    BY <1>1 DEF PoolAt, Held
  <1>4. PoolAt(Nettable, TotalReversed, 0, reversals') => PoolAt(Nettable, TotalReversed, 0, reversals)'
    BY <1>1 DEF PoolAt, Held
  <1>5. PoolAt(Buys, TotalSold, at', sells') => PoolAt(Buys, TotalSold, at, sells)'
    BY <1>1 DEF PoolAt, Held
  <1>6. CountedTo("reversed", Reversers, at', reversals') => CountedTo("reversed", Reversers, at, reversals)'
    BY <1>1, <1>2 DEF CountedTo, Marked
  <1>7. CountedTo("value", Sellers, at', sells') => CountedTo("value", Sellers, at, sells)'
    BY <1>1, <1>2 DEF CountedTo, Marked
  <1>8. CancelledUpTo(at)' = CancelledUpTo(at') /\ CancelledUpTo(Len(file))' = CancelledUpTo(Len(file))
    BY <1>1 DEF CancelledUpTo
  <1>9. /\ CleanAt(DevDays, Len(file))' = CleanAt(DevDays, Len(file))
        /\ CleanAt({"holdout"}, Len(file))' = CleanAt({"holdout"}, Len(file))
        /\ CleanAt(DevDays, at)' = CleanAt(DevDays, at')
        /\ CleanAt({"holdout"}, at)' = CleanAt({"holdout"}, at')
    BY <1>1 DEF CleanAt, Clean, Written
  <1>10. Writing(at', "open", dev', hold', written') => Writing(at, "open", dev, hold, written)'
    BY <1>9 DEF Writing
  <1>11. Writing(Len(file), "whole", dev', hold', written') => Writing(Len(file), "whole", dev, hold, written)'
    BY <1>9 DEF Writing
  <1> QED BY <1>1, <1>3, <1>4, <1>5, <1>6, <1>7, <1>8, <1>9, <1>10, <1>11 DEF ScanState, Untouched

LEMMA ScansStart == Init => CleanInv
  <1> SUFFICES ASSUME Init PROVE CleanInv
    OBVIOUS
  <1>1. /\ file \in Seq(Rows) /\ chunk \in Nat \ {0} /\ pc = "scan1" /\ at = 0 /\ cancelled = {}
        /\ reversals = EmptyBag /\ sells = EmptyBag
        /\ dev \in Leftovers /\ hold \in Leftovers /\ written = [dev |-> 0, hold |-> 0]
    BY FileAssumption DEF Init, Leftovers
  <1>2. Len(file) \in Nat /\ Index = 1 .. Len(file) /\ \A i \in Index : ~(i <= 0)
    BY <1>1, LenProperties DEF Index
  <1>3. CancelledUpTo(0) = {}
    BY <1>2 DEF CancelledUpTo
  <1>4. CountedTo("reversed", Reversers, 0, EmptyBag)
    <2>1. \A k : Marked("reversed", Reversers, 0, k) = {}
      BY <1>2 DEF Marked, Reversers
    <2> QED BY <2>1, EmptyPool, FS_EmptySet DEF CountedTo
  <1> QED BY <1>1, <1>2, <1>3, <1>4 DEF CleanInv, ScanState, Untouched

\* A pool with the total of every value is the one at the start of a scan.
LEMMA PoolStarts ==
    ASSUME file \in Seq(Rows), NEW B
    PROVE  /\ CountedTo("reversed", Reversers, Len(file), B) => PoolAt(Nettable, TotalReversed, 0, B)
           /\ CountedTo("value", Sellers, Len(file), B) => PoolAt(Buys, TotalSold, 0, B)
           /\ ~profile.dedup /\ B = EmptyBag => CountedTo("value", Sellers, Len(file), B)
  <1>1. \A k : Held(Nettable, 0, k) = {} /\ Held(Buys, 0, k) = {}
    <2>1. Len(file) \in Nat /\ Index = 1 .. Len(file) /\ \A i \in Index : ~(i <= 0)
      BY LenProperties DEF Index
    <2>2. Nettable \subseteq Index /\ Buys \subseteq Index
      BY DEF Nettable, Buys, Lefts, Valids
    <2> QED BY <2>1, <2>2 DEF Held
  <1>2. Cardinality({}) = 0
    BY FS_EmptySet
  <1>3. \A c \in Nat : Rest(c, 0) = c
    BY DEF Rest
  <1>4. CountedTo("reversed", Reversers, Len(file), B) => PoolAt(Nettable, TotalReversed, 0, B)
    <2> SUFFICES ASSUME CountedTo("reversed", Reversers, Len(file), B)
                 PROVE  PoolAt(Nettable, TotalReversed, 0, B)
      OBVIOUS
    <2>1. ASSUME NEW k PROVE Copies(B, k) = Rest(Copies(TotalReversed, k), Cardinality(Held(Nettable, 0, k)))
      <3>1. Copies(B, k) = Copies(TotalReversed, k) /\ Copies(TotalReversed, k) \in Nat
        BY Totals, Marks DEF CountedTo
      <3> QED BY <1>1, <1>2, <1>3, <3>1
    <2> QED BY <2>1 DEF PoolAt, CountedTo
  <1>5. CountedTo("value", Sellers, Len(file), B) => PoolAt(Buys, TotalSold, 0, B)
    <2> SUFFICES ASSUME CountedTo("value", Sellers, Len(file), B)
                 PROVE  PoolAt(Buys, TotalSold, 0, B)
      OBVIOUS
    <2>1. ASSUME NEW k PROVE Copies(B, k) = Rest(Copies(TotalSold, k), Cardinality(Held(Buys, 0, k)))
      <3>1. Copies(B, k) = Copies(TotalSold, k) /\ Copies(TotalSold, k) \in Nat
        BY Totals, Marks DEF CountedTo
      <3> QED BY <1>1, <1>2, <1>3, <3>1
    <2> QED BY <2>1 DEF PoolAt, CountedTo
  <1>6. ~profile.dedup /\ B = EmptyBag => CountedTo("value", Sellers, Len(file), B)
    <2> SUFFICES ASSUME ~profile.dedup, B = EmptyBag PROVE CountedTo("value", Sellers, Len(file), B)
      OBVIOUS
    <2>1. \A k : Marked("value", Sellers, Len(file), k) = {}
      BY DEF Marked, Sellers
    <2> QED BY <1>2, <2>1, EmptyPool DEF CountedTo
  <1> QED BY <1>4, <1>5, <1>6

LEMMA CleanSteps ==
    CleanInv /\ [Next]_vars => CleanInv'
  <1> SUFFICES ASSUME CleanInv, [Next]_vars PROVE CleanInv'
    OBVIOUS
  <1> DEFINE Now == ScanState(pc, at, cancelled, reversals, pool, sells, dev, hold, written)
             Then == ScanState(pc', at', cancelled', reversals', pool', sells', dev', hold', written')
  <1>0. file \in Seq(Rows) /\ chunk \in Nat \ {0} /\ Now
    BY DEF CleanInv
  <1>a. ASSUME UNCHANGED <<file, profile, chunk>>, Then PROVE CleanInv'
    <2>1. ScanState(pc, at, cancelled, reversals, pool, sells, dev, hold, written)'
      BY <1>a, ScanFrame
    <2> QED BY <1>0, <1>a, <2>1 DEF CleanInv
  <1>b. ASSUME UNCHANGED <<file, profile, chunk>>,
               pc' \notin {"scan1", "scan2", "pass2", "verify", "cleaned"}
        PROVE  CleanInv'
    <2>1. Then
      BY <1>b DEF ScanState
    <2> QED BY <1>a, <1>b, <2>1
  <1>c. pc \in {"scan1", "scan2", "pass2"} => Scanning
    BY <1>0 DEF ScanState, Scanning
  <1>1. CASE Scan1
    <2>0. /\ pc = "scan1" /\ UNCHANGED <<file, profile, chunk, sells, dev, hold, written>>
          /\ LastChunk => /\ pc' = (IF profile.dedup THEN "scan2" ELSE "pass2")
                          /\ at' = 0 /\ pool' = reversals'
          /\ ~LastChunk => at' = at + chunk /\ pc' = "scan1"
      BY <1>1 DEF Scan1, inputVars, outVars
    <2>1. Scanning /\ Untouched(dev, hold, written) /\ sells = EmptyBag
          /\ cancelled = CancelledUpTo(at) /\ CountedTo("reversed", Reversers, at, reversals)
      BY <1>0, <1>c, <2>0 DEF ScanState
    <2>2. cancelled' = CancelledUpTo(ChunkEnd) /\ CountedTo("reversed", Reversers, ChunkEnd, reversals')
      BY <1>1, <2>1, CancelledAt, ReversedAt
    <2>3. /\ Len(file) \in Nat /\ LastChunk => ChunkEnd = Len(file)
      BY <2>1, ChunkBounds
    <2>4. ~LastChunk => ChunkEnd = at + chunk /\ at + chunk <= Len(file) /\ ChunkEnd \in Nat
      BY <2>1, ChunkBounds
    <2>5. Untouched(dev', hold', written')
      BY <2>0, <2>1 DEF Untouched
    <2>6. CASE LastChunk
      <3>1. Len(file) \in Nat /\ ChunkEnd = Len(file)
        BY <2>1, <2>6, ChunkBounds
      <3>2. PoolAt(Nettable, TotalReversed, 0, reversals')
        BY <1>0, <2>2, <3>1, PoolStarts
      <3>3. CASE profile.dedup
        <4>1. CountedTo("value", Sellers, 0, sells')
          <5>1. \A k : Marked("value", Sellers, 0, k) = {}
            <6>1. Index = 1 .. Len(file) /\ \A i \in Index : ~(i <= 0)
              BY <1>0, <3>1, LenProperties DEF Index
            <6> QED BY <6>1 DEF Marked, Sellers, Lefts, Valids
          <5> QED BY <2>0, <2>1, <5>1, EmptyPool, FS_EmptySet DEF CountedTo
        <4>2. Then
          BY <2>0, <2>2, <2>5, <2>6, <3>1, <3>2, <3>3, <4>1 DEF ScanState
        <4> QED BY <1>a, <2>0, <4>2
      <3>4. CASE ~profile.dedup
        <4>1. PoolAt(Buys, TotalSold, 0, sells')
          <5>1. CountedTo("value", Sellers, Len(file), sells')
            BY <1>0, <2>0, <2>1, <3>4, PoolStarts
          <5> QED BY <1>0, <5>1, PoolStarts
        <4>2. Writing(0, "open", dev', hold', written')
          BY <1>0, <2>5, WritingStarts DEF Untouched
        <4>3. Then
          BY <2>0, <2>2, <2>6, <3>1, <3>2, <3>4, <4>1, <4>2 DEF ScanState
        <4> QED BY <1>a, <2>0, <4>3
      <3> QED BY <3>3, <3>4
    <2>7. CASE ~LastChunk
      <3>1. Then
        BY <2>0, <2>1, <2>2, <2>4, <2>5, <2>7 DEF ScanState
      <3> QED BY <1>a, <2>0, <3>1
    <2> QED BY <2>6, <2>7
  <1>2. CASE Scan2
    <2>0. /\ pc = "scan2" /\ UNCHANGED <<file, profile, chunk, cancelled, reversals, dev, hold, written>>
          /\ LastChunk => pc' = "pass2" /\ at' = 0 /\ pool' = reversals
          /\ ~LastChunk => at' = at + chunk /\ pc' = "scan2" /\ pool' = Netted.pool
      BY <1>2 DEF Scan2, inputVars, outVars, Netted
    <2>1. /\ Scanning /\ Untouched(dev, hold, written) /\ profile.dedup
          /\ cancelled = CancelledUpTo(Len(file)) /\ CountedTo("value", Sellers, at, sells)
          /\ PoolAt(Nettable, TotalReversed, at, pool) /\ PoolAt(Nettable, TotalReversed, 0, reversals)
      BY <1>0, <1>c, <2>0 DEF ScanState
    <2>2. CountedTo("value", Sellers, ChunkEnd, sells')
      BY <1>2, <2>1, SoldAt
    <2>5. Untouched(dev', hold', written')
      BY <2>0, <2>1 DEF Untouched
    <2>6. CASE LastChunk
      <3>1. Len(file) \in Nat /\ ChunkEnd = Len(file)
        BY <2>1, <2>6, ChunkBounds
      <3>2. PoolAt(Buys, TotalSold, 0, sells')
        BY <1>0, <2>2, <3>1, PoolStarts
      <3>3. Writing(0, "open", dev', hold', written')
        BY <1>0, <2>5, WritingStarts DEF Untouched
      <3>4. Then
        BY <2>0, <2>1, <2>6, <3>1, <3>2, <3>3 DEF ScanState
      <3> QED BY <1>a, <2>0, <3>4
    <2>7. CASE ~LastChunk
      <3>1. ChunkEnd = at + chunk /\ at + chunk <= Len(file) /\ ChunkEnd \in Nat
        BY <2>1, <2>7, ChunkBounds
      <3>2. PoolAt(Nettable, TotalReversed, ChunkEnd, pool')
        <4>1. PICK p : /\ PoolAt(Nettable, TotalReversed, ChunkEnd, p)
                       /\ Netted = [rows |-> At(file, InChunk(Lefts)), pool |-> p]
          BY <2>1, NettedAt
        <4> QED BY <2>0, <2>7, <4>1
      <3>3. Then
        BY <2>0, <2>1, <2>2, <2>5, <2>7, <3>1, <3>2 DEF ScanState
      <3> QED BY <1>a, <2>0, <3>3
    <2> QED BY <2>6, <2>7
  <1>3. CASE Pass2
    <2>0. /\ pc = "pass2" /\ UNCHANGED <<file, profile, chunk, cancelled, reversals>>
          /\ at' = at + chunk
          /\ pc' = "failed" \/ (LastChunk /\ pc' = "verify") \/ (~LastChunk /\ pc' = "pass2")
      BY <1>3 DEF Pass2, inputVars
    <2>1. /\ Scanning /\ cancelled = CancelledUpTo(Len(file))
          /\ PoolAt(Nettable, TotalReversed, at, pool) /\ PoolAt(Nettable, TotalReversed, 0, reversals)
          /\ PoolAt(Buys, TotalSold, at, sells) /\ Writing(at, "open", dev, hold, written)
      BY <1>0, <1>c, <2>0 DEF ScanState
    <2>2. CASE pc' = "failed"
      BY <1>b, <2>0, <2>2
    <2>3. CASE pc' # "failed"
      <3>1. /\ PoolAt(Nettable, TotalReversed, ChunkEnd, pool')
            /\ PoolAt(Buys, TotalSold, ChunkEnd, sells')
            /\ Writing(ChunkEnd, IF LastChunk THEN "whole" ELSE "open", dev', hold', written')
        BY <1>3, <2>1, <2>3, ChunkWritten
      <3>2. CASE LastChunk
        <4>1. ChunkEnd = Len(file)
          BY <2>1, <3>2, ChunkBounds
        <4>2. Then
          BY <2>0, <2>3, <3>1, <3>2, <4>1 DEF ScanState
        <4> QED BY <1>a, <2>0, <4>2
      <3>3. CASE ~LastChunk
        <4>1. ChunkEnd = at + chunk /\ at + chunk <= Len(file) /\ ChunkEnd \in Nat
          BY <2>1, <3>3, ChunkBounds
        <4>2. Then
          BY <2>0, <2>1, <2>3, <3>1, <3>3, <4>1 DEF ScanState
        <4> QED BY <1>a, <2>0, <4>2
      <3> QED BY <3>2, <3>3
    <2> QED BY <2>2, <2>3
  <1>4. CASE Verify
    <2>0. /\ pc = "verify" /\ UNCHANGED <<file, profile, chunk, dev, hold>>
          /\ pc' = "failed" \/ (/\ pc' = "cleaned"
                                /\ Agrees(dev, written.dev) /\ Agrees(hold, written.hold))
      BY <1>4 DEF Verify, inputVars, outVars, Agrees
    <2>1. Writing(Len(file), "whole", dev, hold, written)
      BY <1>0, <2>0 DEF ScanState
    <2>2. CASE pc' = "failed"
      BY <1>b, <2>0, <2>2
    <2>3. CASE pc' = "cleaned"
      <3>1. dev.rows = CleanAt(DevDays, Len(file)) /\ hold.rows = CleanAt({"holdout"}, Len(file))
        BY <2>0, <2>1, <2>3, AgreesIsExact DEF Writing
      <3>2. Then
        BY <2>0, <2>3, <3>1 DEF ScanState
      <3> QED BY <1>a, <2>0, <3>2
    <2> QED BY <2>0, <2>2, <2>3
  <1>5. CASE Kill
    BY <1>5, <1>b DEF Kill, inputVars
  <1>6. CASE Shift
    BY <1>6, <1>b DEF Shift, inputVars
  <1>7. CASE StartFilter
    BY <1>7, <1>b DEF StartFilter, inputVars
  <1>8. CASE ReadBatch
    BY <1>8, <1>b DEF ReadBatch, inputVars
  <1>9. CASE PublishFilter
    BY <1>9, <1>b DEF PublishFilter, inputVars
  <1>10. CASE KillFilter
    BY <1>10, <1>b DEF KillFilter, inputVars
  <1>11. CASE UNCHANGED vars
    <2>1. UNCHANGED <<file, profile, chunk>> /\ Then
      BY <1>0, <1>11 DEF vars
    <2> QED BY <1>a, <2>1
  <1> QED BY <1>1, <1>2, <1>3, <1>4, <1>5, <1>6, <1>7, <1>8, <1>9, <1>10, <1>11 DEF Next

\* When run_pandas has verified its two files, they hold exactly the rows that
\* should stand, whatever its chunks and whatever earlier runs left behind.
THEOREM CleanedAreExact == Spec => []CleanedFilesAreExact
  <1>1. CleanInv => CleanedFilesAreExact
    <2> SUFFICES ASSUME CleanInv, pc = "cleaned"
                 PROVE  dev.rows = CleanRows(DevDays) /\ hold.rows = CleanRows({"holdout"})
      BY DEF CleanedFilesAreExact
    <2>1. /\ file \in Seq(Rows)
          /\ dev.rows = CleanAt(DevDays, Len(file)) /\ hold.rows = CleanAt({"holdout"}, Len(file))
      BY DEF CleanInv, ScanState
    <2>2. "bad" \notin DevDays /\ "bad" \notin {"holdout"}
      BY DEF DevDays
    <2> QED BY <2>1, <2>2, CleanIsClean DEF CleanAt
  <1> QED BY <1>1, ScansStart, CleanSteps, PTL DEF Spec

================================================================================
