----------------------------- MODULE TextProofs -----------------------------
(***************************************************************************)
(* What Chunker and ContextEngineering do to texts.                        *)
(*                                                                         *)
(* Chunker: ChunkerInv says where the pieces of a text lie, and is kept by *)
(* every step.  The four theorems add to it what the chunks hold so far:   *)
(* all that has been gone through (Kept), in turn (HeldInTurn), within     *)
(* their spans (Fits), and no more than the bound.                         *)
(*                                                                         *)
(* ContextEngineering: ContextInv says what is in the text of a request    *)
(* while it is put together, with the task changing meanwhile.             *)
(***************************************************************************)
EXTENDS Chunker, ContextEngineering, SequenceTheorems, FiniteSetTheorems, WellFoundedInduction, TLAPS

-----------------------------------------------------------------------------
(* Least and greatest numbers. *)

(* A set of naturals has a least member. *)
LEMMA LeastOf ==
    ASSUME NEW S \in SUBSET Nat, S # {}
    PROVE  \E m \in S : \A x \in S : m <= x
  <1> DEFINE Less == OpToRel(<, Nat)
  <1>1. IsWellFoundedOn(Less, Nat)
    BY NatLessThanWellFounded
  <1>2. \A x, y \in Nat : <<x, y>> \notin Less => y <= x
    BY DEF OpToRel
  <1> HIDE DEF Less
  <1>3. PICK m \in S : \A x \in S : <<x, m>> \notin Less
    BY <1>1, WFMin
  <1> QED BY <1>2, <1>3

LEMMA MinIs ==
    ASSUME NEW S \in SUBSET Nat, S # {}
    PROVE  Min(S) \in S /\ \A x \in S : Min(S) <= x
  BY LeastOf DEF Min

(* So does one that is bounded have a greatest one. *)
LEMMA MaxIs ==
    ASSUME NEW S \in SUBSET Nat, S # {}, NEW b \in Nat, \A x \in S : x <= b
    PROVE  Max(S) \in S /\ \A x \in S : x <= Max(S)
  <1> DEFINE D == {b - x : x \in S}
  <1>1. D \in SUBSET Nat /\ D # {}
    <2>1. \A x \in S : b - x \in Nat
      OBVIOUS
    <2> QED BY <2>1
  <1>2. PICK d \in D : \A e \in D : d <= e
    BY <1>1, LeastOf
  <1>3. PICK m \in S : d = b - m
    BY <1>2
  <1>4. \A x \in S : x <= m
    <2> SUFFICES ASSUME NEW x \in S
                 PROVE  x <= m
      OBVIOUS
    <2>1. b - x \in D
      OBVIOUS
    <2> QED BY <1>2, <1>3, <2>1
  <1>5. \E z \in S : \A y \in S : z >= y
    BY <1>4
  <1>6. Max(S) \in S /\ \A x \in S : Max(S) >= x
    BY <1>5 DEF Max
  <1> QED BY <1>6

-----------------------------------------------------------------------------
(* Spans in the order of their beginnings. *)

Below(S, s) == {r \in S : r.from < s.from}
Rank(S, s) == Cardinality(Below(S, s))

(* A span that begins later has more before it. *)
LEMMA RanksDiffer ==
    ASSUME NEW S, IsFiniteSet(S), \A s \in S : s.from \in Int,
           NEW r \in S, NEW s \in S, r.from < s.from
    PROVE  Rank(S, r) < Rank(S, s)
  <1>1. Below(S, r) \subseteq Below(S, s) \ {r}
    BY DEF Below
  <1>2. IsFiniteSet(Below(S, s)) /\ r \in Below(S, s)
    BY FS_Subset DEF Below
  <1>3. IsFiniteSet(Below(S, s) \ {r}) /\ Cardinality(Below(S, s) \ {r}) = Cardinality(Below(S, s)) - 1
    BY <1>2, FS_RemoveElement
  <1>4. Cardinality(Below(S, r)) <= Cardinality(Below(S, s) \ {r}) /\ IsFiniteSet(Below(S, r))
    BY <1>1, <1>3, FS_Subset
  <1>5. Cardinality(Below(S, r)) \in Nat /\ Cardinality(Below(S, s)) \in Nat
    BY <1>2, <1>4, FS_CardinalityType
  <1> QED BY <1>3, <1>4, <1>5 DEF Rank

(* InOrder lists every span once, in the order of their beginnings. *)
LEMMA InOrderIs ==
    ASSUME NEW S, IsFiniteSet(S), \A s \in S : s.from \in Int,
           \A r, s \in S : r.from = s.from => r = s
    PROVE  /\ InOrder(S) \in Seq(S)
           /\ Len(InOrder(S)) = Cardinality(S)
           /\ \A i, j \in 1..Len(InOrder(S)) : i < j => InOrder(S)[i].from < InOrder(S)[j].from
           /\ \A s \in S : \E i \in 1..Len(InOrder(S)) : InOrder(S)[i] = s
  <1> DEFINE n == Cardinality(S)
             rank == [s \in S |-> Rank(S, s)]
             Ranks == 0..(n - 1)
  <1>1. n \in Nat
    BY FS_CardinalityType
  <1>2. \A s \in S : Rank(S, s) \in Ranks
    <2> SUFFICES ASSUME NEW s \in S
                 PROVE  Rank(S, s) \in Ranks
      OBVIOUS
    <2>1. Below(S, s) \subseteq S \ {s}
      BY DEF Below
    <2>2. IsFiniteSet(S \ {s}) /\ Cardinality(S \ {s}) = n - 1
      BY FS_RemoveElement
    <2>3. IsFiniteSet(Below(S, s)) /\ Cardinality(Below(S, s)) <= n - 1
      BY <2>1, <2>2, FS_Subset
    <2>4. Cardinality(Below(S, s)) \in Nat
      BY <2>3, FS_CardinalityType
    <2> QED BY <1>1, <2>3, <2>4 DEF Rank
  <1>3. \A r, s \in S : Rank(S, r) = Rank(S, s) => r = s
    <2> SUFFICES ASSUME NEW r \in S, NEW s \in S, r # s
                 PROVE  Rank(S, r) # Rank(S, s)
      OBVIOUS
    <2>1. r.from < s.from \/ s.from < r.from
      OBVIOUS
    <2>2. Rank(S, r) < Rank(S, s) \/ Rank(S, s) < Rank(S, r)
      BY <2>1, RanksDiffer
    <2>3. Rank(S, r) \in Int /\ Rank(S, s) \in Int
      BY <1>1, <1>2
    <2> QED BY <2>2, <2>3
  <1>4. \A k \in Ranks : \E s \in S : Rank(S, s) = k
    <2>1. rank \in Injection(S, Ranks)
      <3>1. rank \in [S -> Ranks]
        BY <1>2
      <3>2. \A r, s \in S : rank[r] = rank[s] => r = s
        BY <1>3
      <3> HIDE DEF rank
      <3> QED BY <3>1, <3>2 DEF Injection, IsInjective
    <2>2. IsFiniteSet(Ranks) /\ Cardinality(Ranks) = n
      <3>1. 0 \in Int /\ n - 1 \in Int
        BY <1>1
      <3>2. IsFiniteSet(Ranks) /\ Cardinality(Ranks) = IF 0 > n - 1 THEN 0 ELSE (n - 1) - 0 + 1
        BY <3>1, FS_Interval
      <3> QED BY <1>1, <3>2
    <2> DEFINE T == {Rank(S, s) : s \in S}
    <2>3. T \subseteq Ranks
      BY <1>2
    <2>4. Cardinality(T) = n
      <3>1. rank \in Surjection(S, T)
        BY DEF Surjection
      <3>2. rank \in Injection(S, T)
        <4>1. rank \in [S -> T]
          OBVIOUS
        <4>2. \A r, s \in S : rank[r] = rank[s] => r = s
          BY <1>3
        <4> HIDE DEF rank, T
        <4> QED BY <4>1, <4>2 DEF Injection, IsInjective
      <3>3. rank \in Bijection(S, T)
        BY <3>1, <3>2 DEF Bijection
      <3>4. ExistsBijection(S, T)
        BY <3>3 DEF ExistsBijection
      <3> HIDE DEF T
      <3> QED BY <3>4, FS_Bijection
    <2>5. T = Ranks
      <3> HIDE DEF T
      <3> QED BY <2>2, <2>3, <2>4, FS_Subset
    <2> QED BY <2>5
  <1> DEFINE q == InOrder(S)
             At(i) == CHOOSE s \in S : Rank(S, s) = i - 1
  <1>5. q = [i \in 1..n |-> At(i)]
    BY DEF InOrder, Rank, Below
  <1>6. \A i \in 1..n : At(i) \in S /\ Rank(S, At(i)) = i - 1
    <2> SUFFICES ASSUME NEW i \in 1..n
                 PROVE  \E s \in S : Rank(S, s) = i - 1
      OBVIOUS
    <2>1. i - 1 \in Ranks
      BY <1>1
    <2> QED BY <1>4, <2>1
  <1>7. q \in Seq(S) /\ Len(q) = n /\ \A i \in 1..n : q[i] \in S /\ Rank(S, q[i]) = i - 1
    <2> HIDE DEF n, q, At
    <2> QED BY <1>1, <1>5, <1>6
  <1> HIDE DEF q, n, At
  <1>8. \A i, j \in 1..n : i < j => q[i].from < q[j].from
    <2> SUFFICES ASSUME NEW i \in 1..n, NEW j \in 1..n, i < j
                 PROVE  q[i].from < q[j].from
      OBVIOUS
    <2>1. q[i] # q[j] /\ Rank(S, q[i]) < Rank(S, q[j])
      BY <1>1, <1>7
    <2>2. CASE q[j].from < q[i].from
      <3>1. Rank(S, q[j]) < Rank(S, q[i])
        BY <1>7, <2>2, RanksDiffer
      <3> QED BY <1>1, <1>7, <2>1, <3>1
    <2>3. q[i].from \in Int /\ q[j].from \in Int /\ q[i].from # q[j].from
      BY <1>7, <2>1
    <2> QED BY <2>2, <2>3
  <1>9. ASSUME NEW s \in S
        PROVE  \E i \in 1..n : q[i] = s
    <2>1. Rank(S, s) + 1 \in 1..n /\ (Rank(S, s) + 1) - 1 = Rank(S, s)
      BY <1>1, <1>2 DEF n
    <2> QED BY <1>3, <1>7, <2>1
  <1> QED BY <1>7, <1>8, <1>9 DEF q, n

(* A sequence with one member more. *)
LEMMA AppendedIs ==
    ASSUME NEW R, NEW cs \in Seq(R), NEW c \in R
    PROVE  /\ Append(cs, c) \in Seq(R) /\ Append(cs, c) # <<>>
           /\ Len(cs) \in Nat /\ Len(Append(cs, c)) = Len(cs) + 1
           /\ DOMAIN cs = 1..Len(cs) /\ DOMAIN Append(cs, c) = 1..(Len(cs) + 1)
           /\ \A i \in DOMAIN cs : Append(cs, c)[i] = cs[i]
           /\ Append(cs, c)[Len(cs) + 1] = c
           /\ \A i \in DOMAIN Append(cs, c) : i \in DOMAIN cs \/ i = Len(cs) + 1
           /\ Len(cs) + 1 \in DOMAIN Append(cs, c)
  <1>1. /\ Append(cs, c) \in Seq(R) /\ Len(cs) \in Nat /\ Len(Append(cs, c)) = Len(cs) + 1
        /\ \A i \in 1..Len(cs) : Append(cs, c)[i] = cs[i]
        /\ Append(cs, c)[Len(cs) + 1] = c
        /\ DOMAIN cs = 1..Len(cs) /\ DOMAIN Append(cs, c) = 1..(Len(cs) + 1)
    BY AppendProperties, LenProperties
  <1>2. Append(cs, c) # <<>>
    BY <1>1, EmptySeq
  <1>3. Len(cs) + 1 \in 1..(Len(cs) + 1) /\ \A i \in 1..(Len(cs) + 1) : i \in 1..Len(cs) \/ i = Len(cs) + 1
    BY <1>1
  <1> QED BY <1>1, <1>2, <1>3
-----------------------------------------------------------------------------
(* Texts and their spans. *)

IsText(t) == t \in Seq(Classes)

LEMMA TextsAreTexts == \A t \in Texts : IsText(t) /\ Len(t) \in Nat
  BY ChunkerAssumption DEF IsText

LEMMA SolidIs ==
    ASSUME NEW t, IsText(t), NEW a \in Nat, NEW b \in Nat, b <= Len(t)
    PROVE  Solid(t, Span(a, b)) = {x \in Nat : a <= x /\ x < b /\ t[x + 1] \notin Blank}
  <1>1. Len(t) \in Nat
    BY DEF IsText
  <1> QED BY <1>1 DEF Solid, Within, Span, Of, Positions

LEMMA SpanIs ==
    ASSUME NEW a \in Nat, NEW b \in Nat
    PROVE  /\ Span(a, b).from = a /\ Span(a, b).to = b
           /\ Within(Span(a, b)) = {x \in Nat : a <= x /\ x < b}
  BY DEF Span, Within

(* TrimSpace keeps what is solid, and begins and ends with it. *)
LEMMA TrimIs ==
    ASSUME NEW t, IsText(t), NEW a \in Nat, NEW b \in Nat, a <= b, b <= Len(t)
    PROVE  \E c, d \in Nat :
              /\ TrimSpace(t, Span(a, b)) = Span(c, d)
              /\ a <= c /\ c <= d /\ d <= b
              /\ \A x \in Solid(t, Span(a, b)) : c <= x /\ x < d
              /\ Solid(t, Span(a, b)) = {} => c = a /\ d = a
              /\ Solid(t, Span(a, b)) # {} => c \in Solid(t, Span(a, b))
  <1> DEFINE S == Solid(t, Span(a, b))
  <1>1. S \in SUBSET Nat /\ \A x \in S : a <= x /\ x < b /\ x <= b
    BY SolidIs
  <1>2. TrimSpace(t, Span(a, b)) = IF S = {} THEN Span(a, a) ELSE Span(Min(S), Max(S) + 1)
    BY SpanIs DEF TrimSpace
  <1> HIDE DEF S
  <1>3. CASE S = {}
    BY <1>2, <1>3 DEF S
  <1>4. CASE S # {}
    <2>1. Min(S) \in S /\ \A x \in S : Min(S) <= x
      BY <1>1, <1>4, MinIs
    <2>2. Max(S) \in S /\ \A x \in S : x <= Max(S)
      BY <1>1, <1>4, MaxIs
    <2>3. Min(S) \in Nat /\ Max(S) \in Nat /\ Min(S) <= Max(S) /\ a <= Min(S) /\ Max(S) < b
      BY <1>1, <2>1, <2>2
    <2>4. \A x \in S : x \in Nat /\ Min(S) <= x /\ x < Max(S) + 1
      BY <1>1, <2>1, <2>2, <2>3
    <2>5. Min(S) <= Max(S) + 1 /\ Max(S) + 1 <= b /\ Max(S) + 1 \in Nat
      BY <2>3
    <2> QED BY <1>2, <1>4, <2>1, <2>3, <2>4, <2>5 DEF S
  <1> QED BY <1>3, <1>4

(* The first position from i on that is not of these classes, or the end.   *)
LEMMA FirstFromIs ==
    ASSUME NEW t, IsText(t), NEW i \in Nat, NEW classes
    PROVE  /\ FirstFrom(t, i, classes) \in 0..Len(t)
           /\ FirstFrom(t, i, classes) < Len(t) =>
                 i <= FirstFrom(t, i, classes) /\ t[FirstFrom(t, i, classes) + 1] \notin classes
           /\ \A j \in 0..(Len(t) - 1) :
                 i <= j /\ t[j + 1] \notin classes => FirstFrom(t, i, classes) <= j
  <1> DEFINE S == {Len(t)} \cup {j \in Positions(t) : j >= i /\ t[j + 1] \notin classes}
             f == FirstFrom(t, i, classes)
  <1>1. Len(t) \in Nat
    BY DEF IsText
  <1>2. S \in SUBSET Nat /\ S # {} /\ S \subseteq 0..Len(t) /\ Len(t) \in S
    BY <1>1 DEF Positions
  <1>3. f = Min(S)
    BY DEF FirstFrom
  <1>4. \A j \in S : j = Len(t) \/ (i <= j /\ t[j + 1] \notin classes)
    BY <1>1 DEF Positions
  <1>5. \A j \in 0..(Len(t) - 1) : i <= j /\ t[j + 1] \notin classes => j \in S
    BY <1>1 DEF Positions
  <1> HIDE DEF S, f
  <1>6. f \in S /\ \A x \in S : f <= x
    BY <1>2, <1>3, MinIs
  <1>7. f \in 0..Len(t) /\ (f < Len(t) => i <= f /\ t[f + 1] \notin classes)
    BY <1>1, <1>2, <1>4, <1>6
  <1>8. \A j \in 0..(Len(t) - 1) : i <= j /\ t[j + 1] \notin classes => f <= j
    BY <1>5, <1>6
  <1> QED BY <1>7, <1>8 DEF f

-----------------------------------------------------------------------------
(* splitParagraphs: the separators are apart, and the parts between them     *)
(* hold all that is solid.                                                  *)

(* What lies between two paragraphs is blank, and at least two newlines long. *)
LEMMA SeparatorsAre ==
    ASSUME NEW t, IsText(t)
    PROVE  /\ IsFiniteSet(Separators(t))
           /\ \A s \in Separators(t) :
                 /\ s = Span(s.from, s.to) /\ s.from \in Nat /\ s.to \in Nat
                 /\ s.from + 2 <= s.to /\ s.to <= Len(t)
                 /\ \A x \in s.from..(s.to - 1) : t[x + 1] \in Spaces
           /\ \A r, s \in Separators(t) : r.from = s.from => r = s
           /\ \A r, s \in Separators(t) : r.from < s.from => r.to <= s.from
  <1> DEFINE N == Of(t, {"n"})
             Q == {q \in N \X N :
                     /\ q[1] < q[2]
                     /\ Together(t, q[1], q[2])
                     /\ \A k \in N : Together(t, q[1], k) => k \in q[1]..q[2]}
  <1>1. Len(t) \in Nat
    BY DEF IsText
  <1>2. N \in SUBSET Nat /\ \A x \in N : x < Len(t)
    BY <1>1 DEF Of, Positions
  <1>3. Separators(t) = {Span(q[1], q[2] + 1) : q \in Q}
    BY DEF Separators
  <1>4. IsFiniteSet(Separators(t))
    <2>1. IsFiniteSet(Positions(t))
      BY <1>1, FS_Interval DEF Positions
    <2>2. IsFiniteSet(N)
      BY <2>1, FS_Subset DEF Of
    <2>3. IsFiniteSet(N \X N)
      BY <2>2, FS_Product
    <2>4. IsFiniteSet(Q)
      BY <2>3, FS_Subset
    <2> HIDE DEF Q
    <2>5. IsFiniteSet({Span(q[1], q[2] + 1) : q \in Q})
      <3> DEFINE T == {Span(q[1], q[2] + 1) : q \in Q}
                 f == [q \in Q |-> Span(q[1], q[2] + 1)]
      <3>1. f \in [Q -> T] /\ \A s \in T : \E q \in Q : f[q] = s
        OBVIOUS
      <3> HIDE DEF f, T
      <3>2. f \in Surjection(Q, T)
        BY <3>1 DEF Surjection
      <3> QED BY <2>4, <3>2, FS_Surjection DEF T
    <2> QED BY <1>3, <2>5
  <1>5. \A i, j \in Nat, x \in Nat : Together(t, i, j) /\ i <= x /\ x <= j => t[x + 1] \in Spaces
    BY DEF Together, Of
  <1>6. \A i, j, k \in Nat : /\ Together(t, i, j) /\ i <= k /\ k <= j => Together(t, i, k) /\ Together(t, k, i)
    BY DEF Together
  <1>7. \A s \in Separators(t) : \E i, j \in N :
           /\ s = Span(i, j + 1) /\ s.from = i /\ s.to = j + 1 /\ i < j /\ Together(t, i, j)
           /\ \A k \in N : Together(t, i, k) => i <= k /\ k <= j
    <2> SUFFICES ASSUME NEW s \in Separators(t)
                 PROVE  \E i, j \in N :
                           /\ s = Span(i, j + 1) /\ s.from = i /\ s.to = j + 1 /\ i < j /\ Together(t, i, j)
                           /\ \A k \in N : Together(t, i, k) => i <= k /\ k <= j
      OBVIOUS
    <2>1. PICK q \in Q : s = Span(q[1], q[2] + 1)
      BY <1>3
    <2>2. q[1] \in N /\ q[2] \in N
      OBVIOUS
    <2>3. \A k \in N : Together(t, q[1], k) => q[1] <= k /\ k <= q[2]
      BY <1>2, <2>2
    <2> HIDE DEF N
    <2> QED BY <2>1, <2>2, <2>3 DEF Span
  <1> HIDE DEF Q, N
  <1>8. ASSUME NEW s \in Separators(t)
        PROVE  /\ s = Span(s.from, s.to) /\ s.from \in Nat /\ s.to \in Nat
               /\ s.from + 2 <= s.to /\ s.to <= Len(t)
               /\ \A x \in s.from..(s.to - 1) : t[x + 1] \in Spaces
    <2>1. PICK i, j \in N : /\ s = Span(i, j + 1) /\ s.from = i /\ s.to = j + 1
                            /\ i < j /\ Together(t, i, j)
      BY <1>7
    <2>2. i \in Nat /\ j \in Nat /\ j < Len(t)
      BY <1>2
    <2>3. \A x \in i..((j + 1) - 1) : x \in Nat /\ i <= x /\ x <= j
      BY <2>2
    <2> QED BY <1>1, <1>5, <2>1, <2>2, <2>3
  <1>9. ASSUME NEW r \in Separators(t), NEW s \in Separators(t), r.from = s.from
        PROVE  r = s
    <2>1. PICK i, j \in N : /\ r = Span(i, j + 1) /\ r.from = i /\ i < j /\ Together(t, i, j)
                            /\ \A k \in N : Together(t, i, k) => i <= k /\ k <= j
      BY <1>7
    <2>2. PICK i2, j2 \in N : /\ s = Span(i2, j2 + 1) /\ s.from = i2 /\ i2 < j2 /\ Together(t, i2, j2)
                              /\ \A k \in N : Together(t, i2, k) => i2 <= k /\ k <= j2
      BY <1>7
    <2>3. i = i2 /\ j <= j2 /\ j2 <= j
      BY <1>9, <2>1, <2>2
    <2>4. j \in Nat /\ j2 \in Nat
      BY <1>2
    <2> QED BY <2>1, <2>2, <2>3, <2>4
  <1>10. ASSUME NEW r \in Separators(t), NEW s \in Separators(t), r.from < s.from
         PROVE  r.to <= s.from
    <2>1. PICK i, j \in N : /\ r.from = i /\ r.to = j + 1 /\ i < j /\ Together(t, i, j)
      BY <1>7
    <2>2. PICK i2, j2 \in N : /\ s.from = i2 /\ \A k \in N : Together(t, i2, k) => i2 <= k /\ k <= j2
      BY <1>7
    <2>3. i \in Nat /\ j \in Nat /\ i2 \in Nat /\ i < i2
      BY <1>2, <1>10, <2>1, <2>2
    <2>4. ~ (i2 <= j)
      BY <1>6, <2>1, <2>2, <2>3
    <2> QED BY <2>1, <2>2, <2>3, <2>4
  <1> QED BY <1>4, <1>8, <1>9, <1>10

\* The paragraphs follow one another, and nothing solid is left out between them.
LEMMA PartsAre ==
    ASSUME NEW t \in Texts
    PROVE  /\ Len(Parts[t]) \in Nat \ {0} /\ DOMAIN Parts[t] = 1..Len(Parts[t])
           /\ Parts[t][1].from = 0
           /\ \A i \in 1..Len(Parts[t]) :
                 /\ Parts[t][i] = Span(Parts[t][i].from, Parts[t][i].to)
                 /\ Parts[t][i].from \in Nat /\ Parts[t][i].to \in Nat
                 /\ Parts[t][i].from <= Parts[t][i].to /\ Parts[t][i].to <= Len(t)
           /\ \A i, j \in 1..Len(Parts[t]) : i < j => Parts[t][i].to + 2 <= Parts[t][j].from
           /\ \A x \in Solid(t, Whole(t)) : \E i \in 1..Len(Parts[t]) : x \in Solid(t, Parts[t][i])
  <1> DEFINE S == Separators(t)
             seps == InOrder(S)
             n == Len(seps)
             l == Len(t)
             From(i) == IF i = 1 THEN 0 ELSE seps[i - 1].to
             To(i) == IF i = n + 1 THEN l ELSE seps[i].from
             q == Parts[t]
  <1>1. IsText(t) /\ l \in Nat
    BY TextsAreTexts
  <1>2. /\ IsFiniteSet(S)
        /\ \A s \in S : /\ s.from \in Nat /\ s.to \in Nat /\ s.from + 2 <= s.to /\ s.to <= l
                        /\ \A x \in s.from..(s.to - 1) : t[x + 1] \in Spaces
        /\ \A r, s \in S : r.from = s.from => r = s
        /\ \A r, s \in S : r.from < s.from => r.to <= s.from
    BY <1>1, SeparatorsAre
  <1> HIDE DEF S
  <1>3. \A s \in S : s.from \in Int
    BY <1>2
  <1>4. /\ seps \in Seq(S) /\ \A i, j \in 1..n : i < j => seps[i].from < seps[j].from
    BY <1>2, <1>3, InOrderIs
  <1>5. q = [i \in 1..(n + 1) |-> Span(From(i), To(i))]
    BY DEF Parts, S
  <1> HIDE DEF seps, q
  <1>6. n \in Nat /\ \A i \in 1..n : seps[i] \in S
    BY <1>4
  <1> HIDE DEF n, l
  <1>7. \A i \in 1..n : /\ seps[i].from \in Nat /\ seps[i].to \in Nat
                        /\ seps[i].from + 2 <= seps[i].to /\ seps[i].to <= l
                        /\ \A x \in seps[i].from..(seps[i].to - 1) : t[x + 1] \in Spaces
    BY <1>2, <1>6
  <1>8. \A i, j \in 1..n : i < j => seps[i].to <= seps[j].from
    BY <1>2, <1>4, <1>6 DEF n
  <1>9. \A i \in 1..(n + 1) : From(i) \in Nat /\ To(i) \in Nat /\ From(i) <= To(i) /\ To(i) <= l
    <2> SUFFICES ASSUME NEW i \in 1..(n + 1)
                 PROVE  From(i) \in Nat /\ To(i) \in Nat /\ From(i) <= To(i) /\ To(i) <= l
      OBVIOUS
    <2>1. i # 1 => i - 1 \in 1..n
      BY <1>6
    <2>2. i # n + 1 => i \in 1..n
      BY <1>6
    <2>3. i # 1 => seps[i - 1].to \in Nat /\ seps[i - 1].to <= l
      BY <1>7, <2>1
    <2>4. i # n + 1 => seps[i].from \in Nat /\ seps[i].from <= l
      BY <1>1, <1>7, <2>2 DEF l
    <2>5. i # 1 /\ i # n + 1 => seps[i - 1].to <= seps[i].from
      BY <1>8, <2>1, <2>2
    <2> QED BY <1>1, <2>3, <2>4, <2>5 DEF l
  <1>10. \A i, j \in 1..(n + 1) : i < j => To(i) + 2 <= From(j)
    <2> SUFFICES ASSUME NEW i \in 1..(n + 1), NEW j \in 1..(n + 1), i < j
                 PROVE  To(i) + 2 <= From(j)
      OBVIOUS
    <2>1. i \in 1..n /\ j - 1 \in 1..n /\ i <= j - 1 /\ i # n + 1 /\ j # 1
      BY <1>6
    <2>2. seps[i].from + 2 <= seps[i].to /\ seps[i].to \in Nat /\ seps[i].from \in Nat
      BY <1>7, <2>1
    <2>3. seps[j - 1].from + 2 <= seps[j - 1].to /\ seps[j - 1].to \in Nat /\ seps[j - 1].from \in Nat
      BY <1>7, <2>1
    <2>4. i < j - 1 => seps[i].to <= seps[j - 1].from
      BY <1>8, <2>1
    <2>5. i = j - 1 \/ i < j - 1
      BY <2>1
    <2> QED BY <2>1, <2>2, <2>3, <2>4, <2>5
  <1> HIDE DEF From, To
  <1>11. /\ q \in Seq([from : Nat, to : Nat]) /\ Len(q) = n + 1 /\ DOMAIN q = 1..(n + 1)
         /\ \A i \in 1..(n + 1) : q[i] = Span(From(i), To(i)) /\ q[i].from = From(i) /\ q[i].to = To(i)
    <2>1. \A i \in 1..(n + 1) : Span(From(i), To(i)) \in [from : Nat, to : Nat]
      BY <1>9 DEF Span
    <2>2. \A i \in 1..(n + 1) : Span(From(i), To(i)).from = From(i) /\ Span(From(i), To(i)).to = To(i)
      BY DEF Span
    <2>3. n + 1 \in Nat
      BY <1>6
    <2>4. q \in [1..(n + 1) -> [from : Nat, to : Nat]]
      BY <1>5, <2>1
    <2>5. DOMAIN q = 1..(n + 1) /\ \A i \in 1..(n + 1) : q[i] = Span(From(i), To(i))
      BY <1>5
    <2>6. q \in Seq([from : Nat, to : Nat])
      <3> DEFINE m == n + 1
      <3>1. m \in Nat /\ q \in [1..m -> [from : Nat, to : Nat]]
        BY <2>3, <2>4
      <3> HIDE DEF m
      <3> QED BY ONLY ZenonT(40), <3>1, SeqDef
    <2>7. Len(q) = n + 1
      BY <2>3, <2>5, <2>6, LenProperties
    <2> QED BY <2>2, <2>5, <2>6, <2>7
  <1>12. ASSUME NEW x \in Solid(t, Whole(t))
         PROVE  \E i \in 1..(n + 1) : x \in Solid(t, q[i])
    <2> DEFINE K == {k \in 1..(n + 1) : x < To(k)}
    <2>1. x \in Nat /\ x < l /\ t[x + 1] \notin Blank
      BY <1>1, SolidIs DEF Whole, l
    <2>2. n + 1 \in K /\ K \in SUBSET Nat
      BY <1>6, <2>1 DEF To
    <2>3. PICK m \in K : \A k \in K : m <= k
      BY <2>2, LeastOf
    <2>4. m \in 1..(n + 1) /\ x < To(m)
      OBVIOUS
    <2>5. From(m) <= x
      <3>1. CASE m = 1
        BY <2>1, <3>1 DEF From
      <3>2. CASE m # 1
        <4>1. m - 1 \in 1..n /\ m - 1 \in 1..(n + 1) /\ m - 1 < m /\ m - 1 # n + 1
          BY <1>6, <2>4, <3>2
        <4>2. m - 1 \notin K
          BY <2>3, <2>4, <4>1
        <4>3. seps[m - 1].from <= x
          BY <1>7, <2>1, <4>1, <4>2 DEF To
        <4>4. ~ (x < seps[m - 1].to)
          <5>1. seps[m - 1].from \in Nat /\ seps[m - 1].to \in Nat
                /\ \A y \in seps[m - 1].from..(seps[m - 1].to - 1) : t[y + 1] \in Spaces
            BY <1>7, <4>1
          <5>2. Spaces \subseteq Blank
            BY DEF Blank
          <5> QED BY <2>1, <4>3, <5>1, <5>2
        <4> QED BY <1>7, <2>1, <3>2, <4>1, <4>4 DEF From
      <3> QED BY <3>1, <3>2
    <2>6. x \in Solid(t, Span(From(m), To(m)))
      BY <1>1, <1>9, <2>1, <2>4, <2>5, SolidIs DEF l
    <2> QED BY <1>11, <2>4, <2>6
  <1>13. From(1) = 0
    BY DEF From
  <1>14. 1 \in 1..(n + 1) /\ n + 1 \in Nat \ {0}
    BY <1>6
  <1>15. Len(q) = n + 1 /\ Len(q) \in Nat \ {0} /\ DOMAIN q = 1..Len(q) /\ q[1].from = 0
    BY <1>11, <1>13, <1>14
  <1>16. \A i \in 1..Len(q) : /\ q[i] = Span(q[i].from, q[i].to)
                              /\ q[i].from \in Nat /\ q[i].to \in Nat
                              /\ q[i].from <= q[i].to /\ q[i].to <= l
    BY <1>9, <1>11, <1>15
  <1>17. \A i, j \in 1..Len(q) : i < j => q[i].to + 2 <= q[j].from
    BY <1>10, <1>11, <1>15
  <1> QED BY <1>12, <1>15, <1>16, <1>17 DEF q, l
-----------------------------------------------------------------------------
(* splitSentences: the sentences follow one another and hold all that is     *)
(* solid.                                                                   *)

(* The sentences follow one another, and hold all that is solid. *)
LEMMA SentencesAre ==
    ASSUME NEW t \in Texts, Len(t) # 0
    PROVE  /\ Len(Sentences[t]) \in Nat /\ DOMAIN Sentences[t] = 1..Len(Sentences[t])
           /\ Sentences[t] = [i \in DOMAIN Sentences[t] |-> Sentences[t][i]]
           /\ \A i \in 1..Len(Sentences[t]) :
                 LET s == Sentences[t][i]
                 IN  /\ s.from \in Nat /\ s.to \in Nat /\ s.from <= s.to /\ s.to <= Len(t)
                     /\ s = [words |-> TrimSpace(t, Span(s.from, s.to)), from |-> s.from, to |-> s.to]
           /\ \A i, j \in 1..Len(Sentences[t]) : i < j => Sentences[t][i].to <= Sentences[t][j].from
           /\ \A x \in Solid(t, Whole(t)) : \E i \in 1..Len(Sentences[t]) :
                 x \in Solid(t, Span(Sentences[t][i].from, Sentences[t][i].to))
  <1> DEFINE l == Len(t)
             stops == {FirstFrom(t, i + 1, Spaces) : i \in Of(t, {"."})}
             ends == stops \cup {l}
             From(e) == Max({0} \cup {f \in ends : f < e})
             spans == {Span(From(e), e) : e \in ends}
             used == IF stops = {} THEN spans ELSE {s \in spans : Solid(t, s) # {}}
             kept == InOrder(used)
             n == Len(kept)
             q == Sentences[t]
  <1>1. IsText(t) /\ l \in Nat \ {0}
    BY TextsAreTexts
  <1>2. ends \in SUBSET Nat /\ l \in ends /\ \A e \in ends : 0 < e /\ e <= l
    <2> SUFFICES ASSUME NEW i \in Of(t, {"."})
                 PROVE  /\ FirstFrom(t, i + 1, Spaces) \in Nat
                        /\ 0 < FirstFrom(t, i + 1, Spaces) /\ FirstFrom(t, i + 1, Spaces) <= l
      BY <1>1
    <2>1. i \in Nat /\ i + 1 \in Nat
      BY <1>1 DEF Of, Positions
    <2>2. /\ FirstFrom(t, i + 1, Spaces) \in 0..l
          /\ FirstFrom(t, i + 1, Spaces) < l => i + 1 <= FirstFrom(t, i + 1, Spaces)
      BY <1>1, <2>1, FirstFromIs
    <2> QED BY <1>1, <2>1, <2>2
  <1>3. IsFiniteSet(ends)
    <2>1. IsFiniteSet(0..l)
      BY <1>1, FS_Interval
    <2>2. ends \subseteq 0..l
      BY <1>1, <1>2
    <2> HIDE DEF ends
    <2> QED BY <2>1, <2>2, FS_Subset
  <1>4. q = [i \in DOMAIN kept |->
                [words |-> TrimSpace(t, kept[i]), from |-> kept[i].from, to |-> kept[i].to]]
    BY DEF Sentences
  <1> HIDE DEF ends, l
  <1>5. ASSUME NEW e \in ends
        PROVE  /\ From(e) \in Nat /\ From(e) < e
               /\ \A f \in ends : f < e => f <= From(e)
               /\ From(e) = 0 \/ From(e) \in ends
    <2> DEFINE B == {0} \cup {f \in ends : f < e}
    <2>1. e \in Nat /\ 0 < e
      BY <1>2
    <2>2. B \in SUBSET Nat /\ B # {} /\ \A f \in B : f <= e /\ f < e /\ (f = 0 \/ f \in ends)
      <3>1. \A f \in ends : f \in Nat
        BY <1>2
      <3>2. B \in SUBSET Nat /\ 0 \in B
        BY <3>1
      <3>3. \A f \in B : f < e /\ (f = 0 \/ f \in ends)
        BY <2>1
      <3> HIDE DEF B
      <3>4. \A f \in B : f <= e
        BY <2>1, <3>2, <3>3
      <3> QED BY <3>2, <3>3, <3>4
    <2>3. From(e) = Max(B)
      OBVIOUS
    <2>4. \A f \in ends : f < e => f \in B
      OBVIOUS
    <2> HIDE DEF B, From
    <2>5. Max(B) \in B /\ \A f \in B : f <= Max(B)
      BY <2>1, <2>2, MaxIs
    <2> QED BY <2>2, <2>3, <2>4, <2>5
  <1> HIDE DEF From
  <1>6. \A s \in spans : \E e \in ends : s = Span(From(e), e) /\ s.from = From(e) /\ s.to = e
    BY DEF Span
  <1>7. IsFiniteSet(spans)
    <2> DEFINE g == [e \in ends |-> Span(From(e), e)]
    <2>1. g \in [ends -> spans] /\ \A s \in spans : \E e \in ends : g[e] = s
      OBVIOUS
    <2> HIDE DEF g, spans
    <2>2. g \in Surjection(ends, spans)
      BY <2>1 DEF Surjection
    <2> QED BY <1>3, <2>2, FS_Surjection
  <1>8. used \subseteq spans /\ \A s \in spans : Solid(t, s) # {} => s \in used
    OBVIOUS
  <1>9. IsFiniteSet(used)
    <2> HIDE DEF used, spans
    <2> QED BY <1>7, <1>8, FS_Subset
  <1>10. \A e \in ends : Span(From(e), e) \in spans
    OBVIOUS
  <1> HIDE DEF used, spans
  <1>11. ASSUME NEW s \in used
         PROVE  \E e \in ends : s = Span(From(e), e) /\ s.from = From(e) /\ s.to = e
    BY <1>6, <1>8
  <1>12. \A s \in used : s.from \in Int
    BY <1>5, <1>11
  <1>13. \A r, s \in used : r.to < s.to => r.to <= s.from /\ r.from < s.from
    <2> SUFFICES ASSUME NEW r \in used, NEW s \in used, r.to < s.to
                 PROVE  r.to <= s.from /\ r.from < s.from
      OBVIOUS
    <2>1. PICK d \in ends : r.from = From(d) /\ r.to = d
      BY <1>11
    <2>2. PICK e \in ends : s.from = From(e) /\ s.to = e
      BY <1>11
    <2>3. From(d) < d /\ d <= From(e) /\ From(d) \in Nat /\ From(e) \in Nat /\ d \in Nat
      BY <1>2, <1>5, <2>1, <2>2
    <2> QED BY <2>1, <2>2, <2>3
  <1>14. \A r, s \in used : r.from = s.from => r = s
    <2> SUFFICES ASSUME NEW r \in used, NEW s \in used, r.from = s.from
                 PROVE  r = s
      OBVIOUS
    <2>1. PICK d \in ends : r = Span(From(d), d) /\ r.from = From(d) /\ r.to = d
      BY <1>11
    <2>2. PICK e \in ends : s = Span(From(e), e) /\ s.from = From(e) /\ s.to = e
      BY <1>11
    <2>3. d \in Nat /\ e \in Nat /\ From(d) \in Nat
      BY <1>2, <1>5
    <2>4. ~ (d < e) /\ ~ (e < d)
      BY <1>13, <2>1, <2>2, <2>3
    <2> QED BY <2>1, <2>2, <2>3, <2>4
  <1>15. /\ kept \in Seq(used)
         /\ \A i, j \in 1..n : i < j => kept[i].from < kept[j].from
         /\ \A s \in used : \E i \in 1..n : kept[i] = s
    BY <1>9, <1>12, <1>14, InOrderIs
  <1> HIDE DEF kept
  <1>16. n \in Nat /\ DOMAIN kept = 1..n /\ \A i \in 1..n : kept[i] \in used
    BY <1>15
  <1> HIDE DEF n, q
  <1>17. \A i \in 1..n : /\ kept[i] = Span(kept[i].from, kept[i].to)
                         /\ kept[i].from \in Nat /\ kept[i].to \in Nat
                         /\ kept[i].from <= kept[i].to /\ kept[i].to <= l
    <2> SUFFICES ASSUME NEW i \in 1..n
                 PROVE  /\ kept[i] = Span(kept[i].from, kept[i].to)
                        /\ kept[i].from \in Nat /\ kept[i].to \in Nat
                        /\ kept[i].from <= kept[i].to /\ kept[i].to <= l
      OBVIOUS
    <2>1. PICK e \in ends : kept[i] = Span(From(e), e) /\ kept[i].from = From(e) /\ kept[i].to = e
      BY <1>11, <1>16
    <2>2. From(e) \in Nat /\ e \in Nat /\ From(e) <= e /\ e <= l
      BY <1>2, <1>5
    <2> QED BY <2>1, <2>2
  <1>18. \A i, j \in 1..n : i < j => kept[i].to <= kept[j].from
    <2> SUFFICES ASSUME NEW i \in 1..n, NEW j \in 1..n, i < j
                 PROVE  kept[i].to <= kept[j].from
      OBVIOUS
    <2>1. kept[i].from < kept[j].from /\ kept[i] \in used /\ kept[j] \in used
      BY <1>15, <1>16 DEF n
    <2>2. kept[i].to \in Nat /\ kept[j].to \in Nat /\ kept[i].from \in Nat /\ kept[j].from \in Nat
      BY <1>17
    <2>3. ~ (kept[j].to < kept[i].to)
      BY <1>13, <2>1, <2>2
    <2>4. kept[i].to # kept[j].to
      <3>1. PICK d \in ends : kept[i].from = From(d) /\ kept[i].to = d
        BY <1>11, <2>1
      <3>2. PICK e \in ends : kept[j].from = From(e) /\ kept[j].to = e
        BY <1>11, <2>1
      <3> QED BY <2>1, <2>2, <3>1, <3>2
    <2> QED BY <1>13, <2>1, <2>2, <2>3, <2>4
  <1>19. ASSUME NEW x \in Solid(t, Whole(t))
         PROVE  \E i \in 1..n : x \in Solid(t, Span(kept[i].from, kept[i].to))
    <2> DEFINE E == {e \in ends : x < e}
    <2>1. x \in Nat /\ x < l /\ t[x + 1] \notin Blank
      BY <1>1, SolidIs DEF Whole, l
    <2>2. l \in E /\ E \in SUBSET Nat
      BY <1>2, <2>1
    <2>3. PICK e \in E : \A f \in E : e <= f
      BY <2>2, LeastOf
    <2>4. e \in ends /\ e \in Nat /\ e <= l /\ x < e
      BY <1>2
    <2>5. From(e) <= x /\ From(e) \in Nat
      <3>1. From(e) \notin E
        BY <1>5, <2>3, <2>4
      <3> QED BY <1>5, <2>1, <2>4, <3>1
    <2>6. x \in Solid(t, Span(From(e), e))
      BY <1>1, <2>1, <2>4, <2>5, SolidIs DEF l
    <2>7. Span(From(e), e) \in used /\ Span(From(e), e).from = From(e) /\ Span(From(e), e).to = e
      BY <1>8, <1>10, <2>4, <2>6 DEF Span
    <2> QED BY <1>15, <2>6, <2>7 DEF n
  <1>20. /\ Len(q) = n /\ DOMAIN q = 1..n /\ q = [i \in DOMAIN q |-> q[i]]
         /\ \A i \in 1..n :
               /\ q[i] = [words |-> TrimSpace(t, Span(kept[i].from, kept[i].to)),
                          from |-> kept[i].from, to |-> kept[i].to]
               /\ q[i].from = kept[i].from /\ q[i].to = kept[i].to
    <2> DEFINE R(i) == [words |-> TrimSpace(t, kept[i]), from |-> kept[i].from, to |-> kept[i].to]
    <2>1. q = [i \in 1..n |-> R(i)]
      BY <1>4, <1>16
    <2>2. \A i \in 1..n : q[i] = R(i) /\ R(i).from = kept[i].from /\ R(i).to = kept[i].to
      BY <2>1
    <2>3. \A i \in 1..n : R(i) = [words |-> TrimSpace(t, Span(kept[i].from, kept[i].to)),
                                  from |-> kept[i].from, to |-> kept[i].to]
      BY <1>17
    <2> HIDE DEF R
    <2>4. Len(q) = n /\ DOMAIN q = 1..n /\ q = [i \in DOMAIN q |-> q[i]]
      BY <1>16, <2>1
    <2> QED BY <2>2, <2>3, <2>4
  <1> QED BY <1>16, <1>17, <1>18, <1>19, <1>20 DEF q, l
-----------------------------------------------------------------------------
(* The texts of chunks: sequences of positions.                             *)

LEMMA EmptyText == <<>> \in Seq(Int) /\ Len(<<>>) = 0 /\ Sources(<<>>) = {} /\ Ascending(<<>>)
  BY DEF Sources, ToSet, Ascending

(* A copied span holds the positions of the span, in their order. *)
LEMMA CopyIs ==
    ASSUME NEW a \in Nat, NEW b \in Nat, a <= b
    PROVE  /\ Copy(Span(a, b)) \in Seq(Int)
           /\ Len(Copy(Span(a, b))) = b - a
           /\ Sources(Copy(Span(a, b))) = Within(Span(a, b))
           /\ Ascending(Copy(Span(a, b)))
  <1> DEFINE c == Copy(Span(a, b))
             l == b - a
  <1>1. l \in Nat /\ Inserted = -1
    BY DEF Inserted
  <1>2. c = [i \in 1..l |-> a + i - 1]
    BY SpanIs DEF Copy
  <1>3. \A i \in 1..l : a + i - 1 \in Int
    BY <1>1
  <1> HIDE DEF c
  <1>4. c \in [1..l -> Int] /\ DOMAIN c = 1..l /\ \A i \in 1..l : c[i] = a + i - 1
    BY <1>2, <1>3
  <1>5. c \in Seq(Int) /\ Len(c) = l
    <2> HIDE DEF l
    <2>1. c \in Seq(Int)
      BY ONLY <1>1, <1>4, SeqDef
    <2> QED BY <1>1, <1>4, <2>1, LenProperties
  <1>6. Sources(c) = Within(Span(a, b))
    <2>1. ASSUME NEW x \in Sources(c)
          PROVE  x \in Within(Span(a, b))
      <3>1. PICK i \in 1..l : x = c[i]
        BY <1>4 DEF Sources, ToSet
      <3> QED BY <1>1, <1>4, <3>1, SpanIs
    <2>2. ASSUME NEW x \in Within(Span(a, b))
          PROVE  x \in Sources(c)
      <3>1. x \in Nat /\ a <= x /\ x < b
        BY SpanIs
      <3>2. x - a + 1 \in 1..l /\ x = a + (x - a + 1) - 1
        BY <3>1
      <3>3. c[x - a + 1] = x
        BY <1>4, <3>1, <3>2
      <3> QED BY <1>1, <1>4, <3>1, <3>2, <3>3 DEF Sources, ToSet
    <2> QED BY <2>1, <2>2
  <1>7. Ascending(c)
    BY <1>4 DEF Ascending
  <1> QED BY <1>5, <1>6, <1>7 DEF c

(* A joined text holds what the two hold. *)
LEMMA JoinIs ==
    ASSUME NEW s \in Seq(Int), NEW t \in Seq(Int)
    PROVE  /\ s \o t \in Seq(Int) /\ Len(s \o t) = Len(s) + Len(t)
           /\ Sources(s \o t) = Sources(s) \cup Sources(t)
           /\ s # <<>> \/ t # <<>> => s \o t # <<>>
  <1>1. /\ s \o t \in Seq(Int) /\ Len(s \o t) = Len(s) + Len(t)
        /\ \A i \in 1..(Len(s) + Len(t)) : (s \o t)[i] = IF i <= Len(s) THEN s[i] ELSE t[i - Len(s)]
    BY ConcatProperties
  <1>2. ToSet(s \o t) = ToSet(s) \cup ToSet(t)
    <2>1. ASSUME NEW i \in DOMAIN (s \o t)
          PROVE  (s \o t)[i] \in ToSet(s) \cup ToSet(t)
      <3>1. i \in 1..(Len(s) + Len(t))
        BY <1>1
      <3>2. CASE i <= Len(s)
        BY <1>1, <3>1, <3>2 DEF ToSet
      <3>3. CASE ~ (i <= Len(s))
        <4>1. i - Len(s) \in DOMAIN t
          BY <3>1, <3>3
        <4> QED BY <1>1, <3>1, <3>3, <4>1 DEF ToSet
      <3> QED BY <3>2, <3>3
    <2>2. ASSUME NEW i \in DOMAIN s
          PROVE  s[i] \in ToSet(s \o t)
      <3>1. i \in DOMAIN (s \o t) /\ (s \o t)[i] = s[i]
        BY <1>1
      <3> QED BY <3>1 DEF ToSet
    <2>3. ASSUME NEW i \in DOMAIN t
          PROVE  t[i] \in ToSet(s \o t)
      <3>1. /\ i + Len(s) \in 1..(Len(s) + Len(t)) /\ ~ (i + Len(s) <= Len(s))
            /\ (i + Len(s)) - Len(s) = i
        OBVIOUS
      <3>2. i + Len(s) \in DOMAIN (s \o t) /\ (s \o t)[i + Len(s)] = t[i]
        BY <1>1, <3>1
      <3> QED BY <3>2 DEF ToSet
    <2> QED BY <2>1, <2>2, <2>3 DEF ToSet
  <1> QED BY <1>1, <1>2 DEF Sources

(* It is in order when the second comes after the first. *)
LEMMA JoinAscends ==
    ASSUME NEW s \in Seq(Int), NEW t \in Seq(Int), Ascending(s), Ascending(t),
           \A a \in Sources(s), b \in Sources(t) : a < b
    PROVE  Ascending(s \o t)
  <1>1. DOMAIN (s \o t) = 1..(Len(s) + Len(t)) /\ Len(s) \in Nat /\ Len(t) \in Nat
    BY ConcatProperties, LenProperties
  <1>2. \A i \in DOMAIN (s \o t) :
           /\ i <= Len(s) => i \in DOMAIN s /\ (s \o t)[i] = s[i]
           /\ ~ (i <= Len(s)) => i - Len(s) \in DOMAIN t /\ (s \o t)[i] = t[i - Len(s)]
    BY <1>1, ConcatProperties, LenProperties
  <1> SUFFICES ASSUME NEW i \in DOMAIN (s \o t), NEW j \in DOMAIN (s \o t), i < j,
                      (s \o t)[i] # Inserted, (s \o t)[j] # Inserted
               PROVE  (s \o t)[i] < (s \o t)[j]
    BY DEF Ascending
  <1>3. i \in Int /\ j \in Int
    BY <1>1
  <1>4. CASE j <= Len(s)
    <2>1. i <= Len(s)
      BY <1>1, <1>3, <1>4
    <2> QED BY <1>2, <1>4, <2>1 DEF Ascending
  <1>5. CASE ~ (i <= Len(s))
    <2>1. ~ (j <= Len(s)) /\ i - Len(s) < j - Len(s)
      BY <1>1, <1>3, <1>5
    <2> QED BY <1>2, <1>5, <2>1 DEF Ascending
  <1>6. CASE i <= Len(s) /\ ~ (j <= Len(s))
    BY <1>2, <1>6 DEF Sources, ToSet
  <1> QED BY <1>4, <1>5, <1>6

(* A separator is no part of the text. *)
LEMMA SeparatorIs ==
    Separator \in Seq(Int) /\ Len(Separator) \in {2, 3} /\ Sources(Separator) = {} /\ Ascending(Separator)
  <1> DEFINE a == [i \in 1..2 |-> Inserted]
             b == [i \in 1..3 |-> Inserted]
  <1>1. a \in [1..2 -> Int] /\ b \in [1..3 -> Int]
    BY DEF Inserted
  <1>2. /\ DOMAIN a = 1..2 /\ DOMAIN b = 1..3
        /\ \A i \in DOMAIN a : a[i] = Inserted
        /\ \A i \in DOMAIN b : b[i] = Inserted
    OBVIOUS
  <1>3. Separator = a \/ Separator = b
    BY DEF Separator
  <1> HIDE DEF a, b
  <1>4. a \in Seq(Int) /\ b \in Seq(Int)
    <2>1. 2 \in Nat /\ 3 \in Nat
      OBVIOUS
    <2>2. [1..2 -> Int] \subseteq Seq(Int) /\ [1..3 -> Int] \subseteq Seq(Int)
      BY ONLY <2>1, SeqDef
    <2> QED BY <1>1, <2>2
  <1>5. Len(a) = 2 /\ Len(b) = 3
    BY <1>2, <1>4, LenProperties
  <1>6. Sources(a) = {} /\ Sources(b) = {}
    BY <1>2 DEF Sources, ToSet
  <1>7. Ascending(a) /\ Ascending(b)
    BY <1>2 DEF Ascending
  <1> QED BY <1>3, <1>4, <1>5, <1>6, <1>7

(* getOverlapText: no more than the overlap, and from the end before.        *)
LEMMA OverlapTextIs ==
    ASSUME text \in Texts, NEW s \in Int, NEW e \in Nat, s <= e
    PROVE  /\ OverlapText(s, e) \in Seq(Int) /\ Len(OverlapText(s, e)) <= e - s
           /\ \A a \in Sources(OverlapText(s, e)) : a \in Nat /\ s <= a /\ a < e
  <1> DEFINE from == IF s < 0 THEN 0 ELSE s
             to == Least(e, Len(text))
             o == OverlapText(s, e)
  <1>1. Len(text) \in Nat
    BY TextsAreTexts
  <1>2. from \in Nat /\ to \in Nat /\ s <= from /\ to <= e
    BY <1>1 DEF Least
  <1>3. o = IF from >= to THEN <<>> ELSE Copy(Span(from, to))
    BY DEF OverlapText
  <1> HIDE DEF from, to, o
  <1>4. CASE from >= to
    BY <1>3, <1>4, EmptyText DEF o
  <1>5. CASE ~ (from >= to)
    <2>1. from <= to
      BY <1>2, <1>5
    <2>2. /\ o \in Seq(Int) /\ Len(o) = to - from /\ Sources(o) = Within(Span(from, to))
      BY <1>2, <1>3, <1>5, <2>1, CopyIs
    <2>3. \A a \in Sources(o) : a \in Nat /\ s <= a /\ a < e
      BY <1>2, <2>2, SpanIs
    <2> QED BY <1>2, <2>2, <2>3 DEF o
  <1> QED BY <1>4, <1>5
-----------------------------------------------------------------------------
(* What holds between two steps.                                            *)

Spans(t) == {s \in [from : Nat, to : Nat] : s.from <= s.to /\ s.to <= Len(t)}
Pieces(t) == [words : Spans(t), from : 0..Len(t), to : 0..Len(t)]

ChunkerTypes ==
    /\ text \in Texts
    /\ config.maxSize \in Nat \ {0} /\ config.overlap \in Nat /\ config.minSize \in Nat \ {0}
    /\ chunker \in {"paragraph", "sentence", "fixed"}
    /\ stage \in {"enter", "scan", "pack", "step back", "done"}
    /\ pieces \in Seq(Pieces(text))
    /\ place \in 0..Len(text)
    /\ next \in Nat
    /\ current \in Seq(Int)
    /\ currentStart \in Int
    /\ chunks \in Seq([text : Seq(Int), from : Int, to : Int])

\* What a stage finds.
Stages ==
    /\ stage \in {"enter", "scan"} => current = <<>> /\ chunks = <<>>
    /\ stage = "enter" => next = 0 /\ pieces = <<>> /\ (chunker = "paragraph" => place = 0)
    /\ stage = "scan" => chunker = "paragraph" /\ next <= Len(Parts[text])
    /\ stage = "step back" => chunker = "fixed"
    /\ Packing => /\ next <= Len(pieces)
                  /\ current # <<>> => next >= 1
                  /\ current = <<>> => chunks = <<>>

InWords(x) == \E i \in DOMAIN pieces : x \in Within(pieces[i].words)

\* The words are in the order of the text, and behind them are the parts to come.
WordsInOrder ==
    /\ \A i, j \in DOMAIN pieces : i < j => pieces[i].words.to <= pieces[j].words.from
    /\ stage = "scan" =>
          \A i \in DOMAIN pieces : \A k \in (next + 1)..Len(Parts[text]) :
             pieces[i].words.to <= Parts[text][k].from

\* All that is solid is in the words, or still to come.
WordsHoldAll ==
    /\ stage = "scan" => \A k \in 1..next : \A x \in Solid(text, Parts[text][k]) : InWords(x)
    /\ Packing => \A x \in Solid(text, Whole(text)) : InWords(x)

\* splitParagraphs is never behind a part, and finds it where it is when that can be done.
Located ==
    stage = "scan" =>
       /\ next < Len(Parts[text]) => place <= Parts[text][next + 1].from
       /\ \A i \in DOMAIN pieces : pieces[i].to <= place
       /\ Findable =>
             /\ \A i \in DOMAIN pieces : pieces[i].to = pieces[i].words.to
             /\ next < Len(Parts[text]) =>
                   \A x \in place..(Parts[text][next + 1].from - 1) : text[x + 1] \in Skipped

Found == chunker = "paragraph" => Findable

PiecesFit ==
    /\ \A i \in DOMAIN pieces : /\ pieces[i].from <= pieces[i].words.from
                                /\ pieces[i].from <= pieces[i].to
                                /\ Found => pieces[i].words.to <= pieces[i].to
    /\ \A i, j \in DOMAIN pieces : i < j => pieces[i].to <= pieces[j].from

ChunkerInv == ChunkerTypes /\ Stages /\ WordsInOrder /\ WordsHoldAll /\ Located /\ PiecesFit

Held(cs) == UNION {Sources(cs[i].text) : i \in DOMAIN cs}

\* What has been gone through is held.
GoneThroughHeld ==
    /\ Packing => \A i \in 1..next : Within(pieces[i].words) \subseteq Sources(current) \cup Held(chunks)
    /\ chunker = "fixed" /\ stage \in {"pack", "step back"} => 0..(next - 1) \subseteq Held(chunks)

InTurn(cs) ==
    \A i \in DOMAIN cs :
       /\ Ascending(cs[i].text)
       /\ i > 1 => \A a \in Sources(cs[i - 1].text), b \in Sources(cs[i].text) : a < b

HeldInTurn ==
    config.overlap = 0 =>
       /\ InTurn(chunks)
       /\ Packing =>
             /\ Ascending(current)
             /\ chunks # <<>> => \A a \in Sources(chunks[Len(chunks)].text), b \in Sources(current) : a < b
             /\ \A k \in (next + 1)..Len(pieces) :
                   \A a \in Sources(current) \cup Held(chunks) : a < pieces[k].words.from
       /\ chunker = "fixed" /\ stage \in {"pack", "step back"} => \A a \in Held(chunks) : a < next

CurrentFits ==
    Packing /\ current # <<>> =>
       /\ currentStart <= pieces[next].to
       /\ \A a \in Sources(current) : currentStart <= a /\ (Found => a < pieces[next].to)
-----------------------------------------------------------------------------
(* What the steps of splitting come to.                                     *)

(* Pieces lie within the text. *)
LEMMA PieceTypes ==
    ASSUME NEW t \in Texts, NEW q \in Seq(Pieces(t))
    PROVE  /\ Len(t) \in Nat /\ Len(q) \in Nat /\ DOMAIN q = 1..Len(q)
           /\ \A i \in DOMAIN q :
                 /\ q[i].from \in Nat /\ q[i].to \in Nat /\ q[i].from <= Len(t) /\ q[i].to <= Len(t)
                 /\ q[i].words.from \in Nat /\ q[i].words.to \in Nat
                 /\ q[i].words.from <= q[i].words.to /\ q[i].words.to <= Len(t)
                 /\ q[i].words = Span(q[i].words.from, q[i].words.to)
  <1>1. Len(t) \in Nat
    BY TextsAreTexts
  <1>2. DOMAIN q = 1..Len(q) /\ Len(q) \in Nat /\ \A i \in DOMAIN q : q[i] \in Pieces(t)
    OBVIOUS
  <1>3. ASSUME NEW p \in Pieces(t)
        PROVE  /\ p.from \in Nat /\ p.to \in Nat /\ p.from <= Len(t) /\ p.to <= Len(t)
               /\ p.words.from \in Nat /\ p.words.to \in Nat
               /\ p.words.from <= p.words.to /\ p.words.to <= Len(t)
               /\ p.words = Span(p.words.from, p.words.to)
    <2>1. p.from \in 0..Len(t) /\ p.to \in 0..Len(t) /\ p.words \in Spans(t)
      BY DEF Pieces
    <2>2. \A s \in Spans(t) : /\ s.from \in Nat /\ s.to \in Nat /\ s.from <= s.to /\ s.to <= Len(t)
                              /\ s = Span(s.from, s.to)
      BY DEF Spans, Span
    <2> QED BY <1>1, <2>1, <2>2
  <1> HIDE DEF Pieces
  <1> QED BY <1>1, <1>2, <1>3

LEMMA PieceMade ==
    ASSUME NEW t \in Texts, NEW a \in Nat, NEW b \in Nat, a <= b, b <= Len(t),
           NEW f \in 0..Len(t), NEW g \in 0..Len(t)
    PROVE  [words |-> Span(a, b), from |-> f, to |-> g] \in Pieces(t)
  BY DEF Pieces, Spans, Span

\* A sentence lies within the span it is scanned at, and the spans follow one another.
LEMMA SentencesFit ==
    ASSUME NEW t \in Texts, Len(t) # 0
    PROVE  /\ Sentences[t] \in Seq(Pieces(t))
           /\ \A i \in DOMAIN Sentences[t] :
                 /\ Sentences[t][i].from <= Sentences[t][i].words.from
                 /\ Sentences[t][i].words.to <= Sentences[t][i].to
           /\ \A i, j \in DOMAIN Sentences[t] : i < j => Sentences[t][i].to <= Sentences[t][j].from
           /\ \A i, j \in DOMAIN Sentences[t] :
                 i < j => Sentences[t][i].words.to <= Sentences[t][j].words.from
           /\ \A x \in Solid(t, Whole(t)) : \E i \in DOMAIN Sentences[t] :
                 x \in Within(Sentences[t][i].words)
  <1> DEFINE q == Sentences[t]
             n == Len(q)
  <1>1. IsText(t) /\ Len(t) \in Nat
    BY TextsAreTexts
  <1>2. /\ n \in Nat /\ DOMAIN q = 1..n /\ q = [i \in DOMAIN q |-> q[i]]
        /\ \A i \in 1..n :
              /\ q[i].from \in Nat /\ q[i].to \in Nat /\ q[i].from <= q[i].to /\ q[i].to <= Len(t)
              /\ q[i] = [words |-> TrimSpace(t, Span(q[i].from, q[i].to)), from |-> q[i].from, to |-> q[i].to]
        /\ \A i, j \in 1..n : i < j => q[i].to <= q[j].from
        /\ \A x \in Solid(t, Whole(t)) : \E i \in 1..n : x \in Solid(t, Span(q[i].from, q[i].to))
    BY SentencesAre
  <1> HIDE DEF q, n
  <1>3. ASSUME NEW i \in 1..n
        PROVE  /\ q[i] \in Pieces(t)
               /\ q[i].words.from \in Nat /\ q[i].words.to \in Nat
               /\ q[i].from <= q[i].words.from /\ q[i].words.to <= q[i].to
               /\ \A x \in Solid(t, Span(q[i].from, q[i].to)) : x \in Within(q[i].words)
    <2> DEFINE a == q[i].from
               b == q[i].to
    <2>1. a \in Nat /\ b \in Nat /\ a <= b /\ b <= Len(t)
          /\ q[i] = [words |-> TrimSpace(t, Span(a, b)), from |-> a, to |-> b]
      BY <1>2
    <2> HIDE DEF a, b
    <2>2. PICK c, d \in Nat :
             /\ TrimSpace(t, Span(a, b)) = Span(c, d)
             /\ a <= c /\ c <= d /\ d <= b
             /\ \A x \in Solid(t, Span(a, b)) : c <= x /\ x < d
      BY <1>1, <2>1, TrimIs
    <2>3. q[i] = [words |-> Span(c, d), from |-> a, to |-> b] /\ q[i].words = Span(c, d)
      BY <2>1, <2>2
    <2>4. Span(c, d).from = c /\ Span(c, d).to = d /\ Within(Span(c, d)) = {x \in Nat : c <= x /\ x < d}
      BY <2>2, SpanIs
    <2>5. q[i] \in Pieces(t)
      <3>1. d <= Len(t) /\ a \in 0..Len(t) /\ b \in 0..Len(t)
        BY <1>1, <2>1, <2>2
      <3> QED BY <2>2, <2>3, <3>1, PieceMade
    <2>6. \A x \in Solid(t, Span(a, b)) : x \in Nat
      BY <1>1, <2>1, SolidIs
    <2> QED BY <2>2, <2>3, <2>4, <2>5, <2>6 DEF a, b
  <1>4. q \in Seq(Pieces(t))
    <2>1. q \in [1..n -> Pieces(t)]
      BY <1>2, <1>3
    <2>2. n \in Nat
      BY <1>2
    <2> QED BY ONLY <2>1, <2>2, SeqDef
  <1>5. \A i, j \in 1..n : i < j => q[i].words.to <= q[j].words.from
    <2> SUFFICES ASSUME NEW i \in 1..n, NEW j \in 1..n, i < j
                 PROVE  q[i].words.to <= q[j].words.from
      OBVIOUS
    <2>1. q[i].words.to <= q[i].to /\ q[i].to <= q[j].from /\ q[j].from <= q[j].words.from
      BY <1>2, <1>3
    <2> QED BY <1>2, <1>3, <2>1
  <1> QED BY <1>2, <1>3, <1>4, <1>5 DEF q

(* There is nothing solid between two parts. *)
LEMMA BetweenParts ==
    ASSUME NEW t \in Texts, NEW k \in 1..Len(Parts[t]), k + 1 \in 1..Len(Parts[t]),
           NEW x \in Nat, Parts[t][k].to <= x, x < Parts[t][k + 1].from
    PROVE  t[x + 1] \in Blank
  <1> DEFINE q == Parts[t]
             n == Len(q)
  <1>1. IsText(t) /\ Len(t) \in Nat
    BY TextsAreTexts
  <1>2. /\ n \in Nat
        /\ \A i \in 1..n : /\ q[i] = Span(q[i].from, q[i].to)
                           /\ q[i].from \in Nat /\ q[i].to \in Nat
                           /\ q[i].from <= q[i].to /\ q[i].to <= Len(t)
        /\ \A i, j \in 1..n : i < j => q[i].to + 2 <= q[j].from
        /\ \A y \in Solid(t, Whole(t)) : \E i \in 1..n : y \in Solid(t, q[i])
    BY PartsAre
  <1> HIDE DEF q, n
  <1>3. k \in 1..n /\ k + 1 \in 1..n /\ q[k].to <= x /\ x < q[k + 1].from
    BY DEF q, n
  <1> SUFFICES ASSUME t[x + 1] \notin Blank
               PROVE  FALSE
    OBVIOUS
  <1>4. x < Len(t)
    BY SMTT(40), <1>1, <1>2, <1>3
  <1>5. x \in Solid(t, Whole(t))
    BY <1>1, <1>4, SolidIs DEF Whole
  <1>6. PICK i \in 1..n : x \in Solid(t, q[i])
    BY <1>2, <1>5
  <1>7. q[i].from <= x /\ x < q[i].to
    <2>1. q[i] = Span(q[i].from, q[i].to) /\ q[i].from \in Nat /\ q[i].to \in Nat /\ q[i].to <= Len(t)
      BY <1>2
    <2> QED BY <1>1, <1>6, <2>1, SolidIs
  <1>8. \A j, h \in 1..n : j < h => q[j].to + 2 <= q[h].from
    BY <1>2
  <1>9. /\ q[k].from \in Nat /\ q[k].to \in Nat /\ q[k].from <= q[k].to
        /\ q[k + 1].from \in Nat /\ q[k + 1].to \in Nat /\ q[k + 1].from <= q[k + 1].to
        /\ q[i].from \in Nat /\ q[i].to \in Nat
    BY <1>2, <1>3
  <1>10. i < k \/ i = k \/ i = k + 1 \/ k + 1 < i
    BY <1>2, <1>3
  <1>11. ~ (i < k)
    <2> DEFINE u == q[i].to
               v == q[k].from
               w == q[k].to
    <2>1. i < k => u + 2 <= v
      BY <1>3, <1>8
    <2>2. u \in Nat /\ v \in Nat /\ w \in Nat /\ v <= w /\ w <= x /\ x < u
      BY <1>3, <1>7, <1>9
    <2> HIDE DEF u, v, w
    <2> QED BY <2>1, <2>2
  <1>12. ~ (k + 1 < i)
    <2> DEFINE u == q[k + 1].from
               v == q[k + 1].to
               w == q[i].from
    <2>1. k + 1 < i => v + 2 <= w
      BY <1>3, <1>8
    <2>2. u \in Nat /\ v \in Nat /\ w \in Nat /\ u <= v /\ x < u /\ w <= x
      BY <1>3, <1>7, <1>9
    <2> HIDE DEF u, v, w
    <2> QED BY <2>1, <2>2
  <1> QED BY <1>3, <1>7, <1>9, <1>10, <1>11, <1>12

(* The newlines counted after a paragraph are in the text. *)
LEMMA NewlinesAre ==
    ASSUME text \in Texts, NEW i \in 0..Len(text)
    PROVE  Max(Newlines(i)) \in 0..2 /\ i + Max(Newlines(i)) <= Len(text)
  <1>1. Len(text) \in Nat
    BY TextsAreTexts
  <1>2. Newlines(i) \in SUBSET Nat /\ 0 \in Newlines(i) /\ \A k \in Newlines(i) : k <= 2
    BY <1>1 DEF Newlines
  <1>3. Max(Newlines(i)) \in Newlines(i)
    BY <1>2, MaxIs
  <1>4. ASSUME NEW k \in Newlines(i)
        PROVE  k \in 0..2 /\ i + k <= Len(text)
    <2>1. k \in 0..2 /\ i..(i + k - 1) \subseteq 0..(Len(text) - 1)
      BY DEF Newlines, Of, Positions
    <2>2. k # 0 => i + k - 1 \in i..(i + k - 1)
      BY <1>1, <2>1
    <2> QED BY <1>1, <2>1, <2>2
  <1> QED BY <1>3, <1>4
-----------------------------------------------------------------------------
(* ChunkerInv is an invariant.                                              *)

(* The invariant holds at first ... *)
LEMMA ChunkerStarts == ChunkInit => ChunkerInv
  <1> SUFFICES ASSUME ChunkInit
               PROVE  ChunkerInv
    OBVIOUS
  <1>1. PICK c \in Configs : config = NewChunker(c)
    BY DEF ChunkInit
  <1>2. c.maxSize \in Int /\ c.overlap \in Int /\ c.minSize \in Int
    BY ChunkerAssumption
  <1>3. /\ config.maxSize \in Nat \ {0} /\ config.overlap \in Nat /\ config.minSize \in Nat \ {0}
        /\ config.strategy \in {"paragraph", "sentence", "fixed"}
    <2> DEFINE m == IF c.maxSize <= 0 THEN 1000 ELSE c.maxSize
               o == IF c.overlap < 0 THEN 100 ELSE c.overlap
    <2>1. m \in Nat \ {0} /\ o \in Nat
      BY <1>2
    <2>2. m \div 10 \in Nat
      BY <2>1
    <2>3. /\ config.maxSize = m /\ config.overlap = IF o >= m THEN m \div 10 ELSE o
          /\ config.minSize = IF c.minSize <= 0 THEN 200 ELSE c.minSize
          /\ config.strategy \in {"paragraph", "sentence", "fixed"}
      BY <1>1 DEF NewChunker
    <2> QED BY <1>2, <2>1, <2>2, <2>3
  <1>4. /\ text \in Texts /\ chunker = config.strategy /\ stage = "enter" /\ pieces = <<>> /\ place = 0
        /\ next = 0 /\ current = <<>> /\ currentStart = 0 /\ chunks = <<>> /\ Len(text) \in Nat
    BY TextsAreTexts DEF ChunkInit
  <1>5. ChunkerTypes
    BY <1>3, <1>4 DEF ChunkerTypes
  <1>6. Stages
    BY <1>4 DEF Stages, Packing
  <1>7. WordsInOrder /\ WordsHoldAll /\ Located /\ PiecesFit
    BY <1>4 DEF WordsInOrder, WordsHoldAll, Located, PiecesFit, Packing
  <1> QED BY <1>5, <1>6, <1>7 DEF ChunkerInv

(* What is said of the pieces stays true when they stay. *)
LEMMA PiecesStay ==
    ASSUME ChunkerInv, UNCHANGED <<text, chunker, pieces>>, stage' # "scan", Packing' => Packing
    PROVE  WordsInOrder' /\ WordsHoldAll' /\ Located' /\ PiecesFit'
  BY DEF ChunkerInv, WordsInOrder, WordsHoldAll, Located, PiecesFit, InWords, Found, Findable

(* It says nothing when there are none. *)
LEMMA NoPieces ==
    ASSUME pieces' = <<>>, stage' # "scan", ~ Packing'
    PROVE  WordsInOrder' /\ WordsHoldAll' /\ Located' /\ PiecesFit'
  BY DEF WordsInOrder, WordsHoldAll, Located, PiecesFit, InWords

(* ... and every action keeps it: a text that is one chunk, *)
LEMMA ShortKeeps == ChunkerInv /\ Short => ChunkerInv'
  <1> SUFFICES ASSUME ChunkerInv, Short
               PROVE  ChunkerInv'
    OBVIOUS
  <1>1. Len(text) \in Nat /\ ChunkerTypes /\ Stages
    BY TextsAreTexts DEF ChunkerInv, ChunkerTypes
  <1>2. Copy(Whole(text)) \in Seq(Int)
    BY <1>1, CopyIs DEF Whole
  <1>3. Chunk(Copy(Whole(text)), 0, Len(text)) \in [text : Seq(Int), from : Int, to : Int]
    BY <1>1, <1>2 DEF Chunk
  <1>4. ChunkerTypes'
    BY <1>1, <1>3 DEF ChunkerTypes, Short
  <1>5. Stages' /\ ~ Packing'
    BY DEF Stages, Short, Packing
  <1>6. WordsInOrder' /\ WordsHoldAll' /\ Located' /\ PiecesFit'
    BY <1>5, PiecesStay DEF Short
  <1> QED BY <1>4, <1>5, <1>6 DEF ChunkerInv

(* the splitting into paragraphs or sentences, *)
LEMMA SplitKeeps == ChunkerInv /\ Split => ChunkerInv'
  <1> SUFFICES ASSUME ChunkerInv, Split
               PROVE  ChunkerInv'
    OBVIOUS
  <1>1. Len(text) \in Nat /\ Len(text) # 0 /\ ChunkerTypes /\ Stages /\ text \in Texts
    BY TextsAreTexts DEF ChunkerInv, ChunkerTypes, Split
  <1>2. /\ stage = "enter" /\ next = 0 /\ current = <<>> /\ chunks = <<>>
        /\ UNCHANGED <<text, config, chunker, place, next, current, currentStart, chunks>>
    BY <1>1 DEF Stages, Split
  <1>3. chunker \in {"paragraph", "sentence", "fixed"}
    BY <1>1 DEF ChunkerTypes
  <1>4. CASE chunker = "sentence"
    <2> DEFINE q == Sentences[text]
    <2>1. pieces' = q /\ stage' = "pack"
      BY <1>4 DEF Split
    <2>2. /\ q \in Seq(Pieces(text))
          /\ \A i \in DOMAIN q : /\ q[i].from <= q[i].words.from
                                 /\ q[i].words.to <= q[i].to
          /\ \A i, j \in DOMAIN q : i < j => q[i].to <= q[j].from
          /\ \A i, j \in DOMAIN q : i < j => q[i].words.to <= q[j].words.from
          /\ \A x \in Solid(text, Whole(text)) : \E i \in DOMAIN q : x \in Within(q[i].words)
      BY <1>1, SentencesFit
    <2> HIDE DEF q
    <2>3. ChunkerTypes'
      BY <1>1, <1>2, <2>1, <2>2 DEF ChunkerTypes
    <2>4. Stages'
      <3>1. Len(q) \in Nat
        BY <2>2
      <3> QED BY <1>2, <1>4, <2>1, <3>1 DEF Stages, Packing
    <2>5. \A i \in DOMAIN q : q[i].from <= q[i].to
      <3>1. \A i \in DOMAIN q : /\ q[i].from \in Nat /\ q[i].to \in Nat /\ q[i].words.from \in Nat
                                /\ q[i].words.to \in Nat /\ q[i].words.from <= q[i].words.to
        BY <1>1, <2>2, PieceTypes
      <3> QED BY SMTT(40), <2>2, <3>1
    <2>6. WordsInOrder' /\ WordsHoldAll' /\ Located' /\ PiecesFit'
      BY <1>2, <2>1, <2>2, <2>5 DEF WordsInOrder, WordsHoldAll, Located, PiecesFit, InWords
    <2> QED BY <2>3, <2>4, <2>6 DEF ChunkerInv
  <1>5. CASE chunker = "fixed"
    <2>1. pieces' = <<>> /\ stage' = "pack" /\ ~ Packing'
      BY <1>2, <1>5 DEF Split, Packing
    <2>2. ChunkerTypes'
      BY <1>1, <1>2, <2>1 DEF ChunkerTypes
    <2>3. Stages'
      BY <1>2, <2>1 DEF Stages
    <2>4. WordsInOrder' /\ WordsHoldAll' /\ Located' /\ PiecesFit'
      BY <2>1, NoPieces
    <2> QED BY <2>2, <2>3, <2>4 DEF ChunkerInv
  <1>6. CASE chunker = "paragraph"
    <2>1. pieces' = <<>> /\ stage' = "scan" /\ ~ Packing' /\ place' = 0 /\ next' = 0
      BY <1>1, <1>2, <1>6 DEF Split, Packing, Stages
    <2>2. ChunkerTypes'
      BY <1>1, <1>2, <2>1 DEF ChunkerTypes
    <2>3. Len(Parts[text]) \in Nat \ {0} /\ Parts[text][1].from = 0
      BY <1>1, PartsAre
    <2>4. Stages'
      BY <1>2, <1>6, <2>1, <2>3 DEF Stages
    <2>5. WordsInOrder' /\ WordsHoldAll' /\ PiecesFit'
      BY <2>1 DEF WordsInOrder, WordsHoldAll, PiecesFit
    <2>6. Located'
      BY <1>2, <2>1, <2>3 DEF Located
    <2> QED BY <2>2, <2>4, <2>5, <2>6 DEF ChunkerInv
  <1> QED BY <1>3, <1>4, <1>5, <1>6

(* the end of the scan, *)
LEMMA EndOfScanKeeps == ChunkerInv /\ EndOfScan => ChunkerInv'
  <1> SUFFICES ASSUME ChunkerInv, EndOfScan
               PROVE  ChunkerInv'
    OBVIOUS
  <1>1. ChunkerTypes /\ Stages /\ text \in Texts
    BY DEF ChunkerInv, ChunkerTypes
  <1>2. /\ stage = "scan" /\ next = Len(Parts[text]) /\ next' = 0 /\ current = <<>> /\ chunks = <<>>
        /\ UNCHANGED <<text, config, pieces, place, current, currentStart, chunks>>
    BY <1>1 DEF Stages, EndOfScan
  <1>3. CASE pieces = <<>> /\ chunker' = "sentence" /\ stage' = "enter"
    <2>1. ChunkerTypes' /\ Stages' /\ ~ Packing'
      BY <1>1, <1>2, <1>3 DEF ChunkerTypes, Stages, Packing
    <2>2. WordsInOrder' /\ WordsHoldAll' /\ Located' /\ PiecesFit'
      BY <1>2, <1>3, <2>1, NoPieces
    <2> QED BY <2>1, <2>2 DEF ChunkerInv
  <1>4. CASE pieces # <<>> /\ stage' = "pack" /\ UNCHANGED chunker
    <2>1. Len(pieces) \in Nat
      BY <1>1, PieceTypes DEF ChunkerTypes
    <2>2. ChunkerTypes' /\ Stages'
      BY <1>1, <1>2, <1>4, <2>1 DEF ChunkerTypes, Stages, Packing
    <2>3. WordsInOrder' /\ PiecesFit' /\ Located'
      BY <1>2, <1>4 DEF ChunkerInv, WordsInOrder, PiecesFit, Located, Found, Findable
    <2>4. WordsHoldAll'
      <3>1. ASSUME NEW x \in Solid(text, Whole(text))
            PROVE  InWords(x)
        <4>1. PICK k \in 1..Len(Parts[text]) : x \in Solid(text, Parts[text][k])
          BY <1>1, PartsAre
        <4> QED BY <1>2, <4>1 DEF ChunkerInv, WordsHoldAll
      <3> QED BY <1>2, <1>4, <3>1 DEF WordsHoldAll, InWords
    <2> QED BY <2>2, <2>3, <2>4 DEF ChunkerInv
  <1> QED BY <1>3, <1>4 DEF EndOfScan

(* the cutting at fixed lengths, *)
LEMMA FixedKeeps == ChunkerInv /\ (CutFixed \/ StepBack \/ EndOfFixed) => ChunkerInv'
  <1> SUFFICES ASSUME ChunkerInv, CutFixed \/ StepBack \/ EndOfFixed
               PROVE  ChunkerInv'
    OBVIOUS
  <1>1. ChunkerTypes /\ Stages /\ text \in Texts /\ Len(text) \in Nat
    BY TextsAreTexts DEF ChunkerInv, ChunkerTypes
  <1>2. /\ chunker = "fixed" /\ stage' \in {"pack", "step back", "done"} /\ ~ Packing'
        /\ UNCHANGED <<text, config, chunker, pieces, place, current, currentStart>>
    BY <1>1 DEF CutFixed, StepBack, EndOfFixed, Stages, Packing
  <1>3. next' \in Nat /\ chunks' \in Seq([text : Seq(Int), from : Int, to : Int])
    <2>0. next \in Nat /\ config.maxSize \in Nat /\ config.overlap \in Nat
      BY <1>1 DEF ChunkerTypes
    <2>1. CASE CutFixed
      <3> DEFINE end == Least(next + config.maxSize, Len(text))
                 chunk == Chunk(Copy(Span(next, end)), next, end)
                 R == [text : Seq(Int), from : Int, to : Int]
      <3>0. next < Len(text)
        BY <2>1 DEF CutFixed
      <3>1. end \in Nat /\ next \in Nat /\ next <= end
        BY <1>1, <2>0, <3>0 DEF Least
      <3>2. /\ next' = end
            /\ chunks' = IF chunks # <<>> /\ chunks[Len(chunks)] = chunk THEN chunks
                         ELSE Append(chunks, chunk)
        BY <2>1 DEF CutFixed
      <3> HIDE DEF end
      <3>3. chunk \in R
        BY <3>1, CopyIs DEF Chunk
      <3> HIDE DEF chunk
      <3>4. chunks \in Seq(R)
        BY <1>1 DEF ChunkerTypes
      <3> HIDE DEF R
      <3>5. Append(chunks, chunk) \in Seq(R)
        BY <3>3, <3>4
      <3>6. chunks' \in Seq(R)
        BY <3>2, <3>4, <3>5
      <3> QED BY <3>1, <3>2, <3>6 DEF R
    <2>2. CASE StepBack
      <3>1. next' = IF next < config.overlap THEN 0 ELSE next - config.overlap
        BY <2>2 DEF StepBack
      <3>2. next' \in Nat
        BY <2>0, <3>1
      <3> QED BY <1>1, <2>2, <3>2 DEF StepBack, ChunkerTypes
    <2>3. CASE EndOfFixed
      BY <1>1, <2>3 DEF EndOfFixed, ChunkerTypes
    <2> QED BY <2>1, <2>2, <2>3
  <1>4. ChunkerTypes'
    BY <1>1, <1>2, <1>3 DEF ChunkerTypes
  <1>5. Stages'
    BY <1>2 DEF Stages
  <1>6. WordsInOrder' /\ WordsHoldAll' /\ Located' /\ PiecesFit'
    BY <1>2, PiecesStay
  <1> QED BY <1>4, <1>5, <1>6 DEF ChunkerInv

(* What is blank, and of no paragraph, is gone over when paragraphs are found. *)
LEMMA GapIsSkipped ==
    ASSUME text \in Texts, Findable, NEW h \in 1..Len(Parts[text]), NEW x \in Nat, x < Len(text),
           text[x + 1] \in Blank,
           Parts[text][h].from <= x,
           x < Parts[text][h].to => x \notin Within(TrimSpace(text, Parts[text][h])),
           h + 1 \in 1..Len(Parts[text]) => x < Parts[text][h + 1].from
    PROVE  text[x + 1] \in Skipped
  <1> DEFINE P == Parts[text]
             N == Len(P)
  <1>1. IsText(text) /\ Len(text) \in Nat
    BY TextsAreTexts
  <1>2. /\ N \in Nat /\ DOMAIN P = 1..N
        /\ \A i \in 1..N : /\ P[i] = Span(P[i].from, P[i].to)
                           /\ P[i].from \in Nat /\ P[i].to \in Nat
                           /\ P[i].from <= P[i].to /\ P[i].to <= Len(text)
        /\ \A i, j \in 1..N : i < j => P[i].to + 2 <= P[j].from
    BY PartsAre
  <1>3. /\ h \in 1..N /\ P[h].from <= x
        /\ x < P[h].to => x \notin Within(TrimSpace(text, P[h]))
        /\ h + 1 \in 1..N => x < P[h + 1].from
    OBVIOUS
  <1>4. text[x + 1] \in Blank \ Skipped => \E i \in DOMAIN P : x \in Within(TrimSpace(text, P[i]))
    <2>1. x \in Positions(text)
      BY <1>1 DEF Positions
    <2> QED BY <2>1 DEF Findable, Of
  <1> HIDE DEF P, N
  <1>5. ASSUME NEW i \in 1..N, x \in Within(TrimSpace(text, P[i]))
        PROVE  FALSE
    <2>1. PICK c, d \in Nat : TrimSpace(text, Span(P[i].from, P[i].to)) = Span(c, d) /\ P[i].from <= c /\ d <= P[i].to
      BY <1>1, <1>2, TrimIs
    <2>2. TrimSpace(text, P[i]) = Span(c, d)
      BY <1>2, <2>1
    <2>3. c <= x /\ x < d
      BY <1>5, <2>2, SpanIs
    <2>4. P[i].from <= x /\ x < P[i].to
      BY <1>2, <2>1, <2>3
    <2>5. CASE i < h
      BY <1>2, <1>3, <2>4, <2>5
    <2>6. CASE i = h
      BY <1>3, <1>5, <2>4, <2>6
    <2>7. CASE h < i
      <3>1. h + 1 \in 1..N /\ (h + 1 = i \/ h + 1 < i)
        BY <1>2, <1>3, <2>7
      <3>2. P[h + 1].from <= P[i].from
        BY SMTT(40), <1>2, <3>1
      <3> QED BY <1>2, <1>3, <2>4, <3>1, <3>2
    <2> QED BY <1>2, <1>3, <2>5, <2>6, <2>7
  <1> QED BY <1>2, <1>4, <1>5

(* One part.  It is never placed behind where it is.                         *)
LEMMA ScanPartKeeps == ChunkerInv /\ ScanPart => ChunkerInv'
  <1> SUFFICES ASSUME ChunkerInv, ScanPart
               PROVE  ChunkerInv'
    OBVIOUS
  <1> DEFINE P == Parts[text]
             N == Len(P)
             k == next + 1
             part == P[k]
             a == part.from
             b == part.to
             l == Len(text)
  <1>1. ChunkerTypes /\ Stages /\ text \in Texts /\ l \in Nat /\ IsText(text)
    BY TextsAreTexts DEF ChunkerInv, ChunkerTypes
  <1>2. /\ next \in Nat /\ place \in Nat /\ place <= l /\ pieces \in Seq(Pieces(text))
    <2>1. place \in 0..l /\ next \in Nat /\ pieces \in Seq(Pieces(text))
      BY <1>1 DEF ChunkerTypes
    <2> HIDE DEF l
    <2> QED BY <1>1, <2>1
  <1>3. /\ stage = "scan" /\ next < N /\ next' = next + 1 /\ chunker = "paragraph"
        /\ UNCHANGED <<text, config, chunker, stage, current, currentStart, chunks>>
    BY <1>1 DEF ScanPart, Stages
  <1>4. /\ N \in Nat
        /\ \A i \in 1..N : /\ P[i] = Span(P[i].from, P[i].to)
                           /\ P[i].from \in Nat /\ P[i].to \in Nat
                           /\ P[i].from <= P[i].to /\ P[i].to <= l
        /\ \A i, j \in 1..N : i < j => P[i].to + 2 <= P[j].from
    BY <1>1, PartsAre
  <1>5. \A i \in 1..N, x \in Nat : i + 1 \in 1..N /\ P[i].to <= x /\ x < P[i + 1].from => text[x + 1] \in Blank
    BY <1>1, BetweenParts
  <1>6. IF Solid(text, part) = {}
        THEN place' = Least(place + b - a + 2, l) /\ pieces' = pieces
        ELSE /\ place' = Placed(part).to + Max(Newlines(Placed(part).to))
             /\ pieces' = Append(pieces, [words |-> TrimSpace(text, part),
                                          from |-> Placed(part).from, to |-> Placed(part).to])
    BY DEF ScanPart
  <1> HIDE DEF P, N, l
  <1>7. k \in 1..N /\ k \in Nat
    BY <1>2, <1>3, <1>4
  <1>8. part = Span(a, b) /\ a \in Nat /\ b \in Nat /\ a <= b /\ b <= l
    BY <1>4, <1>7
  <1>9. \A x \in Nat : x \in Solid(text, part) <=> a <= x /\ x < b /\ text[x + 1] \notin Blank
    BY SMTT(40), <1>1, <1>8, SolidIs DEF l
  <1>10. /\ \A i, j \in DOMAIN pieces : i < j => pieces[i].words.to <= pieces[j].words.from
         /\ \A i \in DOMAIN pieces : \A h \in (next + 1)..N : pieces[i].words.to <= P[h].from
         /\ \A h \in 1..next : \A x \in Solid(text, P[h]) : InWords(x)
    BY <1>3 DEF ChunkerInv, WordsInOrder, WordsHoldAll, P, N
  <1>11. k # N => k + 1 \in 1..N /\ b + 2 <= P[k + 1].from /\ P[k + 1].from \in Nat
    BY <1>4, <1>7
  <1>12. /\ place <= a
         /\ \A i \in DOMAIN pieces : pieces[i].to <= place
         /\ Findable =>
               /\ \A i \in DOMAIN pieces : pieces[i].to = pieces[i].words.to
               /\ \A x \in Nat : place <= x /\ x < a => text[x + 1] \in Skipped
    <2>1. /\ place <= a
          /\ \A i \in DOMAIN pieces : pieces[i].to <= place
          /\ Findable =>
                /\ \A i \in DOMAIN pieces : pieces[i].to = pieces[i].words.to
                /\ \A x \in place..(a - 1) : text[x + 1] \in Skipped
      BY <1>3 DEF ChunkerInv, Located, P, N
    <2>2. \A x \in Nat : place <= x /\ x < a => x \in place..(a - 1)
      BY <1>2, <1>8
    <2> QED BY <2>1, <2>2
  \* What is left out before and behind the paragraph.
  <1>13. ASSUME Findable, NEW x \in Nat, place <= x, x < l,
                a <= x /\ x < b => text[x + 1] \in Blank /\ x \notin Within(TrimSpace(text, part)),
                x < b \/ k + 1 \in 1..N,
                k + 1 \in 1..N => x < P[k + 1].from
         PROVE  text[x + 1] \in Skipped
    <2>1. CASE x < a
      BY <1>12, <1>13, <2>1
    <2>2. CASE a <= x
      <3>1. text[x + 1] \in Blank
        <4>1. CASE b <= x
          BY <1>5, <1>7, <1>8, <1>13, <4>1
        <4>2. CASE x < b
          BY <1>13, <2>2, <4>2
        <4> QED BY <1>8, <4>1, <4>2
      <3>2. x < b => x \notin Within(TrimSpace(text, part))
        BY <1>13, <2>2
      <3> QED BY <1>1, <1>7, <1>13, <2>2, <3>1, <3>2, GapIsSkipped DEF P, N, part, a, b, l
    <2> QED BY <1>8, <2>1, <2>2
  <1> HIDE DEF part, a, b, k
  <1>14. next' = k /\ next < k /\ (k + 1)..N \subseteq k..N /\ k \in k..N
         /\ 1..k \subseteq 1..next \cup {k} /\ k + 1 \in Nat
    BY <1>2, <1>3, <1>4, <1>7 DEF k
  <1>15. Stages'
    BY <1>1, <1>3, <1>7, <1>14 DEF Stages, Packing, P, N
  <1>16. (Findable' <=> Findable) /\ (Found' <=> Findable) /\ (Found <=> Findable)
    BY <1>3 DEF Findable, Found
  <1>17. CASE Solid(text, part) = {}
    <2>1. place' = Least(place + b - a + 2, l) /\ pieces' = pieces
      BY <1>6, <1>17
    <2>2. place' \in Nat /\ place' <= l /\ place' <= place + b - a + 2 /\ place <= place'
      BY <1>1, <1>2, <1>8, <2>1 DEF Least
    <2>3. ChunkerTypes'
      BY <1>1, <1>3, <1>14, <2>1, <2>2, <1>7 DEF ChunkerTypes, l
    <2>4. WordsInOrder'
      BY <1>3, <1>10, <1>14, <2>1 DEF WordsInOrder, P, N, k
    <2>5. WordsHoldAll'
      <3>1. \A h \in 1..k : \A x \in Solid(text, P[h]) : InWords(x)
        BY <1>10, <1>14, <1>17 DEF part
      <3> QED BY <1>3, <1>14, <2>1, <3>1 DEF WordsHoldAll, InWords, P, Packing
    <2>6. Located'
      <3>1. k < N => k + 1 \in 1..N /\ b + 2 <= P[k + 1].from /\ P[k + 1].from \in Nat
        BY <1>4, <1>11
      <3>2. k < N => place' <= P[k + 1].from
        BY <1>2, <1>8, <1>12, <2>2, <3>1
      <3>3. \A i \in DOMAIN pieces' : pieces'[i].to <= place'
        <4>1. \A i \in DOMAIN pieces : pieces[i].to \in Nat
          BY <1>1, <1>2, PieceTypes
        <4> QED BY <1>2, <1>12, <2>1, <2>2, <4>1
      <3>4. ASSUME Findable, k < N, NEW x \in place'..(P[k + 1].from - 1)
            PROVE  text[x + 1] \in Skipped
        <4>1. x \in Nat /\ place <= x /\ x < P[k + 1].from
          BY <1>2, <2>2, <3>1, <3>4
        <4>2. x < l
          <5>1. P[k + 1].to \in Nat /\ P[k + 1].from <= P[k + 1].to /\ P[k + 1].to <= l
            BY <1>4, <3>1, <3>4
          <5> QED BY <1>1, <3>1, <3>4, <4>1, <5>1
        <4>3. Within(TrimSpace(text, part)) = {}
          <5>1. TrimSpace(text, part) = Span(a, a)
            BY <1>8, <1>17 DEF TrimSpace, a
          <5>2. Within(Span(a, a)) = {y \in Nat : a <= y /\ y < a}
            BY <1>8, SpanIs
          <5>3. \A y \in Nat : ~ (a <= y /\ y < a)
            BY <1>8
          <5>4. {y \in Nat : a <= y /\ y < a} = {}
            BY <5>3
          <5> QED BY <5>1, <5>2, <5>4
        <4>4. a <= x /\ x < b => text[x + 1] \in Blank
          BY <1>9, <1>17, <4>1
        <4> QED BY <1>13, <3>1, <3>4, <4>1, <4>2, <4>3, <4>4
      <3> QED BY <1>3, <1>12, <1>14, <1>16, <2>1, <3>2, <3>3, <3>4 DEF Located, P, N
    <2>7. PiecesFit'
      BY <1>16, <2>1 DEF ChunkerInv, PiecesFit
    <2> QED BY <1>15, <2>3, <2>4, <2>5, <2>6, <2>7 DEF ChunkerInv
  <1>18. CASE Solid(text, part) # {}
    <2>1. PICK c, d \in Nat :
             /\ TrimSpace(text, Span(a, b)) = Span(c, d)
             /\ a <= c /\ c <= d /\ d <= b
             /\ \A x \in Solid(text, Span(a, b)) : c <= x /\ x < d
             /\ Solid(text, Span(a, b)) # {} => c \in Solid(text, Span(a, b))
      BY <1>1, <1>8, TrimIs DEF l
    <2>2. TrimSpace(text, part) = Span(c, d) /\ Span(c, d).from = c /\ Span(c, d).to = d
      BY <1>8, <2>1, SpanIs
    <2> DEFINE f == FirstFrom(text, place, Skipped)
               g == Least(f + d - c, l)
               p == [words |-> Span(c, d), from |-> f, to |-> g]
    <2>3. /\ f \in 0..l
          /\ f < l => place <= f /\ text[f + 1] \notin Skipped
          /\ \A j \in 0..(l - 1) : place <= j /\ text[j + 1] \notin Skipped => f <= j
      BY <1>1, <1>2, FirstFromIs DEF l
    <2>4. Placed(part) = Span(f, g)
      BY <2>2 DEF Placed, l
    <2> HIDE DEF f, g
    <2>5. g \in 0..l /\ (f = c => g = d)
      BY <1>1, <1>8, <2>1, <2>3 DEF Least, g
    <2>6. Placed(part).from = f /\ Placed(part).to = g
      BY <2>4 DEF Span
    <2>7. place' = g + Max(Newlines(g)) /\ pieces' = Append(pieces, p)
      BY <1>6, <1>18, <2>2, <2>6
    <2>8. p \in Pieces(text) /\ p.words.from = c /\ p.words.to = d /\ p.from = f /\ p.to = g
          /\ Within(p.words) = {x \in Nat : c <= x /\ x < d}
      <3>1. d <= Len(text) /\ f \in 0..Len(text) /\ g \in 0..Len(text)
        BY <1>1, <1>8, <2>1, <2>3, <2>5 DEF l
      <3>2. p \in Pieces(text)
        BY <1>1, <2>1, <3>1, PieceMade
      <3> QED BY <2>1, <2>2, <3>2, SpanIs
    <2>9. Max(Newlines(g)) \in 0..2 /\ g + Max(Newlines(g)) <= l
      BY <1>1, <2>5, NewlinesAre DEF l
    <2>10. place' \in Nat /\ place' <= l /\ place' <= g + 2 /\ g <= place'
      BY <2>5, <2>7, <2>9
    <2> HIDE DEF p
    <2>11. /\ pieces' \in Seq(Pieces(text)) /\ Len(pieces) \in Nat
           /\ DOMAIN pieces = 1..Len(pieces) /\ DOMAIN pieces' = 1..(Len(pieces) + 1)
           /\ \A i \in DOMAIN pieces : pieces'[i] = pieces[i]
           /\ pieces'[Len(pieces) + 1] = p
      BY <1>2, <2>7, <2>8, AppendProperties
    <2>12. \A i \in DOMAIN pieces' : \/ i \in DOMAIN pieces /\ pieces'[i] = pieces[i]
                                     \/ i = Len(pieces) + 1 /\ pieces'[i] = p
      BY <2>11
    <2>13. ChunkerTypes'
      BY <1>1, <1>3, <1>7, <1>14, <2>10, <2>11 DEF ChunkerTypes, l
    <2>14. \A i \in DOMAIN pieces : /\ pieces[i].words.to <= a /\ pieces[i].words.to \in Nat
                                    /\ pieces[i].words.to <= c
      BY <1>1, <1>2, <1>8, <1>10, <1>14, <2>1, PieceTypes DEF a, part, k
    <2>15. \A h \in (k + 1)..N : d <= P[h].from
      <3> SUFFICES ASSUME NEW h \in (k + 1)..N
                   PROVE  d <= P[h].from
        OBVIOUS
      <3>1. h \in 1..N /\ k < h
        BY <1>4, <1>7
      <3>2. b + 2 <= P[h].from /\ P[h].from \in Nat
        BY <1>4, <1>7, <3>1 DEF b, part
      <3> QED BY <1>8, <2>1, <3>2
    <2>16. \A i, j \in DOMAIN pieces' : i < j => pieces'[i].words.to <= pieces'[j].words.from
      <3> SUFFICES ASSUME NEW i \in DOMAIN pieces', NEW j \in DOMAIN pieces', i < j
                   PROVE  pieces'[i].words.to <= pieces'[j].words.from
        OBVIOUS
      <3>1. i \in DOMAIN pieces /\ pieces'[i] = pieces[i]
        BY <2>11, <2>12
      <3>2. CASE j \in DOMAIN pieces /\ pieces'[j] = pieces[j]
        BY <1>10, <3>1, <3>2
      <3>3. CASE pieces'[j] = p
        BY <2>8, <2>14, <3>1, <3>3
      <3> QED BY <2>12, <3>2, <3>3
    <2>17. WordsInOrder'
      <3>1. \A i \in DOMAIN pieces' : \A h \in (k + 1)..N : pieces'[i].words.to <= P[h].from
        BY <1>10, <1>14, <2>8, <2>12, <2>15 DEF k
      <3> QED BY <1>3, <1>14, <2>16, <3>1 DEF WordsInOrder, P, N
    <2>18. WordsHoldAll'
      <3>1. \A x : InWords(x) => InWords(x)'
        BY <2>11 DEF InWords
      <3>2. \A x \in Solid(text, part) : InWords(x)'
        <4>1. \A x \in Solid(text, part) : x \in Nat
          BY <1>1, <1>8, SolidIs DEF l
        <4>2. \A x \in Solid(text, part) : x \in Within(p.words)
          BY <1>8, <2>1, <2>8, <4>1
        <4>3. Len(pieces) + 1 \in DOMAIN pieces'
          BY <2>11
        <4> QED BY <2>11, <4>2, <4>3 DEF InWords
      <3>3. \A h \in 1..k : \A x \in Solid(text, P[h]) : InWords(x)'
        BY <1>10, <1>14, <3>1, <3>2 DEF part
      <3> QED BY <1>3, <1>14, <3>3 DEF WordsHoldAll, P, Packing
    <2>19. c \in 0..(l - 1) /\ c < b /\ text[c + 1] \notin Blank /\ f <= c /\ place <= f /\ f <= g /\ g <= d
      <3>1. c \in Solid(text, part)
        BY <1>8, <1>18, <2>1
      <3>2. c < b /\ text[c + 1] \notin Blank /\ c \in 0..(l - 1)
        BY <1>1, <1>8, <1>9, <2>1, <3>1
      <3>3. text[c + 1] \notin Skipped
        BY <3>2 DEF Blank, Spaces
      <3>4. f <= c
        BY <1>2, <1>8, <1>12, <2>1, <2>3, <3>2, <3>3
      <3>5. place <= f
        BY <1>1, <1>2, <2>3, <3>2, <3>4
      <3>6. f <= g /\ g <= d
        BY <1>1, <1>8, <2>1, <2>3, <3>4 DEF Least, g
      <3> QED BY <3>2, <3>4, <3>5, <3>6
    <2>20. Findable => g = d
      <3> SUFFICES ASSUME Findable, f < c
                   PROVE  FALSE
        BY <2>1, <2>3, <2>5, <2>19
      <3>1. f \in Nat /\ f < l /\ f < b /\ place <= f /\ text[f + 1] \notin Skipped
        BY <1>1, <1>8, <2>1, <2>3, <2>19
      <3>2. f \notin Within(TrimSpace(text, part))
        BY <2>1, <2>2, <2>8, <3>1, SpanIs
      <3>3. a <= f => text[f + 1] \in Blank
        BY <1>8, <1>9, <2>1, <3>1
      <3>4. k + 1 \in 1..N => f < P[k + 1].from
        BY <1>4, <1>7, <1>8, <1>11, <3>1
      <3> QED BY <1>13, <3>1, <3>2, <3>3, <3>4
    <2>21. Located'
      <3>1. k < N => k + 1 \in 1..N /\ b + 2 <= P[k + 1].from /\ P[k + 1].from \in Nat
        BY <1>4, <1>11
      <3>2. k < N => place' <= P[k + 1].from
        BY <1>8, <2>1, <2>5, <2>10, <2>19, <3>1
      <3>3. \A i \in DOMAIN pieces' : pieces'[i].to <= place'
        <4>1. \A i \in DOMAIN pieces : pieces[i].to \in Nat
          BY <1>1, <1>2, PieceTypes
        <4> QED BY <1>2, <1>12, <2>3, <2>5, <2>8, <2>10, <2>12, <2>19, <4>1
      <3>4. Findable => \A i \in DOMAIN pieces' : pieces'[i].to = pieces'[i].words.to
        BY <1>12, <2>8, <2>12, <2>20
      <3>5. ASSUME Findable, k < N, NEW x \in place'..(P[k + 1].from - 1)
            PROVE  text[x + 1] \in Skipped
        <4>1. x \in Nat /\ place <= x /\ d <= x /\ x < P[k + 1].from
          BY <1>2, <2>1, <2>3, <2>5, <2>10, <2>19, <2>20, <3>1, <3>5
        <4>2. x < l
          <5>1. P[k + 1].to \in Nat /\ P[k + 1].from <= P[k + 1].to /\ P[k + 1].to <= l
            BY <1>4, <3>1, <3>5
          <5> QED BY <1>1, <3>1, <3>5, <4>1, <5>1
        <4>3. x \notin Within(TrimSpace(text, part))
          BY <2>1, <2>2, <4>1, SpanIs
        <4>4. a <= x /\ x < b => text[x + 1] \in Blank
          <5>1. x \notin Solid(text, part)
            BY <1>8, <2>1, <4>1
          <5> QED BY <1>9, <4>1, <5>1
        <4> QED BY <1>13, <3>1, <3>5, <4>1, <4>2, <4>3, <4>4
      <3> QED BY <1>3, <1>14, <1>16, <3>2, <3>3, <3>4, <3>5 DEF Located, P, N
    <2>22. PiecesFit'
      <3>1. \A i \in DOMAIN pieces : pieces[i].to \in Nat /\ pieces[i].from \in Nat
        BY <1>1, <1>2, PieceTypes
      <3>2. /\ \A i \in DOMAIN pieces : /\ pieces[i].from <= pieces[i].words.from
                                        /\ pieces[i].from <= pieces[i].to
                                        /\ Findable => pieces[i].words.to <= pieces[i].to
            /\ \A i, j \in DOMAIN pieces : i < j => pieces[i].to <= pieces[j].from
        BY <1>16 DEF ChunkerInv, PiecesFit
      <3>3. \A i \in DOMAIN pieces' : /\ pieces'[i].from <= pieces'[i].words.from
                                      /\ pieces'[i].from <= pieces'[i].to
                                      /\ Findable => pieces'[i].words.to <= pieces'[i].to
        BY <2>1, <2>8, <2>12, <2>19, <2>20, <3>2
      <3>4. ASSUME NEW i \in DOMAIN pieces', NEW j \in DOMAIN pieces', i < j
            PROVE  pieces'[i].to <= pieces'[j].from
        <4>1. i \in DOMAIN pieces /\ pieces'[i] = pieces[i]
          BY <2>11, <2>12, <3>4
        <4>2. CASE j \in DOMAIN pieces /\ pieces'[j] = pieces[j]
          BY <3>2, <3>4, <4>1, <4>2
        <4>3. CASE pieces'[j] = p
          BY <1>2, <1>12, <2>3, <2>8, <2>19, <3>1, <4>1, <4>3
        <4> QED BY <2>12, <4>2, <4>3
      <3> QED BY <1>16, <3>3, <3>4 DEF PiecesFit
    <2> QED BY <1>15, <2>13, <2>17, <2>18, <2>21, <2>22 DEF ChunkerInv
  <1> QED BY <1>17, <1>18

(* What AddPiece adds, and what a new chunk takes over from the one before.  *)
NextPiece == pieces[next + 1]
NextWords == Copy(NextPiece.words)
EndSoFar == pieces[next].to
Carried == OverlapText(EndSoFar - config.overlap, EndSoFar)

(* What the next piece is, and what stays when it is taken. *)
LEMMA NextPieceIs ==
    ASSUME ChunkerInv, AddPiece
    PROVE  /\ Packing /\ Packing' /\ stage' = "pack" /\ next \in Nat /\ Len(pieces) \in Nat
           /\ next + 1 \in DOMAIN pieces /\ DOMAIN pieces = 1..Len(pieces) /\ next' = next + 1
           /\ UNCHANGED <<text, config, chunker, stage, pieces, place>>
           /\ NextPiece.from \in Nat /\ NextPiece.to \in Nat
           /\ NextPiece.words.from \in Nat /\ NextPiece.words.to \in Nat
           /\ NextPiece.words.from <= NextPiece.words.to
           /\ NextWords \in Seq(Int) /\ Ascending(NextWords)
           /\ Len(NextWords) = NextPiece.words.to - NextPiece.words.from
           /\ Sources(NextWords) = Within(NextPiece.words)
           /\ Within(NextPiece.words) = {x \in Nat : NextPiece.words.from <= x /\ x < NextPiece.words.to}
  <1>1. ChunkerTypes /\ Stages /\ text \in Texts /\ pieces \in Seq(Pieces(text)) /\ next \in Nat
    BY DEF ChunkerInv, ChunkerTypes
  <1>2. /\ Packing /\ next < Len(pieces) /\ next' = next + 1
        /\ UNCHANGED <<text, config, chunker, stage, pieces, place>>
    BY DEF AddPiece
  <1>3. Packing' /\ stage' = "pack"
    BY <1>2 DEF Packing
  <1>4. Len(pieces) \in Nat /\ DOMAIN pieces = 1..Len(pieces)
    BY <1>1, PieceTypes
  <1>5. next + 1 \in DOMAIN pieces
    BY <1>1, <1>2, <1>4
  <1> DEFINE c == NextPiece.words.from
             d == NextPiece.words.to
  <1>6. /\ NextPiece.from \in Nat /\ NextPiece.to \in Nat /\ c \in Nat /\ d \in Nat /\ c <= d
        /\ NextPiece.words = Span(c, d)
    BY <1>1, <1>5, PieceTypes DEF NextPiece
  <1> HIDE DEF c, d
  <1>7. /\ NextWords \in Seq(Int) /\ Ascending(NextWords) /\ Len(NextWords) = d - c
        /\ Sources(NextWords) = Within(NextPiece.words)
        /\ Within(NextPiece.words) = {x \in Nat : c <= x /\ x < d}
    <2>1. NextWords = Copy(Span(c, d)) /\ NextPiece.words = Span(c, d)
      BY <1>6 DEF NextWords
    <2>2. /\ Copy(Span(c, d)) \in Seq(Int) /\ Ascending(Copy(Span(c, d))) /\ Len(Copy(Span(c, d))) = d - c
          /\ Sources(Copy(Span(c, d))) = Within(Span(c, d))
      BY <1>6, CopyIs
    <2>3. Within(Span(c, d)) = {x \in Nat : c <= x /\ x < d}
      BY <1>6, SpanIs
    <2>4. Within(NextPiece.words) = Within(Span(c, d))
      BY <2>1
    <2> QED BY <2>1, <2>2, <2>3, <2>4
  <1> QED BY <1>1, <1>2, <1>3, <1>4, <1>5, <1>6, <1>7 DEF c, d

(* What is carried over comes from the last overlap positions before the end. *)
LEMMA CarriedIs ==
    ASSUME ChunkerInv, AddPiece, current # <<>>
    PROVE  /\ next \in DOMAIN pieces /\ EndSoFar \in Nat /\ config.overlap \in Nat
           /\ Carried \in Seq(Int) /\ Len(Carried) <= config.overlap
           /\ \A a \in Sources(Carried) : a \in Nat /\ EndSoFar - config.overlap <= a /\ a < EndSoFar
  <1>1. /\ text \in Texts /\ pieces \in Seq(Pieces(text)) /\ config.overlap \in Nat
        /\ Packing => (current # <<>> => next >= 1)
    BY DEF ChunkerInv, ChunkerTypes, Stages
  <1>2. next \in DOMAIN pieces
    BY <1>1, NextPieceIs
  <1>3. EndSoFar \in Nat
    BY <1>1, <1>2, PieceTypes DEF EndSoFar
  <1>4. /\ EndSoFar - config.overlap \in Int /\ EndSoFar - config.overlap <= EndSoFar
        /\ EndSoFar - (EndSoFar - config.overlap) = config.overlap
    BY <1>1, <1>3
  <1>5. /\ Carried \in Seq(Int) /\ Len(Carried) <= EndSoFar - (EndSoFar - config.overlap)
        /\ \A a \in Sources(Carried) : a \in Nat /\ EndSoFar - config.overlap <= a /\ a < EndSoFar
    BY <1>1, <1>3, <1>4, OverlapTextIs DEF Carried
  <1> QED BY <1>1, <1>2, <1>3, <1>4, <1>5

(* The four ways AddPiece goes. *)
Skips == NextWords = <<>> /\ UNCHANGED <<current, currentStart, chunks>>
Begins == /\ NextWords # <<>> /\ current = <<>>
          /\ current' = NextWords /\ currentStart' = NextPiece.from /\ chunks' = chunks
BeginsAnew == /\ NextWords # <<>> /\ current # <<>>
              /\ chunks' = Append(chunks, Chunk(current, currentStart, EndSoFar))
              /\ \/ /\ config.overlap > 0 /\ Carried # <<>>
                    /\ current' = Carried \o NextWords /\ currentStart' = EndSoFar - config.overlap
                 \/ current' = NextWords /\ currentStart' = NextPiece.from
GoesOn == /\ NextWords # <<>> /\ current # <<>> /\ ~ TooLong(NextWords)
          /\ current' = current \o Separator \o NextWords /\ UNCHANGED <<currentStart, chunks>>

\* A piece is skipped, begins the first chunk or a new one, or goes on with the chunk.
LEMMA AddPieceIs == AddPiece => Skips \/ Begins \/ BeginsAnew \/ GoesOn
  BY DEF AddPiece, NewChunk, Skips, Begins, BeginsAnew, GoesOn, NextWords, NextPiece, EndSoFar, Carried

(* The text and the start stay of their types. *)
LEMMA CurrentIs ==
    ASSUME ChunkerInv, AddPiece
    PROVE  /\ current' \in Seq(Int) /\ currentStart' \in Int
           /\ NextWords # <<>> => current' # <<>>
           /\ current # <<>> => current' # <<>>
           /\ current' = <<>> => chunks' = <<>>
           /\ chunks' \in Seq([text : Seq(Int), from : Int, to : Int])
  <1> DEFINE R == [text : Seq(Int), from : Int, to : Int]
  <1>1. current \in Seq(Int) /\ currentStart \in Int /\ chunks \in Seq(R)
        /\ (Packing => (current = <<>> => chunks = <<>>))
    BY DEF ChunkerInv, ChunkerTypes, Stages
  <1>2. NextWords \in Seq(Int) /\ NextPiece.from \in Nat /\ Packing
    BY NextPieceIs
  <1>3. CASE Skips
    BY <1>1, <1>2, <1>3 DEF Skips
  <1>4. CASE Begins
    BY <1>1, <1>2, <1>4 DEF Begins
  <1>5. CASE BeginsAnew
    <2>1. current # <<>>
      BY <1>5 DEF BeginsAnew
    <2>2. EndSoFar \in Nat /\ config.overlap \in Nat /\ Carried \in Seq(Int)
      BY <2>1, CarriedIs
    <2>3. Chunk(current, currentStart, EndSoFar) \in R
      BY <1>1, <2>2 DEF Chunk
    <2>4. Carried \o NextWords \in Seq(Int) /\ (NextWords # <<>> => Carried \o NextWords # <<>>)
      BY <1>2, <2>2, JoinIs
    <2> HIDE DEF R
    <2>5. chunks' \in Seq(R)
      BY <1>1, <1>5, <2>3 DEF BeginsAnew
    <2>6. NextWords # <<>>
      BY <1>5 DEF BeginsAnew
    <2>7. CASE current' = Carried \o NextWords /\ currentStart' = EndSoFar - config.overlap
      BY <2>2, <2>4, <2>5, <2>6, <2>7 DEF R
    <2>8. CASE current' = NextWords /\ currentStart' = NextPiece.from
      BY <1>2, <2>5, <2>6, <2>8 DEF R
    <2> QED BY <1>5, <2>7, <2>8 DEF BeginsAnew
  <1>6. CASE GoesOn
    <2>1. current \o Separator \in Seq(Int)
      BY <1>1, SeparatorIs, JoinIs
    <2>2. /\ current \o Separator \o NextWords \in Seq(Int)
          /\ NextWords # <<>> => current \o Separator \o NextWords # <<>>
      BY <1>2, <2>1, JoinIs
    <2> QED BY <1>1, <1>6, <2>2 DEF GoesOn
  <1> QED BY <1>3, <1>4, <1>5, <1>6, AddPieceIs

(* the next piece, in each of the four ways it can be taken, *)
LEMMA AddPieceKeeps == ChunkerInv /\ AddPiece => ChunkerInv'
  <1> SUFFICES ASSUME ChunkerInv, AddPiece
               PROVE  ChunkerInv'
    OBVIOUS
  <1>1. /\ Packing /\ Packing' /\ stage' = "pack" /\ next \in Nat /\ Len(pieces) \in Nat
        /\ next + 1 \in DOMAIN pieces /\ DOMAIN pieces = 1..Len(pieces) /\ next' = next + 1
        /\ UNCHANGED <<text, config, chunker, stage, pieces, place>>
    BY NextPieceIs
  <1>2. ChunkerTypes'
    <2>1. next' \in Nat
      BY <1>1
    <2>2. /\ current' \in Seq(Int) /\ currentStart' \in Int
          /\ chunks' \in Seq([text : Seq(Int), from : Int, to : Int])
      BY CurrentIs
    <2> QED BY <1>1, <2>1, <2>2 DEF ChunkerInv, ChunkerTypes
  <1>3. Stages'
    BY <1>1, CurrentIs DEF Stages
  <1>4. WordsInOrder' /\ WordsHoldAll' /\ Located' /\ PiecesFit'
    BY <1>1, PiecesStay
  <1> QED BY <1>2, <1>3, <1>4 DEF ChunkerInv

(* The last chunk. *)
LEMMA LastChunkIs ==
    ASSUME ChunkerInv, EndOfPieces
    PROVE  /\ LastChunk \in Seq([text : Seq(Int), from : Int, to : Int])
           /\ next = Len(pieces) /\ next \in Nat
           /\ current # <<>> => /\ next \in DOMAIN pieces /\ EndSoFar \in Nat
                                /\ LastChunk = <<Chunk(current, currentStart, EndSoFar)>>
           /\ current = <<>> => LastChunk = <<>> /\ chunks = <<>>
  <1>1. /\ text \in Texts /\ pieces \in Seq(Pieces(text)) /\ next \in Nat
        /\ current \in Seq(Int) /\ currentStart \in Int
        /\ Packing => /\ current # <<>> => next >= 1
                      /\ current = <<>> => chunks = <<>>
    BY DEF ChunkerInv, ChunkerTypes, Stages
  <1>2. Packing /\ next = Len(pieces)
    BY DEF EndOfPieces
  <1>3. DOMAIN pieces = 1..Len(pieces)
    BY <1>1, PieceTypes
  <1>4. CASE current = <<>>
    BY <1>1, <1>2, <1>4 DEF LastChunk
  <1>5. CASE current # <<>>
    <2>1. next \in DOMAIN pieces
      BY <1>1, <1>2, <1>3, <1>5
    <2>2. EndSoFar \in Nat
      BY <1>1, <2>1, PieceTypes DEF EndSoFar
    <2>3. LastChunk = <<Chunk(current, currentStart, EndSoFar)>>
      BY <1>2, <1>5 DEF LastChunk, EndSoFar
    <2>4. Chunk(current, currentStart, EndSoFar) \in [text : Seq(Int), from : Int, to : Int]
      BY <1>1, <2>2 DEF Chunk
    <2>5. LastChunk \in Seq([text : Seq(Int), from : Int, to : Int])
      <3> DEFINE R == [text : Seq(Int), from : Int, to : Int]
      <3>1. Chunk(current, currentStart, EndSoFar) \in R
        BY <2>4
      <3> HIDE DEF R
      <3>2. LastChunk \in Seq(R)
        BY <2>3, <3>1
      <3> QED BY <3>2 DEF R
    <2> QED BY <1>1, <1>2, <1>5, <2>1, <2>2, <2>3, <2>5
  <1> QED BY <1>4, <1>5

(* EndOfPieces hands over to the next chunker, or is the end. *)
HandsOver ==
    /\ chunker' = IF chunker = "paragraph" THEN "sentence" ELSE "fixed"
    /\ stage' = "enter" /\ pieces' = <<>> /\ next' = 0 /\ current' = <<>> /\ currentStart' = 0
    /\ chunks' = <<>> /\ UNCHANGED <<text, config, place>>

Ends ==
    /\ chunks' = chunks \o LastChunk /\ stage' = "done"
    /\ UNCHANGED <<text, config, chunker, pieces, place, next, current, currentStart>>

(* The last chunk is handed over to the fixed lengths, or is the end. *)
LEMMA EndOfPiecesIs == EndOfPieces => HandsOver \/ Ends
  BY DEF EndOfPieces, HandsOver, Ends

(* and the end of the pieces, where a long text goes back to fixed lengths. *)
LEMMA EndOfPiecesKeeps == ChunkerInv /\ EndOfPieces => ChunkerInv'
  <1> SUFFICES ASSUME ChunkerInv, EndOfPieces
               PROVE  ChunkerInv'
    OBVIOUS
  <1>1. ChunkerTypes /\ Stages
    BY DEF ChunkerInv
  <1>2. CASE HandsOver
    <2>1. ~ Packing' /\ stage' = "enter" /\ pieces' = <<>>
      BY <1>2 DEF HandsOver, Packing
    <2>2. ChunkerTypes'
      <3>1. chunker' \in {"paragraph", "sentence", "fixed"} /\ chunker' # "paragraph"
        BY <1>2 DEF HandsOver
      <3>2. /\ <<>> \in Seq(Pieces(text)) /\ <<>> \in Seq(Int)
            /\ <<>> \in Seq([text : Seq(Int), from : Int, to : Int])
        BY EmptySeq
      <3>3. /\ stage' = "enter" /\ pieces' = <<>> /\ next' = 0 /\ current' = <<>> /\ currentStart' = 0
            /\ chunks' = <<>> /\ text' = text /\ config' = config /\ place' = place
        BY <1>2 DEF HandsOver
      <3>4. /\ text \in Texts /\ place \in 0..Len(text)
            /\ config.maxSize \in Nat \ {0} /\ config.overlap \in Nat /\ config.minSize \in Nat \ {0}
        BY <1>1 DEF ChunkerTypes
      <3> HIDE DEF Pieces
      <3> QED BY <3>1, <3>2, <3>3, <3>4 DEF ChunkerTypes
    <2>4. Stages'
      BY <1>2, <2>1 DEF HandsOver, Stages
    <2>3. WordsInOrder' /\ WordsHoldAll' /\ Located' /\ PiecesFit'
      BY <2>1, NoPieces
    <2> QED BY <2>2, <2>3, <2>4 DEF ChunkerInv
  <1>3. CASE Ends
    <2>1. ~ Packing' /\ stage' = "done" /\ UNCHANGED <<text, chunker, pieces>>
      BY <1>3 DEF Ends, Packing
    <2>2. chunks' \in Seq([text : Seq(Int), from : Int, to : Int])
      <3> DEFINE R == [text : Seq(Int), from : Int, to : Int]
      <3>1. chunks \in Seq(R) /\ LastChunk \in Seq(R)
        BY <1>1, LastChunkIs DEF ChunkerTypes
      <3> HIDE DEF R
      <3>2. chunks' \in Seq(R)
        BY <1>3, <3>1 DEF Ends
      <3> QED BY <3>2 DEF R
    <2>3. ChunkerTypes' /\ Stages'
      BY <1>1, <1>3, <2>1, <2>2 DEF Ends, ChunkerTypes, Stages
    <2>4. WordsInOrder' /\ WordsHoldAll' /\ Located' /\ PiecesFit'
      BY <2>1, PiecesStay
    <2> QED BY <2>3, <2>4 DEF ChunkerInv
  <1> QED BY <1>2, <1>3, EndOfPiecesIs

LEMMA ChunkerRests ==
    ASSUME UNCHANGED chunkVars
    PROVE  ChunkerInv' <=> ChunkerInv
  BY DEF chunkVars, ChunkerInv, ChunkerTypes, Stages, Packing, WordsInOrder, WordsHoldAll, Located, PiecesFit,
         InWords, Found, Findable

LEMMA ChunkerKeeps == ChunkerInv /\ [Step]_chunkVars => ChunkerInv'
  BY ShortKeeps, SplitKeeps, ScanPartKeeps, EndOfScanKeeps, AddPieceKeeps, EndOfPiecesKeeps, FixedKeeps,
     ChunkerRests DEF Step

(* The invariant of the chunkers, which the theorems below start from. *)
LEMMA ChunkerInvariance == ChunkSpec => []ChunkerInv
  <1>1. ChunkInit => ChunkerInv
    BY ChunkerStarts
  <1>2. ChunkerInv /\ [Step]_chunkVars => ChunkerInv'
    BY ChunkerKeeps
  <1> QED BY <1>1, <1>2, PTL DEF ChunkSpec
-----------------------------------------------------------------------------
(* Lists of chunks.                                                         *)

ChunkRecords == [text : Seq(Int), from : Int, to : Int]

LEMMA ChunksAre ==
    ASSUME ChunkerInv
    PROVE  /\ chunks \in Seq(ChunkRecords) /\ current \in Seq(Int) /\ currentStart \in Int
           /\ text \in Texts /\ Len(text) \in Nat /\ next \in Nat
           /\ config.maxSize \in Nat \ {0} /\ config.overlap \in Nat /\ config.minSize \in Nat \ {0}
           /\ pieces \in Seq(Pieces(text)) /\ Len(pieces) \in Nat /\ DOMAIN pieces = 1..Len(pieces)
  BY TextsAreTexts, PieceTypes DEF ChunkerInv, ChunkerTypes, ChunkRecords

(* What a list of chunks holds grows by the text of the chunk that is added. *)
LEMMA HeldAppend ==
    ASSUME NEW cs \in Seq(ChunkRecords), NEW c \in ChunkRecords
    PROVE  Held(Append(cs, c)) = Held(cs) \cup Sources(c.text)
  <1> DEFINE all == Append(cs, c)
  <1>1. /\ \A i \in DOMAIN cs : all[i] = cs[i] /\ i \in DOMAIN all
        /\ all[Len(cs) + 1] = c /\ Len(cs) + 1 \in DOMAIN all
        /\ \A i \in DOMAIN all : i \in DOMAIN cs \/ i = Len(cs) + 1
    BY AppendedIs
  <1> HIDE DEF all
  <1>2. Held(all) = Held(cs) \cup Sources(c.text)
    BY <1>1 DEF Held
  <1> QED BY <1>2 DEF all

LEMMA HeldNothing == Held(<<>>) = {}
  BY DEF Held

(* The chunks EndOfPieces returns. *)
LEMMA AllChunks ==
    ASSUME ChunkerInv, EndOfPieces
    PROVE  /\ current = <<>> => chunks \o LastChunk = chunks
           /\ current # <<>> => /\ chunks \o LastChunk = Append(chunks, Chunk(current, currentStart, EndSoFar))
                                /\ Chunk(current, currentStart, EndSoFar) \in ChunkRecords
  <1>1. chunks \in Seq(ChunkRecords) /\ current \in Seq(Int) /\ currentStart \in Int
    BY ChunksAre
  <1>2. CASE current = <<>>
    BY <1>1, <1>2, LastChunkIs
  <1>3. CASE current # <<>>
    <2> DEFINE c == Chunk(current, currentStart, EndSoFar)
    <2>1. EndSoFar \in Nat /\ LastChunk = <<c>>
      BY <1>3, LastChunkIs
    <2>2. c \in ChunkRecords
      BY <1>1, <2>1 DEF Chunk, ChunkRecords
    <2> HIDE DEF c
    <2>3. chunks \o <<c>> = Append(chunks, c)
      BY <1>1, <2>2, AppendIsConcat
    <2> QED BY <1>3, <2>1, <2>2, <2>3 DEF c
  <1> QED BY <1>2, <1>3

(* The chunk CutFixed cuts. *)
NextCut == Least(next + config.maxSize, Len(text))
CutHere == Chunk(Copy(Span(next, NextCut)), next, NextCut)

\* A cut adds the chunk from next on, unless the last chunk is that already, and goes on.
LEMMA CutHereIs ==
    ASSUME ChunkerInv, CutFixed
    PROVE  /\ chunks' = chunks \/ chunks' = Append(chunks, CutHere)
           /\ chunks' = chunks => chunks # <<>> /\ chunks[Len(chunks)] = CutHere
           /\ CutHere \in ChunkRecords /\ next' = NextCut /\ NextCut \in Nat /\ next < NextCut
           /\ CutHere.text \in Seq(Int) /\ Ascending(CutHere.text)
           /\ CutHere.from = next /\ CutHere.to = NextCut
           /\ Sources(CutHere.text) = {x \in Nat : next <= x /\ x < NextCut}
  <1>1. /\ Len(text) \in Nat /\ next \in Nat /\ config.maxSize \in Nat \ {0} /\ chunks \in Seq(ChunkRecords)
    BY ChunksAre
  <1>2. /\ next < Len(text) /\ next' = NextCut
        /\ chunks' = IF chunks # <<>> /\ chunks[Len(chunks)] = CutHere THEN chunks ELSE Append(chunks, CutHere)
    BY DEF CutFixed, CutHere, NextCut
  <1>3. NextCut \in Nat /\ next < NextCut
    BY <1>1, <1>2 DEF NextCut, Least
  <1>4. /\ Copy(Span(next, NextCut)) \in Seq(Int) /\ Ascending(Copy(Span(next, NextCut)))
        /\ Sources(Copy(Span(next, NextCut))) = {x \in Nat : next <= x /\ x < NextCut}
    <2>1. next <= NextCut
      BY <1>1, <1>3
    <2>2. /\ Copy(Span(next, NextCut)) \in Seq(Int) /\ Ascending(Copy(Span(next, NextCut)))
          /\ Sources(Copy(Span(next, NextCut))) = Within(Span(next, NextCut))
      BY <1>1, <1>3, <2>1, CopyIs
    <2>3. Within(Span(next, NextCut)) = {x \in Nat : next <= x /\ x < NextCut}
      BY <1>1, <1>3, SpanIs
    <2> QED BY <2>2, <2>3
  <1>5. /\ CutHere.text = Copy(Span(next, NextCut)) /\ CutHere.from = next /\ CutHere.to = NextCut
        /\ CutHere \in ChunkRecords
    BY <1>1, <1>3, <1>4 DEF CutHere, Chunk, ChunkRecords
  <1>6. Len(Append(chunks, CutHere)) # Len(chunks)
    BY <1>1, <1>5, AppendedIs
  <1> QED BY <1>2, <1>3, <1>4, <1>5, <1>6

-----------------------------------------------------------------------------
(* No byte that is not blank is lost: what has been gone through is held.    *)

Kept == GoneThroughHeld /\ ContentKept

(* What has been gone through is held, after each action. *)
LEMMA AddPieceHolds == ChunkerInv /\ Kept /\ AddPiece => Kept'
  <1> SUFFICES ASSUME ChunkerInv, Kept, AddPiece
               PROVE  Kept'
    OBVIOUS
  <1>1. /\ Packing /\ Packing' /\ stage' = "pack" /\ next \in Nat /\ next' = next + 1
        /\ UNCHANGED <<text, config, chunker, stage, pieces, place>>
        /\ NextWords \in Seq(Int) /\ Sources(NextWords) = Within(NextPiece.words)
    BY NextPieceIs
  <1>2. chunks \in Seq(ChunkRecords) /\ current \in Seq(Int) /\ currentStart \in Int
    BY ChunksAre
  <1>3. \A i \in 1..next : Within(pieces[i].words) \subseteq Sources(current) \cup Held(chunks)
    BY <1>1 DEF Kept, GoneThroughHeld
  <1>4. Sources(current) \cup Held(chunks) \cup Sources(NextWords) \subseteq Sources(current') \cup Held(chunks')
    <2>1. CASE Skips
      BY <2>1, EmptyText DEF Skips
    <2>2. CASE Begins
      BY <2>2, EmptyText DEF Begins
    <2>3. CASE BeginsAnew
      <3>1. current # <<>>
        BY <2>3 DEF BeginsAnew
      <3>2. EndSoFar \in Nat /\ Carried \in Seq(Int)
        BY <3>1, CarriedIs
      <3> DEFINE c == Chunk(current, currentStart, EndSoFar)
      <3>3. c \in ChunkRecords /\ c.text = current
        BY <1>2, <3>2 DEF Chunk, ChunkRecords
      <3>4. chunks' = Append(chunks, c)
        BY <2>3 DEF BeginsAnew
      <3> HIDE DEF c
      <3>5. Held(chunks') = Held(chunks) \cup Sources(current)
        BY <1>2, <3>3, <3>4, HeldAppend
      <3>6. Sources(NextWords) \subseteq Sources(current')
        <4>1. Sources(Carried \o NextWords) = Sources(Carried) \cup Sources(NextWords)
          BY <1>1, <3>2, JoinIs
        <4> QED BY <2>3, <4>1 DEF BeginsAnew
      <3> QED BY <3>5, <3>6
    <2>4. CASE GoesOn
      <3>1. current \o Separator \in Seq(Int) /\ Sources(current \o Separator) = Sources(current) \cup Sources(Separator)
        BY <1>2, SeparatorIs, JoinIs
      <3>2. Sources(current \o Separator \o NextWords) = Sources(current \o Separator) \cup Sources(NextWords)
        BY <1>1, <3>1, JoinIs
      <3> QED BY <2>4, <3>1, <3>2 DEF GoesOn
    <2> QED BY <2>1, <2>2, <2>3, <2>4, AddPieceIs
  <1>5. \A i \in 1..(next + 1) : Within(pieces[i].words) \subseteq Sources(current') \cup Held(chunks')
    <2>1. \A i \in 1..(next + 1) : i \in 1..next \/ i = next + 1
      BY <1>1
    <2> QED BY <1>1, <1>3, <1>4, <2>1 DEF NextPiece
  <1>6. GoneThroughHeld'
    BY <1>1, <1>5 DEF GoneThroughHeld, Packing
  <1>7. ContentKept'
    BY <1>1 DEF ContentKept
  <1> QED BY <1>6, <1>7 DEF Kept

LEMMA EndOfPiecesHolds == ChunkerInv /\ Kept /\ EndOfPieces => Kept'
  <1> SUFFICES ASSUME ChunkerInv, Kept, EndOfPieces
               PROVE  Kept'
    OBVIOUS
  <1>1. CASE HandsOver
    BY <1>1 DEF HandsOver, Kept, GoneThroughHeld, ContentKept, Packing
  <1>2. CASE Ends
    <2>1. Packing /\ next = Len(pieces) /\ DOMAIN pieces = 1..Len(pieces) /\ stage' = "done" /\ text' = text
      BY <1>2, ChunksAre DEF EndOfPieces, Ends
    <2>2. \A x \in Solid(text, Whole(text)) : x \in Sources(current) \cup Held(chunks)
      BY <2>1 DEF ChunkerInv, WordsHoldAll, InWords, Kept, GoneThroughHeld
    <2>3. Sources(current) \cup Held(chunks) \subseteq Held(chunks')
      <3>1. chunks \in Seq(ChunkRecords)
        BY ChunksAre
      <3>2. CASE current = <<>>
        BY <1>2, <3>2, AllChunks, EmptyText DEF Ends
      <3>3. CASE current # <<>>
        <4> DEFINE c == Chunk(current, currentStart, EndSoFar)
        <4>1. c \in ChunkRecords /\ chunks' = Append(chunks, c) /\ c.text = current
          BY <1>2, <3>3, AllChunks DEF Ends, Chunk
        <4> HIDE DEF c
        <4> QED BY <3>1, <4>1, HeldAppend
      <3> QED BY <3>2, <3>3
    <2>4. ContentKept'
      BY <2>1, <2>2, <2>3 DEF ContentKept, Held
    <2>5. GoneThroughHeld'
      BY <2>1 DEF GoneThroughHeld, Packing
    <2> QED BY <2>4, <2>5 DEF Kept
  <1> QED BY <1>1, <1>2, EndOfPiecesIs

LEMMA FixedHolds == ChunkerInv /\ Kept /\ (CutFixed \/ StepBack \/ EndOfFixed) => Kept'
  <1> SUFFICES ASSUME ChunkerInv, Kept, CutFixed \/ StepBack \/ EndOfFixed
               PROVE  Kept'
    OBVIOUS
  <1>1. /\ chunks \in Seq(ChunkRecords) /\ next \in Nat /\ Len(text) \in Nat /\ config.overlap \in Nat
        /\ text \in Texts
    BY ChunksAre
  <1>2. chunker = "fixed" /\ stage \in {"pack", "step back"} /\ 0..(next - 1) \subseteq Held(chunks)
    BY DEF Kept, GoneThroughHeld, CutFixed, StepBack, EndOfFixed, ChunkerInv, Stages
  <1>3. CASE CutFixed
    <2>1. /\ CutHere \in ChunkRecords /\ next' = NextCut /\ NextCut \in Nat
          /\ Sources(CutHere.text) = {x \in Nat : next <= x /\ x < NextCut}
          /\ \/ chunks' = chunks /\ chunks # <<>> /\ chunks[Len(chunks)] = CutHere
             \/ chunks' = Append(chunks, CutHere)
      BY <1>3, CutHereIs
    <2>2. Held(chunks) \cup Sources(CutHere.text) \subseteq Held(chunks')
      <3>1. CASE chunks' = chunks /\ chunks # <<>> /\ chunks[Len(chunks)] = CutHere
        <4>1. Len(chunks) \in DOMAIN chunks
          BY <1>1, <3>1, EmptySeq
        <4> QED BY <3>1, <4>1 DEF Held
      <3>2. CASE chunks' = Append(chunks, CutHere)
        BY <1>1, <2>1, <3>2, HeldAppend
      <3> QED BY <2>1, <3>1, <3>2
    <2>3. 0..(next' - 1) \subseteq Held(chunks')
      <3>1. \A x \in 0..(NextCut - 1) : x \in 0..(next - 1) \/ x \in {y \in Nat : next <= y /\ y < NextCut}
        BY <1>1, <2>1
      <3> QED BY <1>2, <2>1, <2>2, <3>1
    <2> QED BY <1>2, <1>3, <2>3 DEF Kept, GoneThroughHeld, ContentKept, CutFixed, Packing
  <1>4. CASE StepBack
    <2>1. next' = (IF next < config.overlap THEN 0 ELSE next - config.overlap) /\ chunks' = chunks
      BY <1>4 DEF StepBack
    <2>2. next' \in Nat /\ next' <= next
      BY <1>1, <2>1
    <2>3. 0..(next' - 1) \subseteq 0..(next - 1)
      <3> DEFINE m == next'
      <3>1. m \in Nat /\ m <= next
        BY <2>2
      <3> HIDE DEF m
      <3>2. 0..(m - 1) \subseteq 0..(next - 1)
        BY <1>1, <3>1
      <3> QED BY <3>2 DEF m
    <2> QED BY <1>2, <1>4, <2>1, <2>3 DEF Kept, GoneThroughHeld, ContentKept, StepBack, Packing
  <1>5. CASE EndOfFixed
    <2>1. next >= Len(text) /\ chunks' = chunks /\ text' = text /\ stage' = "done"
      BY <1>5 DEF EndOfFixed
    <2>2. Solid(text, Whole(text)) \subseteq 0..(next - 1)
      <3>1. Solid(text, Whole(text)) \subseteq 0..(Len(text) - 1)
        BY DEF Solid, Within, Whole, Span
      <3> QED BY <1>1, <2>1, <3>1
    <2>3. ContentKept'
      BY <1>2, <2>1, <2>2 DEF ContentKept, Held
    <2> QED BY <2>1, <2>3 DEF Kept, GoneThroughHeld, Packing
  <1> QED BY <1>3, <1>4, <1>5

LEMMA KeptHolds == ChunkerInv /\ Kept /\ [Step]_chunkVars => Kept'
  <1> SUFFICES ASSUME ChunkerInv, Kept, [Step]_chunkVars
               PROVE  Kept'
    OBVIOUS
  <1>1. text \in Texts /\ Len(text) \in Nat
    BY ChunksAre
  <1>2. CASE Short
    <2>1. Sources(Copy(Whole(text))) = Within(Whole(text))
      BY <1>1, CopyIs DEF Whole
    <2>2. chunks' = <<Chunk(Copy(Whole(text)), 0, Len(text))>> /\ stage' = "done" /\ text' = text
      BY <1>2 DEF Short
    <2>3. Held(chunks') = Sources(Copy(Whole(text)))
      BY <2>2 DEF Held, Chunk
    <2>4. Solid(text, Whole(text)) \subseteq Held(chunks')
      BY <2>1, <2>3 DEF Solid
    <2> QED BY <2>2, <2>4 DEF Kept, ContentKept, GoneThroughHeld, Packing, Held
  <1>3. CASE Split
    <2>1. stage' # "done" /\ stage' # "step back" /\ next' = 0
      BY <1>3 DEF Split, ChunkerInv, Stages
    <2>2. 1..0 = {} /\ 0..(0 - 1) = {}
      OBVIOUS
    <2>3. ContentKept'
      BY <2>1 DEF ContentKept
    <2>4. GoneThroughHeld'
      BY <2>1, <2>2 DEF GoneThroughHeld
    <2> QED BY <2>3, <2>4 DEF Kept
  <1>4. CASE ScanPart
    <2>1. stage' = "scan"
      BY <1>4 DEF ScanPart
    <2> QED BY <2>1 DEF Kept, ContentKept, GoneThroughHeld, Packing
  <1>5. CASE EndOfScan
    <2>1. stage' # "done" /\ stage' # "step back" /\ next' = 0
      BY <1>5 DEF EndOfScan
    <2>2. 1..0 = {} /\ 0..(0 - 1) = {}
      OBVIOUS
    <2>3. ContentKept'
      BY <2>1 DEF ContentKept
    <2>4. GoneThroughHeld'
      BY <2>1, <2>2 DEF GoneThroughHeld
    <2> QED BY <2>3, <2>4 DEF Kept
  <1>6. CASE UNCHANGED chunkVars
    BY <1>6 DEF chunkVars, Kept, ContentKept, GoneThroughHeld, Packing
  <1> QED BY <1>2, <1>3, <1>4, <1>5, <1>6, AddPieceHolds, EndOfPiecesHolds, FixedHolds DEF Step

(* Whichever chunker falls back to whichever, for every text and             *)
(* configuration: no byte that is not blank is lost.                        *)
THEOREM ContentIsKept == ChunkSpec => []ContentKept
  <1>1. ChunkInit => Kept
    BY DEF ChunkInit, Kept, ContentKept, GoneThroughHeld, Packing
  <1>2. ChunkerInv /\ Kept /\ [Step]_chunkVars => Kept'
    BY KeptHolds
  <1>3. Kept => ContentKept
    BY DEF Kept
  <1> QED BY <1>1, <1>2, <1>3, ChunkerInvariance, PTL DEF ChunkSpec

-----------------------------------------------------------------------------
(* Without an overlap every byte is held in its turn, and once.             *)

(* Chunks stay in turn when the one that is added comes after the last. *)
LEMMA InTurnAppend ==
    ASSUME NEW cs \in Seq(ChunkRecords), NEW c \in ChunkRecords, InTurn(cs), Ascending(c.text),
           cs # <<>> => \A a \in Sources(cs[Len(cs)].text), b \in Sources(c.text) : a < b
    PROVE  InTurn(Append(cs, c))
  <1> DEFINE all == Append(cs, c)
             n == Len(cs)
  <1>1. /\ n \in Nat /\ DOMAIN cs = 1..n /\ DOMAIN all = 1..(n + 1)
        /\ \A i \in 1..n : all[i] = cs[i]
        /\ all[n + 1] = c
    BY AppendedIs
  <1>2. n # 0 => cs # <<>>
    OBVIOUS
  <1>3. /\ \A i \in 1..n : Ascending(cs[i].text)
        /\ \A i \in 1..n : i > 1 => \A a \in Sources(cs[i - 1].text), b \in Sources(cs[i].text) : a < b
    BY <1>1 DEF InTurn
  <1>4. n # 0 => \A a \in Sources(cs[n].text), b \in Sources(c.text) : a < b
    BY <1>2
  <1> HIDE DEF all, n
  <1> SUFFICES ASSUME NEW i \in 1..(n + 1)
               PROVE  /\ Ascending(all[i].text)
                      /\ i > 1 => \A a \in Sources(all[i - 1].text), b \in Sources(all[i].text) : a < b
    BY <1>1 DEF InTurn, all
  <1>5. CASE i \in 1..n
    <2>1. i > 1 => i - 1 \in 1..n
      BY <1>1, <1>5
    <2>2. i > 1 => all[i - 1] = cs[i - 1]
      BY <1>1, <2>1
    <2> QED BY <1>1, <1>3, <1>5, <2>2
  <1>6. CASE i = n + 1
    <2>1. i > 1 => n \in 1..n /\ n # 0 /\ i - 1 = n
      BY <1>1, <1>6
    <2> QED BY <1>1, <1>4, <1>6, <2>1
  <1> QED BY <1>1, <1>5, <1>6

LEMMA LastIsHeld ==
    ASSUME NEW cs \in Seq(ChunkRecords), cs # <<>>
    PROVE  Sources(cs[Len(cs)].text) \subseteq Held(cs)
  BY EmptySeq DEF Held

LEMMA HeldAreInts ==
    ASSUME NEW cs \in Seq(ChunkRecords)
    PROVE  Held(cs) \subseteq Int
  <1>1. \A t \in Seq(Int) : Sources(t) \subseteq Int
    BY DEF Sources, ToSet
  <1>2. \A c \in ChunkRecords : c.text \in Seq(Int)
    BY DEF ChunkRecords
  <1> HIDE DEF ChunkRecords
  <1>3. \A i \in DOMAIN cs : cs[i] \in ChunkRecords
    OBVIOUS
  <1> QED BY <1>1, <1>2, <1>3 DEF Held

LEMMA NothingInTurn == InTurn(<<>>)
  BY DEF InTurn

(* The chunks are in turn, after each action. *)
LEMMA AddPieceInTurn == ChunkerInv /\ HeldInTurn /\ AddPiece => HeldInTurn'
  <1> SUFFICES ASSUME ChunkerInv, HeldInTurn, AddPiece, config.overlap = 0
               PROVE  HeldInTurn'
    BY NextPieceIs DEF HeldInTurn
  <1> DEFINE c == NextPiece.words.from
             d == NextPiece.words.to
             n == Len(pieces)
  <1>1. /\ Packing /\ Packing' /\ stage' = "pack" /\ next \in Nat /\ n \in Nat
        /\ next + 1 \in 1..n /\ DOMAIN pieces = 1..n /\ next' = next + 1
        /\ UNCHANGED <<text, config, chunker, stage, pieces, place>>
        /\ c \in Nat /\ d \in Nat /\ c <= d
        /\ NextWords \in Seq(Int) /\ Ascending(NextWords)
        /\ Sources(NextWords) = Within(NextPiece.words)
        /\ Within(NextPiece.words) = {x \in Nat : c <= x /\ x < d}
    BY NextPieceIs
  <1>2. chunker # "fixed"
    BY <1>1 DEF Packing
  <1>3. /\ chunks \in Seq(ChunkRecords) /\ current \in Seq(Int) /\ currentStart \in Int
        /\ current = <<>> => chunks = <<>>
    BY <1>1, ChunksAre DEF ChunkerInv, Stages
  <1>4. /\ InTurn(chunks) /\ Ascending(current)
        /\ chunks # <<>> => \A a \in Sources(chunks[Len(chunks)].text), b \in Sources(current) : a < b
        /\ \A k \in (next + 1)..n : \A a \in Sources(current) \cup Held(chunks) : a < pieces[k].words.from
    BY <1>1 DEF HeldInTurn
  <1>5. /\ \A a \in Sources(current) \cup Held(chunks) : a < c
        /\ \A a \in Sources(NextWords) : a \in Nat /\ c <= a /\ a < d
    <2>1. next + 1 \in (next + 1)..n
      BY <1>1
    <2> QED BY <1>1, <1>4, <2>1 DEF NextPiece
  <1>6. ASSUME NEW k \in (next + 2)..n, NEW a \in Sources(current) \cup Held(chunks) \cup Sources(NextWords)
        PROVE  a < pieces[k].words.from
    <2>1. k \in (next + 1)..n /\ k \in 1..n /\ next + 1 < k
      BY <1>1
    <2>2. d <= pieces[k].words.from
      BY <1>1, <2>1 DEF ChunkerInv, WordsInOrder, NextPiece
    <2>3. pieces[k].words.from \in Nat
      BY <1>1, <2>1, ChunksAre, PieceTypes
    <2> QED BY <1>1, <1>4, <1>5, <2>1, <2>2, <2>3
  <1>7. Sources(current) \subseteq Int /\ \A x \in Held(chunks) : x \in Int
    <2>1. \A t \in Seq(Int) : Sources(t) \subseteq Int
      BY DEF Sources, ToSet
    <2> QED BY <1>3, <2>1, HeldAreInts
  <1>8. \A a \in Sources(current) \cup Held(chunks), b \in Sources(NextWords) : a < b
    BY <1>1, <1>5, <1>7
  <1> HIDE DEF c, d, n
  <1>9. /\ InTurn(chunks')
        /\ Ascending(current')
        /\ chunks' # <<>> => \A a \in Sources(chunks'[Len(chunks')].text), b \in Sources(current') : a < b
        /\ Sources(current') \cup Held(chunks') \subseteq Sources(current) \cup Held(chunks) \cup Sources(NextWords)
    <2>1. CASE Skips
      BY <1>4, <2>1 DEF Skips
    <2>2. CASE Begins
      BY <1>1, <1>3, <2>2, NothingInTurn, HeldNothing DEF Begins
    <2>3. CASE BeginsAnew
      <3>1. current # <<>>
        BY <2>3 DEF BeginsAnew
      <3>2. EndSoFar \in Nat
        BY <3>1, CarriedIs
      <3> DEFINE new == Chunk(current, currentStart, EndSoFar)
      <3>3. new \in ChunkRecords /\ new.text = current
        BY <1>3, <3>2 DEF Chunk, ChunkRecords
      <3>4. chunks' = Append(chunks, new) /\ current' = NextWords
        BY <2>3 DEF BeginsAnew
      <3> HIDE DEF new
      <3>5. InTurn(chunks')
        BY <1>3, <1>4, <3>3, <3>4, InTurnAppend
      <3>6. chunks'[Len(chunks')] = new
        BY <1>3, <3>3, <3>4, AppendedIs
      <3>7. Held(chunks') = Held(chunks) \cup Sources(current)
        BY <1>3, <3>3, <3>4, HeldAppend
      <3> QED BY <1>1, <1>8, <3>3, <3>4, <3>5, <3>6, <3>7
    <2>4. CASE GoesOn
      <3> DEFINE s == current \o Separator
      <3>1. s \in Seq(Int) /\ Sources(s) = Sources(current) /\ Ascending(s)
        BY ZenonT(40), <1>3, <1>4, SeparatorIs, JoinIs, JoinAscends
      <3> HIDE DEF s
      <3>2. Sources(s \o NextWords) = Sources(current) \cup Sources(NextWords) /\ Ascending(s \o NextWords)
        BY <1>1, <1>8, <3>1, JoinIs, JoinAscends
      <3>3. current' = s \o NextWords /\ chunks' = chunks
        BY <2>4 DEF GoesOn, s
      <3>4. chunks # <<>> => \A a \in Sources(chunks[Len(chunks)].text), b \in Sources(NextWords) : a < b
        BY <1>3, <1>8, LastIsHeld
      <3> QED BY <1>4, <3>2, <3>3, <3>4
    <2> QED BY <2>1, <2>2, <2>3, <2>4, AddPieceIs
  <1>10. \A k \in (next' + 1)..Len(pieces') : \A a \in Sources(current') \cup Held(chunks') : a < pieces'[k].words.from
    <2>1. (next' + 1)..Len(pieces') = (next + 2)..n
      BY <1>1 DEF n
    <2> QED BY <1>1, <1>6, <1>9, <2>1
  <1> QED BY <1>1, <1>2, <1>9, <1>10 DEF HeldInTurn

LEMMA FixedInTurn == ChunkerInv /\ HeldInTurn /\ (CutFixed \/ StepBack \/ EndOfFixed) => HeldInTurn'
  <1> SUFFICES ASSUME ChunkerInv, HeldInTurn, CutFixed \/ StepBack \/ EndOfFixed, config.overlap = 0
               PROVE  HeldInTurn'
    BY DEF CutFixed, StepBack, EndOfFixed, HeldInTurn
  <1>1. chunks \in Seq(ChunkRecords) /\ next \in Nat
    BY ChunksAre
  <1>2. /\ InTurn(chunks) /\ \A a \in Held(chunks) : a < next
        /\ chunker = "fixed" /\ chunker' = "fixed" /\ ~ Packing'
    BY DEF HeldInTurn, CutFixed, StepBack, EndOfFixed, ChunkerInv, Stages, Packing
  <1>3. CASE CutFixed
    <2>1. /\ CutHere \in ChunkRecords /\ next' = NextCut /\ NextCut \in Nat /\ next < NextCut
          /\ Ascending(CutHere.text)
          /\ Sources(CutHere.text) = {x \in Nat : next <= x /\ x < NextCut}
          /\ chunks' = chunks \/ chunks' = Append(chunks, CutHere)
      BY <1>3, CutHereIs
    <2>2. CASE chunks' = Append(chunks, CutHere)
      <3>1. chunks # <<>> => \A a \in Sources(chunks[Len(chunks)].text), b \in Sources(CutHere.text) : a < b
        <4>1. \A a \in Held(chunks) : a \in Int
          BY <1>1, HeldAreInts
        <4>2. \A a \in Held(chunks), b \in Sources(CutHere.text) : a < b
          BY <1>1, <1>2, <2>1, <4>1
        <4> QED BY <1>1, <4>2, LastIsHeld
      <3>2. InTurn(chunks')
        BY <1>1, <1>2, <2>1, <2>2, <3>1, InTurnAppend
      <3>3. Held(chunks') = Held(chunks) \cup Sources(CutHere.text)
        BY <1>1, <2>1, <2>2, HeldAppend
      <3>4. \A a \in Held(chunks') : a < next'
        <4>1. \A a \in Held(chunks) : a \in Int
          BY <1>1, HeldAreInts
        <4> QED BY <1>1, <1>2, <2>1, <3>3, <4>1
      <3> QED BY <1>2, <3>2, <3>4 DEF HeldInTurn
    <2>3. CASE chunks' = chunks
      <3>1. chunks # <<>> /\ chunks[Len(chunks)] = CutHere
        BY <1>3, <2>3, CutHereIs
      <3>2. Sources(CutHere.text) \subseteq Held(chunks)
        BY <1>1, <3>1, LastIsHeld
      <3>3. next \in Held(chunks)
        BY <1>1, <2>1, <3>2
      <3> QED BY <1>1, <1>2, <3>3
    <2> QED BY <2>1, <2>2, <2>3
  <1>4. CASE StepBack
    <2>1. next' = (IF next < config.overlap THEN 0 ELSE next - config.overlap) /\ chunks' = chunks
      BY <1>4 DEF StepBack
    <2>2. next' = next
      BY <1>1, <2>1
    <2> QED BY <1>2, <2>1, <2>2 DEF HeldInTurn
  <1>5. CASE EndOfFixed
    <2>1. chunks' = chunks /\ stage' = "done"
      BY <1>5 DEF EndOfFixed
    <2> QED BY <1>2, <2>1 DEF HeldInTurn
  <1> QED BY <1>3, <1>4, <1>5

LEMMA HeldInTurnHolds == ChunkerInv /\ HeldInTurn /\ [Step]_chunkVars => HeldInTurn'
  <1> SUFFICES ASSUME ChunkerInv, HeldInTurn, [Step]_chunkVars
               PROVE  HeldInTurn'
    OBVIOUS
  <1>1. text \in Texts /\ Len(text) \in Nat /\ chunks \in Seq(ChunkRecords) /\ Stages
    BY ChunksAre DEF ChunkerInv
  <1>2. CASE Short
    <2>1. /\ chunks' = <<Chunk(Copy(Whole(text)), 0, Len(text))>> /\ stage' = "done"
      BY <1>2 DEF Short
    <2>2. Ascending(Copy(Whole(text)))
      BY <1>1, CopyIs DEF Whole
    <2>3. InTurn(chunks')
      BY <2>1, <2>2 DEF InTurn, Chunk
    <2> QED BY <2>1, <2>3 DEF HeldInTurn, Packing
  <1>3. CASE Split \/ EndOfScan
    <2>1. chunks' = <<>> /\ current' = <<>> /\ stage' # "step back"
      BY <1>1, <1>3 DEF Split, EndOfScan, Stages
    <2> QED BY <2>1, NothingInTurn, HeldNothing, EmptyText DEF HeldInTurn
  <1>4. CASE ScanPart
    <2>1. stage' = "scan" /\ chunks' = chunks /\ config' = config
      BY <1>4 DEF ScanPart
    <2> QED BY <2>1 DEF HeldInTurn, Packing
  <1>5. CASE EndOfPieces
    <2>1. CASE HandsOver
      <3>1. chunks' = <<>> /\ stage' = "enter"
        BY <2>1 DEF HandsOver
      <3> QED BY <3>1, NothingInTurn DEF HeldInTurn, Packing
    <2>2. CASE Ends
      <3>1. stage' = "done" /\ chunks' = chunks \o LastChunk /\ config' = config /\ Packing
        BY <1>5, <2>2 DEF Ends, EndOfPieces
      <3>2. config.overlap = 0 => InTurn(chunks')
        <4>1. CASE current = <<>>
          BY <1>5, <3>1, <4>1, AllChunks DEF HeldInTurn
        <4>2. CASE current # <<>>
          <5> DEFINE c == Chunk(current, currentStart, EndSoFar)
          <5>1. c \in ChunkRecords /\ chunks' = Append(chunks, c) /\ c.text = current
            BY <1>5, <3>1, <4>2, AllChunks DEF Chunk
          <5> HIDE DEF c
          <5> QED BY <1>1, <3>1, <5>1, InTurnAppend DEF HeldInTurn
        <4> QED BY <4>1, <4>2
      <3> QED BY <3>1, <3>2 DEF HeldInTurn, Packing
    <2> QED BY <1>5, <2>1, <2>2, EndOfPiecesIs
  <1>6. CASE UNCHANGED chunkVars
    BY <1>6 DEF chunkVars, HeldInTurn, Packing
  <1> QED BY <1>2, <1>3, <1>4, <1>5, <1>6, AddPieceInTurn, FixedInTurn DEF Step

(* Without an overlap the chunks hold every byte in its order, and once.     *)
THEOREM NothingIsHeldTwice == ChunkSpec => []NothingTwice
  <1>1. ChunkInit => HeldInTurn
    BY NothingInTurn DEF ChunkInit, HeldInTurn, Packing
  <1>2. ChunkerInv /\ HeldInTurn /\ [Step]_chunkVars => HeldInTurn'
    BY HeldInTurnHolds
  <1>3. HeldInTurn => NothingTwice
    BY DEF HeldInTurn, NothingTwice, InTurn
  <1> QED BY <1>1, <1>2, <1>3, ChunkerInvariance, PTL DEF ChunkSpec

-----------------------------------------------------------------------------
(* No chunk begins behind its text, and where the paragraphs can be found none *)
(* ends before it.                                                          *)

Fit(c) == \A a \in Sources(c.text) : c.from <= a /\ (a < c.to \/ ~ Found)

LEMMA SpansAreFit == SpansHoldTheirText <=> \A i \in DOMAIN chunks : Fit(chunks[i])
  BY DEF SpansHoldTheirText, Fit, Found

\* Found is of the text and the chunker only.
LEMMA FoundStays == UNCHANGED <<text, chunker>> => (Found' <=> Found)
  BY DEF Found, Findable

(* Chunks that hold their texts still do when one that does is added. *)
LEMMA HoldsItsText ==
    ASSUME NEW R, NEW cs \in Seq(R), NEW c \in R,
           \A i \in DOMAIN cs : Fit(cs[i]), Fit(c)
    PROVE  \A i \in DOMAIN Append(cs, c) : Fit(Append(cs, c)[i])
  <1> DEFINE all == Append(cs, c)
  <1>1. /\ \A i \in DOMAIN cs : all[i] = cs[i]
        /\ all[Len(cs) + 1] = c
        /\ \A i \in DOMAIN all : i \in DOMAIN cs \/ i = Len(cs) + 1
    BY AppendedIs
  <1> HIDE DEF all
  <1>2. \A i \in DOMAIN all : Fit(all[i])
    BY <1>1
  <1> QED BY <1>2 DEF all

Fits == CurrentFits /\ SpansHoldTheirText

\* What keeps the chunks as they are keeps them fit.
LEMMA ChunksStayFit ==
    ASSUME UNCHANGED <<text, chunker>>, \A i \in DOMAIN chunks' : Fit(chunks'[i])
    PROVE  SpansHoldTheirText'
  <1>1. Found' <=> Found
    BY FoundStays
  <1> QED BY <1>1 DEF SpansHoldTheirText, Fit, Found

(* The chunk under construction lies within the span it will be given. *)
LEMMA BuiltChunkFits ==
    ASSUME ChunkerInv, Fits, Packing, current # <<>>
    PROVE  LET c == Chunk(current, currentStart, EndSoFar)
           IN  c \in ChunkRecords /\ Fit(c)
  <1> DEFINE c == Chunk(current, currentStart, EndSoFar)
  <1>1. /\ current \in Seq(Int) /\ currentStart \in Int /\ text \in Texts /\ pieces \in Seq(Pieces(text))
        /\ next \in DOMAIN pieces
    <2>1. next \in Nat /\ Len(pieces) \in Nat /\ DOMAIN pieces = 1..Len(pieces)
      BY ChunksAre
    <2>2. next <= Len(pieces) /\ next >= 1
      BY DEF ChunkerInv, Stages
    <2>3. next \in DOMAIN pieces
      BY <2>1, <2>2
    <2> QED BY <2>3, ChunksAre
  <1>2. EndSoFar \in Nat
    BY <1>1, PieceTypes DEF EndSoFar
  <1>3. c \in ChunkRecords /\ c.text = current /\ c.from = currentStart /\ c.to = EndSoFar
    BY <1>1, <1>2 DEF Chunk, ChunkRecords
  <1>4. \A a \in Sources(current) : currentStart <= a /\ (a < EndSoFar \/ ~ Found)
    BY DEF Fits, CurrentFits, EndSoFar
  <1> QED BY <1>3, <1>4 DEF Fit

(* Every chunk lies within its span, after each action. *)
LEMMA AddPieceFits == ChunkerInv /\ Fits /\ AddPiece => Fits'
  <1> SUFFICES ASSUME ChunkerInv, Fits, AddPiece
               PROVE  Fits'
    OBVIOUS
  <1> DEFINE c == NextPiece.words.from
             d == NextPiece.words.to
             f == NextPiece.from
             g == NextPiece.to
             e == EndSoFar
  <1>1. /\ Packing /\ Packing' /\ next \in Nat /\ next + 1 \in DOMAIN pieces /\ next' = next + 1
        /\ UNCHANGED <<text, config, chunker, stage, pieces, place>>
        /\ c \in Nat /\ d \in Nat /\ c <= d /\ f \in Nat /\ g \in Nat
        /\ NextWords \in Seq(Int) /\ Sources(NextWords) = Within(NextPiece.words)
        /\ Within(NextPiece.words) = {x \in Nat : c <= x /\ x < d}
    BY NextPieceIs
  <1>2. /\ chunks \in Seq(ChunkRecords) /\ current \in Seq(Int) /\ currentStart \in Int
        /\ current = <<>> => chunks = <<>>
    BY <1>1, ChunksAre DEF ChunkerInv, Stages
  <1>3. f <= c /\ f <= g /\ (Found => d <= g)
    BY <1>1 DEF ChunkerInv, PiecesFit, NextPiece
  <1>4. current # <<>> =>
           /\ e \in Nat /\ config.overlap \in Nat /\ e <= f
           /\ currentStart <= e
           /\ \A a \in Sources(current) : a \in Int /\ currentStart <= a /\ (Found => a < e)
    <2> SUFFICES ASSUME current # <<>>
                 PROVE  /\ e \in Nat /\ config.overlap \in Nat /\ e <= f
                        /\ currentStart <= e
                        /\ \A a \in Sources(current) : a \in Int /\ currentStart <= a /\ (Found => a < e)
      OBVIOUS
    <2>1. next \in DOMAIN pieces /\ e \in Nat /\ config.overlap \in Nat
      BY CarriedIs
    <2>2. next < next + 1
      BY <1>1
    <2>3. e <= f
      BY <1>1, <2>1, <2>2 DEF ChunkerInv, PiecesFit, EndSoFar, NextPiece
    <2>4. Sources(current) \subseteq Int
      BY <1>2 DEF Sources, ToSet
    <2> QED BY <1>1, <2>1, <2>3, <2>4 DEF Fits, CurrentFits, EndSoFar
  <1>5. \A a \in Sources(NextWords) : a \in Nat /\ f <= a /\ (Found => a < g)
    <2> SUFFICES ASSUME NEW a \in Sources(NextWords)
                 PROVE  a \in Nat /\ f <= a /\ (Found => a < g)
      OBVIOUS
    <2>1. a \in Nat /\ c <= a /\ a < d
      BY <1>1
    <2> QED BY <1>1, <1>3, <2>1
  <1>6. \A i \in DOMAIN chunks : Fit(chunks[i])
    BY SpansAreFit DEF Fits
  <1>7. pieces'[next'].to = g /\ f <= g
    BY <1>1, <1>3 DEF NextPiece
  <1> HIDE DEF c, d, f, g, e
  <1>8. /\ current' # <<>> => /\ currentStart' <= g
                              /\ \A a \in Sources(current') : currentStart' <= a /\ (Found => a < g)
        /\ \A i \in DOMAIN chunks' : Fit(chunks'[i])
    <2>1. CASE Skips
      <3>1. current' = current /\ currentStart' = currentStart /\ chunks' = chunks
        BY <2>1 DEF Skips
      <3>2. current # <<>> => /\ currentStart <= g
                              /\ \A a \in Sources(current) : currentStart <= a /\ (Found => a < g)
        BY <1>1, <1>2, <1>4, <1>7
      <3> QED BY <1>6, <3>1, <3>2
    <2>2. CASE Begins
      <3>1. current' = NextWords /\ currentStart' = f /\ chunks' = chunks
        BY <2>2 DEF Begins, f
      <3> QED BY <1>5, <1>6, <1>7, <3>1
    <2>3. CASE BeginsAnew
      <3> DEFINE new == Chunk(current, currentStart, EndSoFar)
      <3>1. current # <<>> /\ chunks' = Append(chunks, new)
        BY <2>3 DEF BeginsAnew
      <3>2. new \in ChunkRecords /\ Fit(new)
        BY <1>1, <3>1, BuiltChunkFits
      <3> HIDE DEF new
      <3>3. \A i \in DOMAIN chunks' : Fit(chunks'[i])
        BY <1>2, <1>6, <3>1, <3>2, HoldsItsText
      <3>4. CASE current' = NextWords /\ currentStart' = NextPiece.from
        BY <1>5, <1>7, <3>3, <3>4 DEF f
      <3>5. CASE current' = Carried \o NextWords /\ currentStart' = EndSoFar - config.overlap
        <4>1. /\ Carried \in Seq(Int)
              /\ \A a \in Sources(Carried) : a \in Nat /\ e - config.overlap <= a /\ a < e
          BY <3>1, CarriedIs DEF e
        <4>2. Sources(current') = Sources(Carried) \cup Sources(NextWords)
          BY <1>1, <3>5, <4>1, JoinIs
        <4>3. currentStart' = e - config.overlap /\ e - config.overlap \in Int /\ e - config.overlap <= e
          BY <1>4, <3>1, <3>5 DEF e
        <4>4. e <= f /\ e \in Nat /\ f <= g
          BY <1>4, <1>7, <3>1
        <4>5. currentStart' <= g
          BY <1>1, <4>3, <4>4
        <4>6. \A a \in Sources(Carried) : currentStart' <= a /\ a < g
          BY <1>1, <4>1, <4>3, <4>4
        <4>7. \A a \in Sources(NextWords) : currentStart' <= a /\ (Found => a < g)
          BY <1>1, <1>5, <4>3, <4>4
        <4> QED BY <3>3, <4>2, <4>5, <4>6, <4>7
      <3> QED BY <2>3, <3>4, <3>5 DEF BeginsAnew
    <2>4. CASE GoesOn
      <3>1. current # <<>> /\ chunks' = chunks /\ currentStart' = currentStart
            /\ current' = current \o Separator \o NextWords
        BY <2>4 DEF GoesOn
      <3>2. Sources(current') = Sources(current) \cup Sources(NextWords)
        <4>1. /\ current \o Separator \in Seq(Int)
              /\ Sources(current \o Separator) = Sources(current) \cup Sources(Separator)
          BY <1>2, SeparatorIs, JoinIs
        <4>2. Sources((current \o Separator) \o NextWords) = Sources(current \o Separator) \cup Sources(NextWords)
          BY <1>1, <4>1, JoinIs
        <4> QED BY <3>1, <4>1, <4>2, SeparatorIs
      <3>3. /\ currentStart <= e /\ e <= f /\ e \in Nat
            /\ \A a \in Sources(current) : a \in Int /\ currentStart <= a /\ (Found => a < e)
        BY <1>4, <3>1
      <3>4. currentStart <= g /\ currentStart <= f
        BY <1>1, <1>2, <1>7, <3>3
      <3>5. \A a \in Sources(current) : currentStart <= a /\ (Found => a < g)
        BY <1>1, <1>2, <1>7, <3>3
      <3>6. \A a \in Sources(NextWords) : currentStart <= a /\ (Found => a < g)
        BY <1>1, <1>2, <1>5, <3>4
      <3> QED BY <1>6, <3>1, <3>2, <3>4, <3>5, <3>6
    <2> QED BY <2>1, <2>2, <2>3, <2>4, AddPieceIs
  <1>9. Found' <=> Found
    BY <1>1, FoundStays
  <1>10. SpansHoldTheirText'
    BY <1>1, <1>8, ChunksStayFit
  <1> QED BY <1>7, <1>8, <1>9, <1>10 DEF Fits, CurrentFits

LEMMA FitsHolds == ChunkerInv /\ Fits /\ [Step]_chunkVars => Fits'
  <1> SUFFICES ASSUME ChunkerInv, Fits, [Step]_chunkVars
               PROVE  Fits'
    OBVIOUS
  <1>1. text \in Texts /\ Len(text) \in Nat /\ chunks \in Seq(ChunkRecords) /\ Stages
    BY ChunksAre DEF ChunkerInv
  <1>2. CASE Short
    <2>1. /\ chunks' = <<Chunk(Copy(Whole(text)), 0, Len(text))>> /\ stage' = "done"
          /\ UNCHANGED <<text, chunker>>
      BY <1>2 DEF Short
    <2>2. \A a \in Sources(Copy(Whole(text))) : 0 <= a /\ a < Len(text)
      BY <1>1, CopyIs, SpanIs DEF Whole
    <2>3. \A i \in DOMAIN chunks' : Fit(chunks'[i])
      BY <2>1, <2>2 DEF Chunk, Fit
    <2> QED BY <2>1, <2>3, ChunksStayFit DEF Fits, CurrentFits, Packing
  <1>3. CASE Split \/ EndOfScan
    <2>1. chunks' = <<>> /\ current' = <<>>
      BY <1>1, <1>3 DEF Split, EndOfScan, Stages
    <2> QED BY <2>1 DEF Fits, CurrentFits, SpansHoldTheirText
  <1>4. CASE ScanPart
    <2>1. stage' = "scan" /\ chunks' = <<>>
      BY <1>1, <1>4 DEF ScanPart, Stages
    <2> QED BY <2>1 DEF Fits, CurrentFits, SpansHoldTheirText, Packing
  <1>0. \A i \in DOMAIN chunks : Fit(chunks[i])
    BY SpansAreFit DEF Fits
  <1>5. CASE EndOfPieces
    <2>1. CASE HandsOver
      <3>1. chunks' = <<>> /\ stage' = "enter"
        BY <2>1 DEF HandsOver
      <3> QED BY <3>1 DEF Fits, CurrentFits, SpansHoldTheirText, Packing
    <2>2. CASE Ends
      <3>1. stage' = "done" /\ chunks' = chunks \o LastChunk /\ UNCHANGED <<text, chunker>> /\ Packing
        BY <1>5, <2>2 DEF Ends, EndOfPieces
      <3>2. CASE current = <<>>
        <4>1. \A i \in DOMAIN chunks' : Fit(chunks'[i])
          BY <1>0, <1>5, <3>1, <3>2, AllChunks
        <4> QED BY <3>1, <4>1, ChunksStayFit DEF Fits, CurrentFits, Packing
      <3>3. CASE current # <<>>
        <4> DEFINE c == Chunk(current, currentStart, EndSoFar)
        <4>1. c \in ChunkRecords /\ Fit(c)
          BY <3>1, <3>3, BuiltChunkFits
        <4>2. chunks' = Append(chunks, c)
          BY <1>5, <3>1, <3>3, AllChunks
        <4> HIDE DEF c
        <4>3. \A i \in DOMAIN chunks' : Fit(chunks'[i])
          BY <1>0, <1>1, <4>1, <4>2, HoldsItsText
        <4> QED BY <3>1, <4>3, ChunksStayFit DEF Fits, CurrentFits, Packing
      <3> QED BY <3>2, <3>3
    <2> QED BY <1>5, <2>1, <2>2, EndOfPiecesIs
  <1>6. CASE CutFixed
    <2>1. /\ CutHere \in ChunkRecords
          /\ chunks' = chunks \/ chunks' = Append(chunks, CutHere)
      BY <1>6, CutHereIs
    <2>2. Fit(CutHere)
      <3>1. /\ CutHere.from = next /\ CutHere.to = NextCut /\ next \in Nat /\ NextCut \in Nat
            /\ Sources(CutHere.text) = {x \in Nat : next <= x /\ x < NextCut}
        BY <1>6, CutHereIs, ChunksAre
      <3> QED BY <3>1 DEF Fit
    <2>3. \A i \in DOMAIN chunks' : Fit(chunks'[i])
      BY <1>0, <1>1, <2>1, <2>2, HoldsItsText
    <2>4. ~ Packing' /\ UNCHANGED <<text, chunker>>
      BY <1>6 DEF CutFixed, Packing
    <2> QED BY <2>3, <2>4, ChunksStayFit DEF Fits, CurrentFits
  <1>7. CASE StepBack \/ EndOfFixed
    <2>1. ~ Packing' /\ UNCHANGED <<text, chunker, chunks>>
      BY <1>1, <1>7 DEF StepBack, EndOfFixed, Packing, Stages
    <2>2. SpansHoldTheirText'
      BY <1>0, <2>1, ChunksStayFit
    <2> QED BY <2>1, <2>2 DEF Fits, CurrentFits
  <1>8. CASE UNCHANGED chunkVars
    BY <1>8 DEF chunkVars, Fits, CurrentFits, SpansHoldTheirText, Found, Findable, Packing
  <1> QED BY <1>2, <1>3, <1>4, <1>5, <1>6, <1>7, <1>8, AddPieceFits DEF Step

(* No chunk begins behind its text, whatever the text, and none ends before   *)
(* it, unless its paragraphs were to be looked for and could not be found.   *)
THEOREM SpansFit == ChunkSpec => []SpansHoldTheirText
  <1>1. ChunkInit => Fits
    BY DEF ChunkInit, Fits, CurrentFits, SpansHoldTheirText, Packing
  <1>2. ChunkerInv /\ Fits /\ [Step]_chunkVars => Fits'
    BY FitsHolds
  <1>3. Fits => SpansHoldTheirText
    BY DEF Fits
  <1> QED BY <1>1, <1>2, <1>3, ChunkerInvariance, PTL DEF ChunkSpec

-----------------------------------------------------------------------------
(* The size of the chunks.                                                  *)

(* The longest piece is as long as any. *)
LEMMA LongestIs ==
    ASSUME NEW t \in Texts, NEW q \in Seq(Pieces(t))
    PROVE  LET longest == Max({0} \cup {q[i].words.to - q[i].words.from : i \in DOMAIN q})
           IN  longest \in Nat /\ \A i \in DOMAIN q : q[i].words.to - q[i].words.from <= longest
  <1> DEFINE S == {0} \cup {q[i].words.to - q[i].words.from : i \in DOMAIN q}
  <1>1. /\ Len(t) \in Nat
        /\ \A i \in DOMAIN q : /\ q[i].words.from \in Nat /\ q[i].words.to \in Nat
                               /\ q[i].words.from <= q[i].words.to /\ q[i].words.to <= Len(t)
    BY PieceTypes
  <1>2. \A i \in DOMAIN q : q[i].words.to - q[i].words.from \in 0..Len(t)
    BY <1>1
  <1>3. S \in SUBSET Nat /\ S # {} /\ \A x \in S : x <= Len(t)
    BY <1>1, <1>2
  <1>4. \A i \in DOMAIN q : q[i].words.to - q[i].words.from \in S
    OBVIOUS
  <1> HIDE DEF S
  <1>5. Max(S) \in S /\ \A x \in S : x <= Max(S)
    BY <1>1, <1>3, MaxIs
  <1> QED BY <1>3, <1>4, <1>5 DEF S

LEMMA LargestIs ==
    ASSUME NEW a \in Int, NEW b \in Int
    PROVE  Largest(a, b) \in Int /\ a <= Largest(a, b) /\ b <= Largest(a, b)
  BY DEF Largest

SizeBound == Largest(config.maxSize + Len(Separator) - 1,
                     LongestPiece + Largest(config.overlap, config.minSize - 1 + Len(Separator)))

\* The bound on a chunk is above each of the three ways in which it can be exceeded.
LEMMA SizeBoundIs ==
    ASSUME ChunkerInv
    PROVE  /\ SizeBound \in Int /\ LongestPiece \in Nat
           /\ config.maxSize + Len(Separator) - 1 <= SizeBound
           /\ LongestPiece + config.overlap <= SizeBound
           /\ LongestPiece + (config.minSize - 1 + Len(Separator)) <= SizeBound
           /\ 0 <= SizeBound /\ LongestPiece <= SizeBound
  <1> DEFINE m == config.minSize - 1 + Len(Separator)
             x == config.maxSize + Len(Separator) - 1
             o == config.overlap
             h == Largest(o, m)
  <1>1. LongestPiece \in Nat
    BY ChunksAre, LongestIs DEF LongestPiece
  <1>2. Len(Separator) \in {2, 3}
    BY SeparatorIs
  <1>3. o \in Nat /\ m \in Int /\ x \in Int
    BY SMTT(40), <1>2, ChunksAre
  <1> HIDE DEF m, x, o
  <1>4. h \in Int /\ o <= h /\ m <= h
    BY <1>3, LargestIs
  <1> HIDE DEF h
  <1>5. LongestPiece + h \in Int
    BY <1>1, <1>4
  <1>6. SizeBound = Largest(x, LongestPiece + h)
    BY DEF SizeBound, x, h, o, m
  <1>7. SizeBound \in Int /\ x <= SizeBound /\ LongestPiece + h <= SizeBound
    BY <1>3, <1>5, <1>6, LargestIs
  <1>8. LongestPiece + o <= SizeBound /\ LongestPiece + m <= SizeBound /\ 0 <= SizeBound /\ LongestPiece <= SizeBound
    BY <1>1, <1>3, <1>4, <1>7
  <1> QED BY <1>1, <1>7, <1>8 DEF x, o, m

(* No chunk exceeds the bound, after each action. *)
LEMMA AddPieceBounded == ChunkerInv /\ ChunksBounded /\ AddPiece => ChunksBounded'
  <1> SUFFICES ASSUME ChunkerInv, ChunksBounded, AddPiece
               PROVE  ChunksBounded'
    OBVIOUS
  <1> DEFINE w == Len(NextWords)
  <1>1. /\ Packing /\ Packing' /\ next + 1 \in DOMAIN pieces
        /\ UNCHANGED <<text, config, chunker, stage, pieces, place>>
        /\ NextWords \in Seq(Int) /\ w = NextPiece.words.to - NextPiece.words.from
    BY NextPieceIs
  <1>2. /\ chunks \in Seq(ChunkRecords) /\ current \in Seq(Int) /\ currentStart \in Int
        /\ text \in Texts /\ pieces \in Seq(Pieces(text))
        /\ config.maxSize \in Nat /\ config.minSize \in Nat /\ config.overlap \in Nat
        /\ Len(current) \in Nat /\ w \in Nat
    BY <1>1, ChunksAre
  <1>3. w <= LongestPiece
    BY <1>1, <1>2, LongestIs DEF LongestPiece, NextPiece
  <1>4. Len(current) <= SizeBound /\ \A i \in DOMAIN chunks : Len(chunks[i].text) <= SizeBound
    BY <1>1 DEF ChunksBounded, SizeBound
  <1>5. /\ SizeBound \in Int /\ LongestPiece \in Nat
        /\ config.maxSize + Len(Separator) - 1 <= SizeBound
        /\ LongestPiece + config.overlap <= SizeBound
        /\ LongestPiece + (config.minSize - 1 + Len(Separator)) <= SizeBound
        /\ 0 <= SizeBound /\ LongestPiece <= SizeBound
    BY SizeBoundIs
  <1>6. Separator \in Seq(Int) /\ Len(Separator) \in {2, 3}
    BY SeparatorIs
  <1> HIDE DEF w
  <1>7. Len(current') <= SizeBound /\ \A i \in DOMAIN chunks' : Len(chunks'[i].text) <= SizeBound
    <2>1. CASE Skips
      BY <1>4, <2>1 DEF Skips
    <2>2. CASE Begins
      <3>1. Len(current') = w /\ chunks' = chunks
        BY <2>2 DEF Begins, w
      <3> QED BY <1>2, <1>3, <1>4, <1>5, <3>1
    <2>3. CASE BeginsAnew
      <3> DEFINE new == Chunk(current, currentStart, EndSoFar)
      <3>1. current # <<>> /\ chunks' = Append(chunks, new)
        BY <2>3 DEF BeginsAnew
      <3>2. EndSoFar \in Nat /\ Carried \in Seq(Int) /\ Len(Carried) <= config.overlap /\ Len(Carried) \in Nat
        BY <3>1, CarriedIs
      <3>3. new \in ChunkRecords /\ new.text = current
        BY <1>2, <3>2 DEF Chunk, ChunkRecords
      <3> HIDE DEF new
      <3>4. /\ \A i \in DOMAIN chunks : chunks'[i] = chunks[i]
            /\ chunks'[Len(chunks) + 1] = new
            /\ \A i \in DOMAIN chunks' : i \in DOMAIN chunks \/ i = Len(chunks) + 1
        BY <1>2, <3>1, <3>3, AppendedIs
      <3>5. \A i \in DOMAIN chunks' : Len(chunks'[i].text) <= SizeBound
        BY <1>4, <3>3, <3>4
      <3>6. Len(Carried \o NextWords) = Len(Carried) + w
        BY <1>1, <3>2, JoinIs DEF w
      <3>7. Len(current') = Len(Carried) + w \/ Len(current') = w
        BY <2>3, <3>6 DEF BeginsAnew, w
      <3>8. Len(current') <= SizeBound
        BY SMTT(40), <1>2, <1>3, <1>5, <3>2, <3>7
      <3> QED BY <3>5, <3>8
    <2>4. CASE GoesOn
      <3>1. Len((current \o Separator) \o NextWords) = Len(current) + Len(Separator) + w
        <4>1. current \o Separator \in Seq(Int) /\ Len(current \o Separator) = Len(current) + Len(Separator)
          BY <1>2, <1>6, JoinIs
        <4>2. Len((current \o Separator) \o NextWords) = Len(current \o Separator) + w
          BY <1>1, <4>1, JoinIs DEF w
        <4> QED BY <4>1, <4>2
      <3>2. current' = (current \o Separator) \o NextWords /\ chunks' = chunks
        BY <2>4 DEF GoesOn
      <3>3. ~ (Len(current) + w + 1 > config.maxSize) \/ ~ (Len(current) >= config.minSize)
        BY <2>4 DEF GoesOn, TooLong, w
      <3>4. CASE ~ (Len(current) + w + 1 > config.maxSize)
        BY SMTT(40), <1>2, <1>4, <1>5, <1>6, <3>1, <3>2, <3>4
      <3>5. CASE ~ (Len(current) >= config.minSize)
        BY <1>2, <1>3, <1>4, <1>5, <1>6, <3>1, <3>2, <3>5
      <3> QED BY <3>3, <3>4, <3>5
    <2> QED BY <2>1, <2>2, <2>3, <2>4, AddPieceIs
  <1> QED BY <1>1, <1>7 DEF ChunksBounded, SizeBound, LongestPiece, Separator

LEMMA BoundedHolds == ChunkerInv /\ ChunkerInv' /\ ChunksBounded /\ [Step]_chunkVars => ChunksBounded'
  <1> SUFFICES ASSUME ChunkerInv, ChunkerInv', ChunksBounded, [Step]_chunkVars
               PROVE  ChunksBounded'
    OBVIOUS
  <1>1. Stages
    BY DEF ChunkerInv
  <1>2. CASE Split \/ EndOfScan
    <2>1. chunks' = <<>> /\ current' = <<>>
      BY <1>1, <1>2 DEF Split, EndOfScan, Stages
    <2>2. text' \in Texts /\ pieces' \in Seq(Pieces(text'))
          /\ config'.maxSize \in Nat \ {0} /\ config'.overlap \in Nat /\ config'.minSize \in Nat \ {0}
      BY DEF ChunkerInv, ChunkerTypes
    <2> DEFINE sep == Len(Separator')
               x == config'.maxSize + sep - 1
               m == config'.minSize - 1 + sep
               o == config'.overlap
               h == Largest(o, m)
               longest == Max({0} \cup {pieces'[i].words.to - pieces'[i].words.from : i \in DOMAIN pieces'})
    <2>3. longest \in Nat
      BY <2>2, LongestIs
    <2>4. sep \in {2, 3}
      <3>1. Len([i \in 1..2 |-> Inserted]) = 2 /\ Len([i \in 1..3 |-> Inserted]) = 3
        OBVIOUS
      <3> QED BY <3>1 DEF Separator
    <2> HIDE DEF longest, sep
    <2>5. m \in Int /\ o \in Int /\ x \in Nat
      BY <2>2, <2>4
    <2> HIDE DEF m, o, x
    <2>10. h \in Int
      BY <2>5, LargestIs
    <2> HIDE DEF h
    <2> DEFINE y == longest + h
    <2>6. y \in Int
      BY <2>3, <2>10
    <2> HIDE DEF y
    <2>7. Largest(x, y) \in Int /\ 0 <= Largest(x, y)
      BY <2>5, <2>6, LargestIs
    <2>8. Len(current') = 0 /\ DOMAIN chunks' = {}
      BY <2>1
    <2>9. /\ Len(current') <= Largest(x, y)
          /\ \A i \in DOMAIN chunks' : Len(chunks'[i].text) <= Largest(x, y)
      BY <2>7, <2>8
    <2> QED BY <2>9 DEF ChunksBounded, LongestPiece, y, longest, h, x, m, o, sep
  <1>3. CASE Short \/ ScanPart \/ EndOfPieces \/ CutFixed \/ StepBack \/ EndOfFixed
    <2>1. ~ Packing'
      BY <1>1, <1>3, EndOfPiecesIs
         DEF Short, ScanPart, HandsOver, Ends, CutFixed, StepBack, EndOfFixed, Packing, Stages
    <2> QED BY <2>1 DEF ChunksBounded
  <1>4. CASE UNCHANGED chunkVars
    BY <1>4 DEF chunkVars, ChunksBounded, LongestPiece, Separator, Packing
  <1> QED BY <1>2, <1>3, <1>4, AddPieceBounded DEF Step

(* No chunk is longer than the checks and the separator they forget allow,   *)
(* or than a piece with what may stand before it.                           *)
THEOREM ChunksAreBounded == ChunkSpec => []ChunksBounded
  <1>1. ChunkInit => ChunksBounded
    BY DEF ChunkInit, ChunksBounded, Packing
  <1>2. ChunkerInv /\ ChunkerInv' /\ ChunksBounded /\ [Step]_chunkVars => ChunksBounded'
    BY BoundedHolds
  <1> QED BY <1>1, <1>2, ChunkerInvariance, PTL DEF ChunkSpec

-----------------------------------------------------------------------------
(* Context engineering: the width of a text is the sum of its items'.        *)

HasWidths(s) == s = [i \in 1..Len(s) |-> s[i]] /\ Len(s) \in Nat /\ \A i \in 1..Len(s) : s[i].width \in Nat

Sums(s, f, n) == /\ f \in [0..n -> Nat] /\ f[0] = 0
                 /\ \A i \in 1..n : f[i] = f[i - 1] + s[i].width

(* Every text has running sums, and they are unique: *)
LEMMA SumsExist ==
    ASSUME NEW s, HasWidths(s)
    PROVE  \E f : Sums(s, f, Len(s))
  <1> DEFINE l == Len(s)
             Bad == {n \in 0..l : \A f : ~ Sums(s, f, n)}
  <1>1. l \in Nat /\ \A i \in 1..l : s[i].width \in Nat
    BY DEF HasWidths
  <1> HIDE DEF l
  <1> SUFFICES ASSUME Bad # {}
               PROVE  FALSE
    BY <1>1 DEF l
  <1>2. PICK m \in Bad : \A n \in Bad : m <= n
    <2>1. Bad \in SUBSET Nat
      BY <1>1
    <2> HIDE DEF Bad
    <2> QED BY <2>1, LeastOf
  <1>3. m \in 0..l /\ \A f : ~ Sums(s, f, m)
    OBVIOUS
  <1>4. m # 0
    <2> DEFINE z == [i \in 0..0 |-> 0]
    <2>1. Sums(s, z, 0)
      BY DEF Sums
    <2> QED BY <1>3, <2>1
  <1>5. m - 1 \in 0..l /\ m - 1 \notin Bad /\ m \in 1..l /\ m - 1 \in Nat
    <2>1. m - 1 \in 0..l /\ ~ (m <= m - 1) /\ m \in 1..l /\ m - 1 \in Nat
      BY <1>1, <1>3, <1>4
    <2> HIDE DEF Bad
    <2> QED BY <1>2, <2>1
  <1>6. PICK f : Sums(s, f, m - 1)
    BY <1>5
  <1> DEFINE k == m - 1
             g == [i \in 0..m |-> IF i = m THEN f[k] + s[m].width ELSE f[i]]
  <1>7. k \in Nat /\ k + 1 = m /\ k \in 0..k /\ m \in Nat
    BY <1>1, <1>3, <1>5
  <1>8. f \in [0..k -> Nat] /\ f[0] = 0 /\ \A i \in 1..k : f[i] = f[i - 1] + s[i].width
    BY <1>6 DEF Sums
  <1>9. f[k] + s[m].width \in Nat
    BY <1>1, <1>5, <1>7, <1>8
  <1> HIDE DEF k
  <1>10. \A i \in 0..m : i # m => i \in 0..k
    BY <1>7
  <1>11. g \in [0..m -> Nat] /\ g[0] = 0
    BY <1>4, <1>7, <1>8, <1>9, <1>10
  <1>12. \A i \in 1..m : g[i] = g[i - 1] + s[i].width
    <2> SUFFICES ASSUME NEW i \in 1..m
                 PROVE  g[i] = g[i - 1] + s[i].width
      OBVIOUS
    <2>1. i \in 0..m /\ i - 1 \in 0..m /\ i - 1 # m /\ i - 1 \in 0..k
      BY <1>7
    <2>2. g[i - 1] = f[i - 1]
      BY <2>1
    <2>3. CASE i = m
      <3>1. g[i] = f[k] + s[m].width /\ i - 1 = k
        BY <1>7, <2>1, <2>3
      <3> QED BY <2>2, <2>3, <3>1
    <2>4. CASE i # m
      <3>1. g[i] = f[i] /\ i \in 1..k
        BY <1>7, <2>1, <2>4
      <3> QED BY <1>8, <2>2, <3>1
    <2> QED BY <2>3, <2>4
  <1> HIDE DEF g
  <1>13. Sums(s, g, m)
    BY <1>11, <1>12 DEF Sums
  <1> QED BY <1>3, <1>13

(* The sums depend on the items that are summed only. *)
LEMMA SumsAgree ==
    ASSUME NEW s, NEW t, NEW f, NEW g, NEW n \in Nat, NEW m \in Nat,
           Sums(s, f, n), Sums(t, g, m), n <= m,
           \A i \in 1..n : s[i] = t[i]
    PROVE  \A i \in 0..n : f[i] = g[i]
  <1> DEFINE Bad == {i \in 0..n : f[i] # g[i]}
  <1> SUFFICES ASSUME Bad # {}
               PROVE  FALSE
    OBVIOUS
  <1>1. PICK k \in Bad : \A i \in Bad : k <= i
    <2>1. Bad \in SUBSET Nat
      OBVIOUS
    <2> HIDE DEF Bad
    <2> QED BY <2>1, LeastOf
  <1>2. k \in 0..n /\ f[k] # g[k]
    OBVIOUS
  <1>3. k # 0
    BY <1>2 DEF Sums
  <1>4. k \in 1..n /\ k \in 1..m /\ k - 1 \in 0..n /\ ~ (k <= k - 1)
    BY <1>2, <1>3
  <1>5. k - 1 \notin Bad
    <2> HIDE DEF Bad
    <2> QED BY <1>1, <1>4
  <1>6. f[k - 1] = g[k - 1]
    BY <1>4, <1>5
  <1>7. f[k] = f[k - 1] + s[k].width /\ g[k] = g[k - 1] + t[k].width
    BY <1>4 DEF Sums
  <1> QED BY <1>2, <1>4, <1>6, <1>7

(* The width of a text is the last of its sums. *)
LEMMA WidthIs ==
    ASSUME NEW s, HasWidths(s)
    PROVE  \E f : Sums(s, f, Len(s)) /\ Width(s) = f[Len(s)]
  <1> DEFINE l == Len(s)
             R(w) == w = [n \in 0..l |-> IF n = 0 THEN 0 ELSE w[n - 1] + s[n].width]
             w == CHOOSE v : R(v)
  <1>1. l \in Nat /\ \A i \in 1..l : s[i].width \in Nat
    BY DEF HasWidths
  <1>2. Width(s) = w[l]
    BY DEF Width
  <1>3. PICK f : Sums(s, f, l)
    BY SumsExist
  <1> HIDE DEF l
  <1>4. R(f)
    <2>1. f = [n \in 0..l |-> f[n]]
      BY <1>3 DEF Sums
    <2>2. \A n \in 0..l : f[n] = IF n = 0 THEN 0 ELSE f[n - 1] + s[n].width
      <3>1. \A n \in 0..l : n # 0 => n \in 1..l
        BY <1>1
      <3> QED BY <1>3, <3>1 DEF Sums
    <2> QED BY <2>1, <2>2
  <1>5. R(w)
    <2> HIDE DEF R
    <2> QED BY <1>4
  <1> HIDE DEF w
  <1>6. DOMAIN w = 0..l /\ w = [n \in 0..l |-> w[n]]
        /\ \A n \in 0..l : w[n] = IF n = 0 THEN 0 ELSE w[n - 1] + s[n].width
    BY <1>5
  <1> HIDE DEF R
  <1>7. 0 \in 0..l /\ l \in 0..l /\ w[0] = 0
    <2>1. 0 \in 0..l /\ l \in 0..l
      BY <1>1
    <2> QED BY <1>6, <2>1
  \* It is the same function.
  <1> DEFINE Bad == {n \in 0..l : w[n] # f[n]}
  <1>8. Bad = {}
    <2> SUFFICES ASSUME Bad # {}
                 PROVE  FALSE
      OBVIOUS
    <2>1. PICK k \in Bad : \A i \in Bad : k <= i
      <3>1. Bad \in SUBSET Nat
        BY <1>1
      <3> HIDE DEF Bad
      <3> QED BY <3>1, LeastOf
    <2>2. k \in 0..l /\ w[k] # f[k]
      OBVIOUS
    <2>3. k # 0
      BY <1>3, <1>7, <2>2 DEF Sums
    <2>4. k \in 1..l /\ k - 1 \in 0..l /\ ~ (k <= k - 1)
      BY <1>1, <2>2, <2>3
    <2>5. k - 1 \notin Bad
      <3> HIDE DEF Bad
      <3> QED BY <2>1, <2>4
    <2>6. w[k - 1] = f[k - 1]
      BY <2>4, <2>5
    <2>7. f[k] = f[k - 1] + s[k].width
      BY <1>3, <2>4 DEF Sums
    <2>8. w[k] = w[k - 1] + s[k].width
      BY <1>6, <2>2, <2>3
    <2> QED BY <2>2, <2>6, <2>7, <2>8
  <1>9. w[l] = f[l]
    BY <1>7, <1>8
  <1> QED BY <1>2, <1>3, <1>9 DEF l

LEMMA WidthOfNothing == HasWidths(<<>>) /\ Width(<<>>) = 0
  <1>1. HasWidths(<<>>) /\ Len(<<>>) = 0
    BY DEF HasWidths
  <1>2. PICK f : Sums(<<>>, f, 0) /\ Width(<<>>) = f[0]
    BY <1>1, WidthIs
  <1> QED BY <1>1, <1>2 DEF Sums

LEMMA WidthIsNat ==
    ASSUME NEW s, HasWidths(s)
    PROVE  Width(s) \in Nat
  <1>1. Len(s) \in Nat
    BY DEF HasWidths
  <1>2. PICK f : Sums(s, f, Len(s)) /\ Width(s) = f[Len(s)]
    BY WidthIs
  <1>3. Len(s) \in 0..Len(s)
    BY <1>1
  <1> QED BY <1>2, <1>3 DEF Sums

LEMMA WidthOfAppend ==
    ASSUME NEW s, HasWidths(s), NEW x, x.width \in Nat
    PROVE  HasWidths(Append(s, x)) /\ Width(Append(s, x)) = Width(s) + x.width
  <1> DEFINE n == Len(s)
             t == Append(s, x)
             S == {s[i] : i \in 1..n} \cup {x}
  <1>1. n \in Nat /\ s = [i \in 1..n |-> s[i]] /\ \A i \in 1..n : s[i].width \in Nat
    BY DEF HasWidths
  <1>2. s \in Seq(S) /\ x \in S
    <2>1. s \in [1..n -> S]
      BY <1>1
    <2> HIDE DEF n, S
    <2>2. s \in Seq(S)
      BY <1>1, <2>1, SeqDef
    <2> QED BY <2>2 DEF S
  <1> HIDE DEF S
  <1>3. /\ t \in Seq(S) /\ Len(t) = n + 1 /\ DOMAIN t = 1..(n + 1)
        /\ \A i \in 1..n : t[i] = s[i]
        /\ t[n + 1] = x
    BY <1>2, AppendedIs
  <1> HIDE DEF t, n
  <1>4. HasWidths(t)
    <2>1. t = [i \in 1..(n + 1) |-> t[i]]
      BY <1>3
    <2>2. \A i \in 1..(n + 1) : i \in 1..n \/ i = n + 1
      BY <1>1
    <2>3. \A i \in 1..(n + 1) : t[i].width \in Nat
      BY <1>1, <1>3, <2>2
    <2>4. n + 1 \in Nat
      BY <1>1
    <2> QED BY <1>3, <2>1, <2>3, <2>4 DEF HasWidths
  <1>5. PICK f : Sums(s, f, n) /\ Width(s) = f[n]
    BY WidthIs DEF n
  <1>6. PICK g : Sums(t, g, n + 1) /\ Width(t) = g[n + 1]
    BY <1>3, <1>4, WidthIs
  <1>7. n + 1 \in Nat /\ n <= n + 1 /\ n \in 0..n /\ n + 1 \in 1..(n + 1) /\ (n + 1) - 1 = n
    BY <1>1
  <1>8. f[n] = g[n]
    BY <1>1, <1>3, <1>5, <1>6, <1>7, SumsAgree
  <1>9. g[n + 1] = g[(n + 1) - 1] + t[n + 1].width
    BY <1>6, <1>7 DEF Sums
  <1> QED BY <1>3, <1>4, <1>5, <1>6, <1>7, <1>8, <1>9 DEF t

(* Texts that are joined, cut or listed have widths. *)
LEMMA JoinedWidths ==
    ASSUME NEW s, NEW t, HasWidths(s), HasWidths(t)
    PROVE  HasWidths(s \o t) /\ Range(s \o t) = Range(s) \cup Range(t)
  <1> DEFINE n == Len(s)
             m == Len(t)
             S == {s[i] : i \in 1..n} \cup {t[i] : i \in 1..m}
             u == s \o t
  <1>1. /\ n \in Nat /\ s = [i \in 1..n |-> s[i]] /\ \A i \in 1..n : s[i].width \in Nat
        /\ m \in Nat /\ t = [i \in 1..m |-> t[i]] /\ \A i \in 1..m : t[i].width \in Nat
    BY DEF HasWidths
  <1>2. s \in Seq(S) /\ t \in Seq(S) /\ DOMAIN s = 1..n /\ DOMAIN t = 1..m
    <2>1. s \in [1..n -> S] /\ t \in [1..m -> S]
      BY <1>1
    <2> HIDE DEF n, m, S
    <2>2. s \in Seq(S) /\ t \in Seq(S)
      BY <1>1, <2>1, SeqDef
    <2> QED BY <1>1, <2>2 DEF S
  <1> HIDE DEF S
  <1>3. /\ u \in Seq(S) /\ Len(u) = n + m
        /\ \A i \in 1..(n + m) : u[i] = IF i <= n THEN s[i] ELSE t[i - n]
    BY <1>2, ConcatProperties
  <1> HIDE DEF u, n, m
  <1>4. DOMAIN u = 1..(n + m) /\ u = [i \in 1..(n + m) |-> u[i]] /\ n + m \in Nat
    BY <1>1, <1>3
  <1>5. \A i \in 1..(n + m) : (i \in 1..n /\ u[i] = s[i]) \/ (i - n \in 1..m /\ u[i] = t[i - n])
    BY <1>1, <1>3
  <1>6. \A i \in 1..n : i \in 1..(n + m) /\ u[i] = s[i]
    BY <1>1, <1>3
  <1>7. \A i \in 1..m : i + n \in 1..(n + m) /\ u[i + n] = t[i]
    <2> SUFFICES ASSUME NEW i \in 1..m
                 PROVE  i + n \in 1..(n + m) /\ u[i + n] = t[i]
      OBVIOUS
    <2>1. i + n \in 1..(n + m) /\ ~ (i + n <= n) /\ (i + n) - n = i
      BY <1>1
    <2> QED BY <1>3, <2>1
  <1>8. HasWidths(u)
    BY <1>1, <1>3, <1>4, <1>5 DEF HasWidths
  <1>9. Range(u) = Range(s) \cup Range(t)
    <2>1. /\ Range(u) = {u[i] : i \in 1..(n + m)}
          /\ Range(s) = {s[i] : i \in 1..n}
          /\ Range(t) = {t[i] : i \in 1..m}
      BY <1>2, <1>4 DEF Range
    <2>2. Range(u) \subseteq Range(s) \cup Range(t)
      BY <1>5, <2>1
    <2>3. Range(s) \subseteq Range(u)
      BY <1>6, <2>1
    <2>4. Range(t) \subseteq Range(u)
      BY <1>7, <2>1
    <2> QED BY <2>2, <2>3, <2>4
  <1> QED BY <1>8, <1>9 DEF u

(* A text that is cut is one wider than the limit, for the ellipsis. *)
LEMMA CutIs ==
    ASSUME NEW s, HasWidths(s), NEW limit \in Nat
    PROVE  HasWidths(Cut(s, limit)) /\ Width(Cut(s, limit)) = limit + 1
  <1> DEFINE l == Len(s)
             S == {s[i] : i \in 1..l}
             fits == {n \in 0..l : Width(SubSeq(s, 1, n)) <= limit}
             m == Max(fits)
             whole == SubSeq(s, 1, m)
             last == Item("...", 0, limit - Width(whole) + 1, <<>>)
  <1>1. l \in Nat /\ s = [i \in 1..l |-> s[i]] /\ \A i \in 1..l : s[i].width \in Nat
    BY DEF HasWidths
  <1>2. s \in Seq(S)
    <2>1. s \in [1..l -> S]
      BY <1>1
    <2> HIDE DEF l, S
    <2> QED BY <1>1, <2>1, SeqDef
  <1>3. \A x \in S : x.width \in Nat
    BY <1>1
  <1> HIDE DEF S
  <1>4. ASSUME NEW n \in 0..l
        PROVE  HasWidths(SubSeq(s, 1, n))
    <2>1. 1 \in 1..(l + 1) /\ n \in (1 - 1)..l /\ n - 1 + 1 = n /\ n \in Nat
      BY <1>1
    <2>2. SubSeq(s, 1, n) \in Seq(S) /\ Len(SubSeq(s, 1, n)) = n
      BY <1>2, <2>1, SubSeqProperties
    <2> DEFINE p == SubSeq(s, 1, n)
    <2> HIDE DEF p
    <2>3. p \in Seq(S) /\ Len(p) = n
      BY <2>2 DEF p
    <2>4. p = [i \in 1..n |-> p[i]] /\ \A i \in 1..n : p[i] \in S
      BY <2>1, <2>3
    <2>5. HasWidths(p)
      BY <1>3, <2>1, <2>3, <2>4 DEF HasWidths
    <2> QED BY <2>5 DEF p
  <1>5. SubSeq(s, 1, 0) = <<>>
    <2>1. Len(SubSeq(s, 1, 0)) = 0 /\ SubSeq(s, 1, 0) \in Seq(S)
      <3>1. 1 \in 1..(l + 1) /\ 0 \in (1 - 1)..l /\ 0 - 1 + 1 = 0
        BY <1>1
      <3> QED BY <1>2, <3>1, SubSeqProperties
    <2> QED BY <2>1, EmptySeq
  <1>6. 0 \in fits
    <2>1. 0 \in 0..l
      <3>1. l \in Nat
        BY <1>1
      <3> HIDE DEF l
      <3> QED BY <3>1
    <2>2. Width(SubSeq(s, 1, 0)) = 0
      BY <1>5, WidthOfNothing, Zenon
    <2>3. 0 <= limit
      OBVIOUS
    <2> QED BY <2>1, <2>2, <2>3
  <1>7. fits \in SUBSET Nat /\ \A n \in fits : n <= l
    BY <1>1
  <1>8. m \in fits
    <2> HIDE DEF fits, l
    <2> QED BY <1>1, <1>6, <1>7, MaxIs
  <1>9. HasWidths(whole) /\ Width(whole) <= limit
    BY <1>4, <1>8
  <1> HIDE DEF whole
  <1>10. Width(whole) \in Nat
    BY <1>9, WidthIsNat
  <1>11. last.width = limit - Width(whole) + 1 /\ last.width \in Nat
    BY <1>9, <1>10 DEF Item
  <1> HIDE DEF last
  <1>12. HasWidths(Append(whole, last)) /\ Width(Append(whole, last)) = Width(whole) + last.width
    BY <1>9, <1>11, WidthOfAppend
  <1>13. Cut(s, limit) = Append(whole, last)
    BY DEF Cut, last, whole
  <1> QED BY <1>10, <1>11, <1>12, <1>13

(* A list of numbered records shows each of them. *)
LEMMA ListedIs ==
    ASSUME NEW of, NEW m \in Nat, NEW n \in Nat, m <= n + 1, NEW width \in Nat
    PROVE  /\ HasWidths(Listed(of, m..n, width))
           /\ \A k \in m..n :
                \E item \in Range(Listed(of, m..n, width)) : item.of = of /\ item.number = k
  <1> DEFINE S == m..n
             c == n - m + 1
             s == Listed(of, S, width)
  <1>1. c \in Nat /\ Cardinality(S) = c
    <2>1. c \in Nat
      OBVIOUS
    <2>2. Cardinality(m..n) = IF m > n THEN 0 ELSE n - m + 1
      BY FS_Interval
    <2>3. m > n => c = 0
      OBVIOUS
    <2> QED BY <2>1, <2>2, <2>3
  <1>2. s = [i \in 1..c |-> Item(of, Min(S) + i - 1, width, <<>>)]
    BY <1>1 DEF Listed
  <1>3. m <= n => Min(S) = m
    <2> SUFFICES ASSUME m <= n
                 PROVE  Min(S) = m
      OBVIOUS
    <2>1. S \in SUBSET Nat /\ m \in S /\ \A x \in S : m <= x /\ x \in Nat
      OBVIOUS
    <2> HIDE DEF S
    <2>2. Min(S) \in S /\ \A x \in S : Min(S) <= x
      BY <2>1, MinIs
    <2>3. Min(S) <= m /\ m <= Min(S) /\ Min(S) \in Nat
      BY <2>1, <2>2
    <2> QED BY <2>3
  <1> HIDE DEF s, S
  <1>4. DOMAIN s = 1..c /\ \A i \in 1..c : s[i] = Item(of, Min(S) + i - 1, width, <<>>)
    BY <1>2
  <1>5. Len(s) = c /\ s = [i \in 1..c |-> s[i]]
    <2> HIDE DEF c
    <2> QED BY <1>1, <1>2, <1>4
  <1>6. HasWidths(s)
    <2>1. \A i \in 1..c : s[i].width = width
      BY <1>4 DEF Item
    <2> QED BY <1>1, <1>5, <2>1 DEF HasWidths
  <1>7. ASSUME NEW k \in m..n
        PROVE  \E item \in Range(s) : item.of = of /\ item.number = k
    <2>1. /\ m <= n /\ k \in Nat /\ k - m + 1 \in 1..c /\ m + (k - m + 1) - 1 = k
      BY <1>1, <1>7 DEF c
    <2> DEFINE i == k - m + 1
    <2>2. s[i] = Item(of, k, width, <<>>)
      <3>1. s[i] = Item(of, Min(S) + i - 1, width, <<>>)
        BY <1>4, <2>1
      <3>2. Min(S) + i - 1 = k
        BY <1>3, <2>1
      <3> QED BY <3>1, <3>2
    <2>3. s[i] \in Range(s)
      BY <1>4, <2>1 DEF Range
    <2> QED BY <2>2, <2>3 DEF Item
  <1> QED BY <1>6, <1>7 DEF s, S

-----------------------------------------------------------------------------
(* Results of tools, and what is left of them.                             *)

Line == [reference : BOOLEAN, shows : Seq(STRING), width : Nat]
Call == [name : Names, result : Results, compressed : BOOLEAN]

(* The references of a result are numbered from 1. *)
LEMMA ReferencesAre ==
    ASSUME NEW result \in Results
    PROVE  \E n \in Nat : extractReferences(result) = [k \in 1..n |-> extractReferences(result)[k]]
  <1> DEFINE lines == {i \in DOMAIN result : result[i].reference}
             c == Cardinality(lines)
             n == IF c > MaxReferences THEN MaxReferences ELSE c
             line(k) == CHOOSE i \in lines : Cardinality({j \in lines : j <= i}) = k
  <1>1. c \in Nat
    <2>1. result \in Seq(Line)
      BY ContextAssumption DEF Line
    <2>2. DOMAIN result = 1..Len(result) /\ Len(result) \in Nat
      BY <2>1
    <2>3. IsFiniteSet(DOMAIN result)
      BY <2>2, FS_Interval
    <2>4. IsFiniteSet(lines)
      <3>1. lines \in SUBSET DOMAIN result
        OBVIOUS
      <3> HIDE DEF lines
      <3> QED BY <2>3, <3>1, FS_Subset
    <2> HIDE DEF lines
    <2> QED BY <2>4, FS_CardinalityType
  <1>2. n \in Nat
    <2> HIDE DEF c
    <2> QED BY <1>1, ContextAssumption
  <1>3. extractReferences(result) = [k \in 1..n |-> result[line(k)].shows[1]]
    BY DEF extractReferences
  <1> HIDE DEF n, line
  <1> QED BY <1>2, <1>3

(* extractReferences picks the lines one by one: those it gives are the first *)
(* of the lines that begin with a reference, in their order, up to the limit. *)
THEOREM ReferencesAreTheFirst ==
    ASSUME NEW result \in Results
    PROVE  LET refs == extractReferences(result)
               lines == {i \in DOMAIN result : result[i].reference}
           IN  /\ refs \in Seq(STRING) /\ Len(refs) <= MaxReferences
               /\ \E p \in [1..Len(refs) -> lines] :
                    /\ \A j, k \in 1..Len(refs) : j < k => p[j] < p[k]
                    /\ \A k \in 1..Len(refs) : refs[k] = result[p[k]].shows[1]
                    /\ \A i \in lines :
                         \/ \E k \in 1..Len(refs) : p[k] = i
                         \/ Len(refs) = MaxReferences /\ \A k \in 1..Len(refs) : p[k] < i
  <1> DEFINE lines == {i \in DOMAIN result : result[i].reference}
             c == Cardinality(lines)
             n == IF c > MaxReferences THEN MaxReferences ELSE c
             line(k) == CHOOSE i \in lines : Cardinality({j \in lines : j <= i}) = k
             refs == extractReferences(result)
  <1>1. result \in Seq(Line) /\ MaxReferences \in Nat \ {0}
    BY ContextAssumption DEF Line
  <1>2. lines \in SUBSET Nat /\ IsFiniteSet(lines)
    <2>1. DOMAIN result = 1..Len(result) /\ Len(result) \in Nat
      BY <1>1
    <2>2. IsFiniteSet(DOMAIN result)
      BY <2>1, FS_Interval
    <2>3. lines \in SUBSET DOMAIN result
      OBVIOUS
    <2> HIDE DEF lines
    <2> QED BY <2>1, <2>2, <2>3, FS_Subset
  <1>3. \A i \in lines : result[i].shows[1] \in STRING
    <2> SUFFICES ASSUME NEW i \in lines
                 PROVE  result[i].shows[1] \in STRING
      OBVIOUS
    <2>1. i \in DOMAIN result /\ result[i].shows # <<>>
      BY ContextAssumption
    <2>2. result[i] \in Line
      BY <1>1, <2>1
    <2>3. result[i].shows \in Seq(STRING)
      BY <2>2 DEF Line
    <2>4. Len(result[i].shows) \in Nat /\ Len(result[i].shows) # 0
      BY <2>1, <2>3, EmptySeq
    <2>5. 1 \in 1..Len(result[i].shows)
      BY <2>4
    <2> QED BY <2>3, <2>5
  <1>4. refs = [k \in 1..n |-> result[line(k)].shows[1]]
    BY DEF extractReferences
  <1> HIDE DEF lines, refs
  <1>5. c \in Nat
    BY <1>2, FS_CardinalityType
  \* The lines in their order.
  <1> DEFINE Begin(i) == [from |-> i]
             S == {Begin(i) : i \in lines}
             q == InOrder(S)
  <1>6. IsFiniteSet(S) /\ Cardinality(S) = c
    <2> DEFINE f == [i \in lines |-> Begin(i)]
    <2>1. f \in Bijection(lines, S)
      <3>1. f \in [lines -> S]
        OBVIOUS
      <3>2. \A i, j \in lines : f[i] = f[j] => i = j
        <4> SUFFICES ASSUME NEW i \in lines, NEW j \in lines, f[i] = f[j]
                     PROVE  i = j
          OBVIOUS
        <4>1. Begin(i).from = Begin(j).from
          OBVIOUS
        <4> QED BY <4>1
      <3>3. \A s \in S : \E i \in lines : f[i] = s
        OBVIOUS
      <3> HIDE DEF f, S
      <3> QED BY <3>1, <3>2, <3>3 DEF Bijection, Injection, Surjection, IsInjective
    <2>2. ExistsBijection(lines, S)
      BY <2>1 DEF ExistsBijection
    <2> HIDE DEF S
    <2> QED BY <1>2, <2>2, FS_Bijection
  <1>7. \A s \in S : s.from \in lines /\ s.from \in Int
    BY <1>2
  <1>8. \A r, s \in S : r.from = s.from => r = s
    OBVIOUS
  <1>9. \A i \in lines : Begin(i) \in S /\ Begin(i).from = i
    OBVIOUS
  <1> HIDE DEF S, c, Begin
  <1>10. /\ q \in Seq(S) /\ Len(q) = c
         /\ \A i, j \in 1..c : i < j => q[i].from < q[j].from
         /\ \A s \in S : \E i \in 1..c : q[i] = s
    <2>1. /\ InOrder(S) \in Seq(S) /\ Len(InOrder(S)) = Cardinality(S)
          /\ \A i, j \in 1..Len(InOrder(S)) : i < j => InOrder(S)[i].from < InOrder(S)[j].from
          /\ \A s \in S : \E i \in 1..Len(InOrder(S)) : InOrder(S)[i] = s
      BY <1>6, <1>7, <1>8, InOrderIs
    <2> QED BY <1>6, <2>1
  <1> DEFINE at == [k \in 1..c |-> q[k].from]
  <1> HIDE DEF q
  <1>11. at \in [1..c -> lines] /\ \A j, k \in 1..c : j < k => at[j] < at[k]
    <2>1. \A k \in 1..c : q[k] \in S
      BY <1>10
    <2> QED BY <1>7, <1>10, <2>1
  <1>12. \A i \in lines : \E k \in 1..c : at[k] = i
    <2> SUFFICES ASSUME NEW i \in lines
                 PROVE  \E k \in 1..c : at[k] = i
      OBVIOUS
    <2>1. PICK k \in 1..c : q[k] = Begin(i)
      BY <1>9, <1>10
    <2> QED BY <1>9, <2>1
  <1> HIDE DEF at
  <1>13. \A j, k \in 1..c : at[j] \in Nat /\ (at[j] <= at[k] <=> j <= k)
    <2> SUFFICES ASSUME NEW j \in 1..c, NEW k \in 1..c
                 PROVE  at[j] \in Nat /\ (at[j] <= at[k] <=> j <= k)
      OBVIOUS
    <2>1. at[j] \in Nat /\ at[k] \in Nat
      BY <1>2, <1>11
    <2>2. (j < k => at[j] < at[k]) /\ (k < j => at[k] < at[j]) /\ (j = k => at[j] = at[k])
      BY <1>11
    <2> QED BY <1>5, <2>1, <2>2
  \* There are k lines up to the k-th.
  <1>14. ASSUME NEW k \in 1..c
         PROVE  Cardinality({j \in lines : j <= at[k]}) = k
    <2> DEFINE T == {j \in lines : j <= at[k]}
               g == [i \in 1..k |-> at[i]]
    <2>1. \A i \in 1..k : i \in 1..c /\ at[i] \in T
      <3>1. \A i \in 1..k : i \in 1..c /\ i <= k
        BY <1>5
      <3> QED BY <1>11, <1>13, <3>1
    <2>2. \A j \in T : \E i \in 1..k : at[i] = j
      <3> SUFFICES ASSUME NEW j \in T
                   PROVE  \E i \in 1..k : at[i] = j
        OBVIOUS
      <3>1. PICK i \in 1..c : at[i] = j
        BY <1>12
      <3>2. i <= k
        BY <1>13, <3>1
      <3>3. i \in 1..k
        BY <1>5, <3>2
      <3> QED BY <3>1, <3>3
    <2>3. \A i, j \in 1..k : at[i] = at[j] => i = j
      <3> SUFFICES ASSUME NEW i \in 1..k, NEW j \in 1..k, at[i] = at[j]
                   PROVE  i = j
        OBVIOUS
      <3>1. at[i] <= at[j] /\ at[j] <= at[i]
        BY <1>13, <2>1
      <3>2. i <= j /\ j <= i
        BY <1>13, <2>1, <3>1
      <3> QED BY <3>2
    <2> HIDE DEF T
    <2>4. g \in Bijection(1..k, T)
      <3>1. g \in [1..k -> T]
        BY <2>1
      <3>2. \A i, j \in 1..k : g[i] = g[j] => i = j
        BY <2>3
      <3>3. \A j \in T : \E i \in 1..k : g[i] = j
        BY <2>2
      <3> HIDE DEF g
      <3> QED BY <3>1, <3>2, <3>3 DEF Bijection, Injection, Surjection, IsInjective
    <2>5. ExistsBijection(1..k, T)
      BY <2>4 DEF ExistsBijection
    <2>6. k \in Nat /\ IsFiniteSet(1..k) /\ Cardinality(1..k) = k
      <3>1. k \in Nat /\ 1 \in Int /\ k \in Int /\ ~ (1 > k)
        BY <1>5
      <3>2. IsFiniteSet(1..k) /\ Cardinality(1..k) = IF 1 > k THEN 0 ELSE k - 1 + 1
        BY <3>1, FS_Interval
      <3> QED BY <3>1, <3>2
    <2>7. Cardinality(T) = k
      BY <2>5, <2>6, FS_Bijection
    <2> QED BY <2>7 DEF T
  <1>15. \A k \in 1..c : line(k) = at[k]
    <2> SUFFICES ASSUME NEW k \in 1..c
                 PROVE  line(k) = at[k]
      OBVIOUS
    <2>1. at[k] \in lines /\ Cardinality({j \in lines : j <= at[k]}) = k
      BY <1>11, <1>14
    <2>2. line(k) \in lines /\ Cardinality({j \in lines : j <= line(k)}) = k
      BY <2>1
    <2> HIDE DEF line
    <2>3. PICK i \in 1..c : at[i] = line(k)
      BY <1>12, <2>2
    <2>4. Cardinality({j \in lines : j <= at[i]}) = i
      BY <1>14
    <2>5. i = k
      BY <2>2, <2>3, <2>4
    <2> QED BY <2>3, <2>5
  <1>16. n \in Nat /\ n <= MaxReferences /\ n <= c /\ (n = c \/ n = MaxReferences) /\ \A k \in 1..n : k \in 1..c
    BY <1>1, <1>5
  <1> HIDE DEF n, line
  <1>17. Len(refs) = n /\ refs = [k \in 1..n |-> result[at[k]].shows[1]]
    <2>1. refs = [k \in 1..n |-> result[at[k]].shows[1]]
      BY <1>4, <1>15, <1>16
    <2> QED BY <1>16, <2>1
  <1>18. refs \in Seq(STRING)
    <2>1. \A k \in 1..n : result[at[k]].shows[1] \in STRING
      BY <1>3, <1>11, <1>16
    <2>2. refs \in [1..n -> STRING]
      BY <1>17, <2>1
    <2> QED BY <1>16, <2>2, SeqDef
  <1> DEFINE p == [k \in 1..n |-> at[k]]
  <1>19. p \in [1..n -> lines] /\ \A j, k \in 1..n : j < k => p[j] < p[k]
    BY <1>11, <1>16
  <1>20. \A k \in 1..n : refs[k] = result[p[k]].shows[1]
    BY <1>17
  <1>21. ASSUME NEW i \in lines
         PROVE  (\E k \in 1..n : p[k] = i) \/ (n = MaxReferences /\ \A k \in 1..n : p[k] < i)
    <2>1. PICK m \in 1..c : at[m] = i
      BY <1>12
    <2>2. CASE m \in 1..n
      <3>1. p[m] = i
        BY <2>1, <2>2
      <3> QED BY <2>2, <3>1
    <2>3. CASE m \notin 1..n
      <3>1. n < m /\ n = MaxReferences
        BY <1>5, <1>16, <2>3
      <3>2. \A k \in 1..n : k < m /\ k \in 1..c
        BY <1>5, <1>16, <3>1
      <3>3. \A k \in 1..n : at[k] < at[m]
        BY <1>11, <3>2
      <3> QED BY <2>1, <3>1, <3>3
    <2> QED BY <2>2, <2>3
  <1> HIDE DEF p
  <1> QED BY <1>16, <1>17, <1>18, <1>19, <1>20, <1>21 DEF lines, refs

(* The lines of a result have widths ... *)
LEMMA ResultHasWidths ==
    ASSUME NEW result \in Results
    PROVE  HasWidths(result)
  <1>1. result \in Seq(Line)
    BY ContextAssumption DEF Line
  <1>2. Len(result) \in Nat /\ result \in [1..Len(result) -> Line]
    BY <1>1
  <1>3. result = [i \in 1..Len(result) |-> result[i]] /\ \A i \in 1..Len(result) : result[i] \in Line
    BY <1>2
  <1> QED BY <1>2, <1>3 DEF HasWidths, Line

(* A compressed call shows the references of its result in one line. *)
LEMMA CompressedIs ==
    ASSUME NEW tc \in Call
    PROVE  /\ compressToolCall(tc).compressed = TRUE
           /\ compressToolCall(tc).result =
                <<[reference |-> FALSE, shows |-> extractReferences(tc.result),
                   width |-> 1 + Len(extractReferences(tc.result))]>>
           /\ HasWidths(compressToolCall(tc).result)
  <1> DEFINE refs == extractReferences(tc.result)
             line == [reference |-> FALSE, shows |-> refs, width |-> 1 + Len(refs)]
  <1>1. tc.result \in Results
    BY DEF Call
  <1>2. Len(refs) \in Nat
    BY <1>1, ReferencesAre
  <1> HIDE DEF refs
  <1>3. compressToolCall(tc).compressed = TRUE /\ compressToolCall(tc).result = <<line>>
    BY DEF compressToolCall, Call, refs
  <1>4. line.width \in Nat
    BY <1>2
  <1> HIDE DEF line
  <1>5. HasWidths(<<line>>)
    <2>1. Len(<<line>>) = 1 /\ <<line>> = [i \in 1..1 |-> <<line>>[i]] /\ \A i \in 1..1 : <<line>>[i] = line
      OBVIOUS
    <2> QED BY <1>4, <2>1 DEF HasWidths
  <1> QED BY <1>3, <1>5 DEF line, refs

(* ... and so have those that are shown of it. *)
LEMMA ShownHasWidths ==
    ASSUME NEW tc, HasWidths(tc.result)
    PROVE  HasWidths(ShownResult(tc))
  <1> DEFINE n == Len(tc.result)
             lines == [i \in DOMAIN tc.result |->
                         Item("line", i, tc.result[i].width, tc.result[i].shows)]
  <1>1. n \in Nat /\ DOMAIN tc.result = 1..n /\ \A i \in 1..n : tc.result[i].width \in Nat
    BY DEF HasWidths
  <1>2. lines = [i \in 1..n |-> Item("line", i, tc.result[i].width, tc.result[i].shows)]
    BY <1>1
  <1> HIDE DEF lines, n
  <1>3. HasWidths(lines)
    <2>1. Len(lines) = n /\ lines = [i \in 1..n |-> lines[i]]
      BY <1>1, <1>2
    <2>2. \A i \in 1..n : lines[i].width = tc.result[i].width
      BY <1>2 DEF Item
    <2> QED BY <1>1, <2>1, <2>2 DEF HasWidths
  <1>4. HasWidths(Cut(lines, MaxResult))
    BY <1>3, CutIs, ContextAssumption
  <1>5. ShownResult(tc) = IF tc.compressed \/ Width(lines) <= MaxResult THEN lines ELSE Cut(lines, MaxResult)
    BY DEF ShownResult, lines
  <1> QED BY <1>3, <1>4, <1>5

LEMMA ToolItemHasWidth ==
    ASSUME NEW calls, NEW i, HasWidths(calls[i].result)
    PROVE  ToolItem(calls, i).width \in Nat
  <1>1. Width(ShownResult(calls[i])) \in Nat
    BY ShownHasWidths, WidthIsNat
  <1>2. ToolItem(calls, i).width = 1 + Width(ShownResult(calls[i]))
    BY DEF ToolItem, Item
  <1> QED BY <1>1, <1>2

(* A single line shows what it shows. *)
LEMMA FlatteningOne ==
    ASSUME NEW q
    PROVE  FlattenSeq(<<q>>) = q
  <1> DEFINE s == <<q>>
             R(f) == f = [i \in 1..1 |-> IF i = 1 THEN s[i] ELSE f[i - 1] \o s[i]]
             f == CHOOSE g : R(g)
  <1>1. Len(s) = 1 /\ s[1] = q
    OBVIOUS
  <1>2. FlattenSeq(s) = f[1]
    BY <1>1 DEF FlattenSeq
  <1> HIDE DEF s
  <1>3. R([i \in 1..1 |-> s[1]])
    OBVIOUS
  <1>4. R(f)
    <2> HIDE DEF R
    <2> QED BY <1>3
  <1> HIDE DEF f
  <1>5. f[1] = s[1]
    BY <1>4
  <1> QED BY <1>1, <1>2, <1>5 DEF s

(* The references of a compressed call can be read in its item. *)
LEMMA CompressedShows ==
    ASSUME NEW calls, NEW i, NEW tc \in Call, calls[i] = compressToolCall(tc)
    PROVE  ToolItem(calls, i).shows = extractReferences(tc.result)
  <1> DEFINE refs == extractReferences(tc.result)
             line == [reference |-> FALSE, shows |-> refs, width |-> 1 + Len(refs)]
             c == calls[i]
             lines == [k \in DOMAIN c.result |-> Item("line", k, c.result[k].width, c.result[k].shows)]
  <1>1. c.compressed = TRUE /\ c.result = <<line>>
    BY CompressedIs
  <1> HIDE DEF refs
  <1>2. line.shows = refs
    OBVIOUS
  <1> HIDE DEF line, c
  <1>3. DOMAIN lines = 1..1 /\ lines[1].shows = refs
    BY <1>1, <1>2 DEF Item
  <1>4. ShownResult(c) = lines
    BY <1>1 DEF ShownResult
  <1> HIDE DEF lines
  <1>5. [j \in DOMAIN lines |-> lines[j].shows] = <<refs>>
    BY <1>3
  <1>6. ToolItem(calls, i).shows = FlattenSeq([j \in DOMAIN lines |-> lines[j].shows])
    BY <1>4 DEF ToolItem, Item, c
  <1> QED BY <1>5, <1>6, FlatteningOne DEF refs

(* The last calls are whole, those before them are compressed. *)
LEMMA CompressedCalls ==
    ASSUME NEW calls \in Seq(Call)
    PROVE  /\ Len(CompressToolResults(calls)) = Len(calls)
           /\ CompressToolResults(calls) = [i \in 1..Len(calls) |-> CompressToolResults(calls)[i]]
           /\ \A i \in 1..Len(calls) :
                /\ calls[i] \in Call
                /\ CompressToolResults(calls)[i] =
                     IF i <= Len(calls) - KeepRecentToolResults THEN compressToolCall(calls[i]) ELSE calls[i]
                /\ HasWidths(CompressToolResults(calls)[i].result)
  <1> DEFINE n == Len(calls)
             cs == CompressToolResults(calls)
  <1>1. n \in Nat /\ DOMAIN calls = 1..n /\ \A i \in 1..n : calls[i] \in Call
    BY LenProperties
  <1>2. cs = [i \in 1..n |-> IF i <= n - KeepRecentToolResults THEN compressToolCall(calls[i]) ELSE calls[i]]
    BY <1>1 DEF CompressToolResults
  <1> HIDE DEF cs, n
  <1>3. Len(cs) = n /\ cs = [i \in 1..n |-> cs[i]]
    BY <1>1, <1>2
  <1>4. \A i \in 1..n : cs[i] = IF i <= n - KeepRecentToolResults THEN compressToolCall(calls[i]) ELSE calls[i]
    BY <1>2
  <1>5. \A i \in 1..n : HasWidths(cs[i].result)
    <2> SUFFICES ASSUME NEW i \in 1..n
                 PROVE  HasWidths(cs[i].result)
      OBVIOUS
    <2>1. HasWidths(compressToolCall(calls[i]).result)
      BY <1>1, CompressedIs
    <2>2. HasWidths(calls[i].result)
      BY <1>1, ResultHasWidths DEF Call
    <2> QED BY <1>4, <2>1, <2>2
  <1> QED BY <1>1, <1>3, <1>4, <1>5 DEF n, cs

-----------------------------------------------------------------------------
(* The text of a task.                                                     *)

\* Calls in which every result has a width.
AreCalls(calls) ==
    /\ Len(calls) \in Nat /\ calls = [i \in 1..Len(calls) |-> calls[i]]
    /\ \A i \in 1..Len(calls) : HasWidths(calls[i].result)

\* The last decisions and errors of t can be found in s.
HasNewest(s, t) == \A kind \in {"decision", "error"} : ShowsLast(s, kind, t[kind])

(* The head of a text has a width. *)
LEMMA HeadHasWidths == HasWidths(TaskHead)
  <1> DEFINE head == Item("task", 0, 1, <<>>)
  <1>1. TaskHead = <<head>> /\ head.width \in Nat
    BY DEF TaskHead, Item
  <1> HIDE DEF head
  <1>2. HasWidths(<<head>>)
    <2>1. Len(<<head>>) = 1 /\ <<head>> = [i \in 1..1 |-> <<head>>[i]] /\ \A i \in 1..1 : <<head>>[i] = head
      OBVIOUS
    <2> QED BY <1>1, <2>1 DEF HasWidths
  <1> QED BY <1>1, <1>2

(* The last of a list are listed. *)
LEMMA RecentAreListed ==
    ASSUME NEW of, NEW n \in Nat, NEW width \in Nat
    PROVE  /\ HasWidths(Listed(of, Recent(n, Shown), width))
           /\ ShowsLast(Listed(of, Recent(n, Shown), width), of, n)
  <1> DEFINE m == IF n > Shown THEN n - Shown + 1 ELSE 1
             s == Listed(of, Recent(n, Shown), width)
  <1>1. Shown \in Nat \ {0}
    BY ContextAssumption
  <1>2. m \in Nat /\ m <= n + 1
    BY <1>1
  <1>3. Recent(n, Shown) = m..n
    BY DEF Recent
  <1>4. \A k \in 1..n : k > n - Shown => k \in m..n
    BY <1>1
  <1> HIDE DEF m
  <1>5. /\ HasWidths(s)
        /\ \A k \in m..n : \E item \in Range(s) : item.of = of /\ item.number = k
    <2>1. s = Listed(of, m..n, width)
      BY <1>3
    <2> HIDE DEF s
    <2>2. HasWidths(Listed(of, m..n, width))
      BY <1>2, ListedIs
    <2>3. ASSUME NEW k \in m..n
          PROVE  \E item \in Range(Listed(of, m..n, width)) : item.of = of /\ item.number = k
      BY <1>2, <2>3, ListedIs
    <2> QED BY <2>1, <2>2, <2>3
  <1> HIDE DEF s
  <1>6. ShowsLast(s, of, n)
    BY <1>4, <1>5 DEF ShowsLast
  <1> QED BY <1>5, <1>6 DEF s

(* So are all of them. *)
LEMMA AllAreListed ==
    ASSUME NEW of, NEW n \in Nat, NEW width \in Nat
    PROVE  /\ HasWidths(Listed(of, 1..n, width))
           /\ ShowsLast(Listed(of, 1..n, width), of, n)
  <1> DEFINE s == Listed(of, 1..n, width)
  <1>1. 1 \in Nat /\ 1 <= n + 1
    OBVIOUS
  <1>2. /\ HasWidths(s)
        /\ \A k \in 1..n : \E item \in Range(s) : item.of = of /\ item.number = k
    <2>1. s = Listed(of, 1..n, width)
      OBVIOUS
    <2> HIDE DEF s
    <2>2. HasWidths(Listed(of, 1..n, width))
      BY <1>1, ListedIs
    <2>3. ASSUME NEW k \in 1..n
          PROVE  \E item \in Range(Listed(of, 1..n, width)) : item.of = of /\ item.number = k
      BY <1>1, <2>3, ListedIs
    <2> QED BY <2>1, <2>2, <2>3
  <1> HIDE DEF s
  <1>3. ShowsLast(s, of, n)
    BY <1>2 DEF ShowsLast
  <1> QED BY <1>2, <1>3 DEF s

(* A text that is joined from others shows what they show. *)
LEMMA ShownAmongOthers ==
    ASSUME NEW s, NEW whole, Range(s) \subseteq Range(whole), NEW kind, NEW n, ShowsLast(s, kind, n)
    PROVE  ShowsLast(whole, kind, n)
  BY DEF ShowsLast

(* The text shows the last decisions and errors, and every call. *)
LEMMA TaskContextIs ==
    ASSUME NEW t \in [Kinds -> Nat], NEW calls, AreCalls(calls)
    PROVE  /\ HasWidths(buildTaskContext(t, calls))
           /\ exists => /\ HasNewest(buildTaskContext(t, calls), t)
                        /\ \A i \in 1..Len(calls) :
                             ToolItem(calls, i) \in Range(buildTaskContext(t, calls))
  <1> DEFINE a == TaskHead
             b == Listed("decision", Recent(t["decision"], Shown), 1)
             c == Listed("error", Recent(t["error"], Shown), 1)
             d == [i \in DOMAIN calls |-> ToolItem(calls, i)]
             whole == buildTaskContext(t, calls)
  <1>1. t["decision"] \in Nat /\ t["error"] \in Nat
    BY DEF Kinds
  <1>2. HasWidths(a)
    BY HeadHasWidths
  <1>3. /\ HasWidths(b) /\ HasWidths(c)
        /\ ShowsLast(b, "decision", t["decision"])
        /\ ShowsLast(c, "error", t["error"])
    BY <1>1, RecentAreListed
  <1>4. /\ HasWidths(d)
        /\ \A i \in 1..Len(calls) : ToolItem(calls, i) \in Range(d)
    <2> DEFINE n == Len(calls)
    <2>1. n \in Nat /\ DOMAIN calls = 1..n
      BY DEF AreCalls
    <2>2. d = [i \in 1..n |-> ToolItem(calls, i)]
      BY <2>1
    <2>3. \A i \in 1..n : ToolItem(calls, i).width \in Nat
      BY ToolItemHasWidth DEF AreCalls
    <2> HIDE DEF d, n
    <2>4. DOMAIN d = 1..n /\ Len(d) = n /\ d = [i \in 1..n |-> d[i]] /\ \A i \in 1..n : d[i] = ToolItem(calls, i)
      BY <2>1, <2>2
    <2>5. HasWidths(d)
      BY <2>1, <2>3, <2>4 DEF HasWidths
    <2>6. \A i \in 1..n : ToolItem(calls, i) \in Range(d)
      BY <2>4 DEF Range
    <2> QED BY <2>5, <2>6 DEF n
  <1>5. exists => whole = a \o b \o c \o d
    BY DEF buildTaskContext
  <1>6. ~ exists => whole = <<>>
    BY DEF buildTaskContext
  <1> HIDE DEF a, b, c, d, whole
  <1>7. HasWidths(a \o b) /\ Range(a \o b) = Range(a) \cup Range(b)
    BY <1>2, <1>3, JoinedWidths
  <1>8. HasWidths(a \o b \o c) /\ Range(a \o b \o c) = Range(a \o b) \cup Range(c)
    BY <1>3, <1>7, JoinedWidths
  <1>9. HasWidths(a \o b \o c \o d) /\ Range(a \o b \o c \o d) = Range(a \o b \o c) \cup Range(d)
    BY <1>4, <1>8, JoinedWidths
  <1>10. exists => Range(whole) = Range(a) \cup Range(b) \cup Range(c) \cup Range(d)
    BY <1>5, <1>7, <1>8, <1>9, Zenon
  <1>11. HasWidths(whole)
    BY <1>5, <1>6, <1>9, WidthOfNothing, Zenon
  <1>12. exists => HasNewest(whole, t)
    BY <1>3, <1>10, ShownAmongOthers DEF HasNewest
  <1>13. exists => \A i \in 1..Len(calls) : ToolItem(calls, i) \in Range(whole)
    BY <1>4, <1>10, Zenon
  <1> QED BY <1>11, <1>12, <1>13 DEF whole

(* The content that is summarised shows the last decisions and errors. *)
LEMMA ContentIs ==
    ASSUME NEW t \in [Kinds -> Nat]
    PROVE  HasWidths(buildContextContent(t)) /\ HasNewest(buildContextContent(t), t)
  <1> DEFINE a == TaskHead
             b == Listed("decision", 1..t["decision"], 4)
             c == Listed("error", 1..t["error"], 3)
             d == Listed("finding", 1..t["finding"], 2)
             whole == buildContextContent(t)
  <1>1. t["decision"] \in Nat /\ t["error"] \in Nat /\ t["finding"] \in Nat
    BY DEF Kinds
  <1>2. HasWidths(a)
    BY HeadHasWidths
  <1>3. /\ HasWidths(b) /\ HasWidths(c) /\ HasWidths(d)
        /\ ShowsLast(b, "decision", t["decision"])
        /\ ShowsLast(c, "error", t["error"])
    <2>1. /\ HasWidths(b)
          /\ ShowsLast(b, "decision", t["decision"])
      BY <1>1, AllAreListed
    <2>2. /\ HasWidths(c)
          /\ ShowsLast(c, "error", t["error"])
      BY <1>1, AllAreListed
    <2>3. HasWidths(d)
      BY <1>1, AllAreListed
    <2> HIDE DEF b, c, d
    <2> QED BY <2>1, <2>2, <2>3
  <1>4. whole = a \o b \o c \o d
    BY DEF buildContextContent
  <1> HIDE DEF a, b, c, d, whole
  <1>5. HasWidths(a \o b) /\ Range(a \o b) = Range(a) \cup Range(b)
    BY <1>2, <1>3, JoinedWidths
  <1>6. HasWidths(a \o b \o c) /\ Range(a \o b \o c) = Range(a \o b) \cup Range(c)
    BY <1>3, <1>5, JoinedWidths
  <1>7. HasWidths(a \o b \o c \o d) /\ Range(a \o b \o c \o d) = Range(a \o b \o c) \cup Range(d)
    BY <1>3, <1>6, JoinedWidths
  <1>8. Range(whole) = Range(a) \cup Range(b) \cup Range(c) \cup Range(d)
    BY <1>4, <1>5, <1>6, <1>7, Zenon
  <1>9. HasNewest(whole, t)
    BY <1>3, <1>8, ShownAmongOthers DEF HasNewest
  <1> QED BY <1>4, <1>7, <1>9 DEF whole

-----------------------------------------------------------------------------
(* The invariant of the service.                                           *)

ContextTypes ==
    /\ exists \in BOOLEAN
    /\ task \in [Kinds -> Nat]
    /\ toolCalls \in Seq(Call)
    /\ request = [at |-> request.at, calls |-> request.calls, text |-> request.text, by |-> request.by,
                  references |-> request.references, known |-> request.known]
    /\ request.known \in [Kinds -> Nat]

\* A text is ready, or on its way to the model.
Ready == request.at \in {"extract", "answered"}

\* What was known when the client asked is still known.
KnownStays == \A kind \in Kinds : request.known[kind] <= task[kind]

\* The request is about the calls the client has.
CallsAreThose == request.at # "idle" => request.calls = CompressToolResults(toolCalls)

TextFits ==
    /\ HasWidths(request.text)
    /\ Ready /\ request.by # "model" =>
         \/ Width(request.text) <= SummarizeThreshold
         \/ Width(request.text) <= SummaryMaxTokens + 1

NewestAre ==
    exists /\ ((Ready /\ request.by \in {"task", "content"}) \/ request.at = "model") =>
        \A kind \in {"decision", "error"} :
            \E newest \in request.known[kind]..task[kind] :
                ShowsLast(request.text, kind, newest)

CallsAreShown ==
    exists /\ Ready /\ request.by = "task" =>
        \A i \in 1..Len(toolCalls) : ToolItem(request.calls, i) \in Range(request.text)

ReferencesAreThose ==
    request.at = "answered" =>
        \E t \in [Kinds -> Nat] : request.references = extractAllReferences(t, request.calls)

ContextInv ==
    /\ ContextTypes
    /\ KnownStays
    /\ CallsAreThose
    /\ TextFits
    /\ NewestAre
    /\ CallsAreShown
    /\ ReferencesAreThose

\* What the lemmas below say of the request after a step.
Becomes(at, calls, items, by, references, known) ==
    request' = [at |-> at, calls |-> calls, text |-> items, by |-> by,
                references |-> references, known |-> known]

(* The invariant holds at first ... *)
LEMMA ContextStarts == Init => ContextInv
  <1> SUFFICES ASSUME Init
               PROVE  ContextInv
    OBVIOUS
  <1>1. /\ request.at = "idle" /\ request.text = <<>>
        /\ request.known = [k \in Kinds |-> 0] /\ task = [k \in Kinds |-> 0]
    BY DEF Init, Idle
  <1>2. ContextTypes
    BY DEF Init, Idle, ContextTypes
  <1>3. KnownStays
    BY <1>1 DEF KnownStays
  <1>4. TextFits
    BY <1>1, WidthOfNothing DEF TextFits, Ready
  <1> QED BY <1>1, <1>2, <1>3, <1>4
       DEF ContextInv, CallsAreThose, NewestAre, CallsAreShown, ReferencesAreThose, Ready

(* The last of what is known now are shown as they stand since the client asked. *)
LEMMA NewestIsKnown ==
    ASSUME ContextTypes, KnownStays, NEW s, HasNewest(s, task)
    PROVE  \A kind \in {"decision", "error"} :
             \E newest \in request.known[kind]..task[kind] : ShowsLast(s, kind, newest)
  <1> SUFFICES ASSUME NEW kind \in {"decision", "error"}
               PROVE  \E newest \in request.known[kind]..task[kind] : ShowsLast(s, kind, newest)
    OBVIOUS
  <1>1. /\ kind \in Kinds /\ request.known[kind] \in Nat /\ task[kind] \in Nat
        /\ request.known[kind] <= task[kind]
    BY DEF ContextTypes, KnownStays, Kinds
  <1>2. task[kind] \in request.known[kind]..task[kind]
    BY <1>1
  <1> QED BY <1>2 DEF HasNewest

(* The calls of a request have results with widths. *)
LEMMA RequestCalls ==
    ASSUME ContextTypes, CallsAreThose, request.at # "idle"
    PROVE  AreCalls(request.calls) /\ Len(request.calls) = Len(toolCalls)
  <1>1. toolCalls \in Seq(Call) /\ request.calls = CompressToolResults(toolCalls)
    BY DEF ContextTypes, CallsAreThose
  <1>2. Len(toolCalls) \in Nat
    BY <1>1
  <1> QED BY <1>1, <1>2, CompressedCalls DEF AreCalls

(* ... and every action keeps it: others record something, *)
LEMMA RecordKeeps ==
    ASSUME ContextInv, NEW kind \in Kinds, Record(kind)
    PROVE  ContextInv'
  <1>1. exists' = exists /\ toolCalls' = toolCalls /\ request' = request
        /\ task' = [task EXCEPT ![kind] = @ + 1]
    BY DEF Record
  <1>2. task \in [Kinds -> Nat] /\ request.known \in [Kinds -> Nat]
    BY DEF ContextInv, ContextTypes
  <1>3. task' \in [Kinds -> Nat] /\ \A k \in Kinds : task[k] <= task'[k]
    BY <1>1, <1>2
  <1>4. ContextTypes'
    BY <1>1, <1>3 DEF ContextInv, ContextTypes
  <1>5. KnownStays'
    <2> SUFFICES ASSUME NEW k \in Kinds
                 PROVE  request.known[k] <= task'[k]
      BY <1>1 DEF KnownStays
    <2>1. request.known[k] <= task[k]
      BY DEF ContextInv, KnownStays
    <2> QED BY <1>2, <1>3, <2>1
  <1>6. CallsAreThose' /\ TextFits' /\ CallsAreShown' /\ ReferencesAreThose'
    BY <1>1 DEF ContextInv, CallsAreThose, TextFits, CallsAreShown, ReferencesAreThose, Ready
  <1>7. NewestAre'
    <2>1. \A k \in {"decision", "error"} :
             request.known[k]..task[k] \subseteq request.known[k]..task'[k]
      BY <1>2, <1>3 DEF Kinds
    <2> QED BY <1>1, <2>1 DEF ContextInv, NewestAre, Ready, ShowsLast
  <1> QED BY <1>4, <1>5, <1>6, <1>7 DEF ContextInv

(* the client calls a tool, *)
LEMMA CallToolKeeps ==
    ASSUME ContextInv, NEW name \in Names, NEW result \in Results, NEW c \in BOOLEAN,
           CallTool(name, result, c)
    PROVE  ContextInv'
  <1> DEFINE tc == [name |-> name, result |-> result, compressed |-> c]
  <1>1. exists' = exists /\ task' = task /\ request' = request /\ request.at = "idle"
        /\ toolCalls' = Append(toolCalls, tc)
    BY DEF CallTool
  <1>2. toolCalls' \in Seq(Call)
    <2>1. toolCalls \in Seq(Call) /\ tc \in Call
      BY DEF ContextInv, ContextTypes, Call
    <2> HIDE DEF tc
    <2> QED BY <1>1, <2>1, AppendProperties
  <1>3. ContextTypes'
    BY <1>1, <1>2 DEF ContextInv, ContextTypes
  <1>4. KnownStays' /\ CallsAreThose' /\ TextFits' /\ NewestAre' /\ CallsAreShown' /\ ReferencesAreThose'
    BY <1>1 DEF ContextInv, KnownStays, CallsAreThose, TextFits, NewestAre, CallsAreShown, ReferencesAreThose, Ready
  <1> QED BY <1>3, <1>4 DEF ContextInv

(* it asks for the context, *)
LEMMA AskKeeps ==
    ASSUME ContextInv, GetOptimizedContext
    PROVE  ContextInv'
  <1>1. exists' = exists /\ task' = task /\ toolCalls' = toolCalls
    BY DEF GetOptimizedContext
  <1>2. request' = [Idle EXCEPT !.at = "build", !.known = task, !.calls = CompressToolResults(toolCalls)]
    BY DEF GetOptimizedContext
  <1>3. Becomes("build", CompressToolResults(toolCalls), <<>>, "nobody", <<>>, task)
    BY <1>2 DEF Becomes, Idle
  <1>4. /\ request'.at = "build" /\ request'.calls = CompressToolResults(toolCalls)
        /\ request'.text = <<>> /\ request'.known = task
    BY <1>3 DEF Becomes
  <1>5. ContextTypes'
    BY <1>1, <1>3, <1>4 DEF ContextInv, ContextTypes, Becomes
  <1>6. KnownStays'
    BY <1>1, <1>4 DEF ContextInv, ContextTypes, KnownStays
  <1>7. TextFits'
    BY <1>4, WidthOfNothing DEF TextFits, Ready
  <1> QED BY <1>1, <1>4, <1>5, <1>6, <1>7
       DEF ContextInv, CallsAreThose, NewestAre, CallsAreShown, ReferencesAreThose, Ready

(* the text is built, *)
LEMMA BuildKeeps ==
    ASSUME ContextInv, BuildTaskContext
    PROVE  ContextInv'
  <1> DEFINE s == buildTaskContext(task, request.calls)
             Same(at, items, by) == Becomes(at, request.calls, items, by, request.references, request.known)
  <1>1. exists' = exists /\ task' = task /\ toolCalls' = toolCalls /\ request.at = "build"
    BY DEF BuildTaskContext
  <1>2. /\ ContextTypes /\ KnownStays /\ CallsAreThose /\ TextFits
        /\ task \in [Kinds -> Nat] /\ request.known \in [Kinds -> Nat]
        /\ request = [at |-> request.at, calls |-> request.calls, text |-> request.text, by |-> request.by,
                      references |-> request.references, known |-> request.known]
    BY DEF ContextInv, ContextTypes
  <1>3. AreCalls(request.calls) /\ Len(request.calls) = Len(toolCalls)
    BY <1>1, <1>2, RequestCalls
  <1>4. /\ HasWidths(s)
        /\ exists => HasNewest(s, task) /\ \A i \in 1..Len(toolCalls) : ToolItem(request.calls, i) \in Range(s)
    BY <1>2, <1>3, TaskContextIs
  <1>5. exists => \A kind \in {"decision", "error"} :
             \E newest \in request.known[kind]..task[kind] : ShowsLast(s, kind, newest)
    BY <1>2, <1>4, NewestIsKnown
  <1>6. Width(s) \in Nat /\ SummarizeThreshold \in Nat
    BY <1>4, WidthIsNat, ContextAssumption
  <1>7. \/ Width(s) > SummarizeThreshold /\ request' = [request EXCEPT !.at = "summarize"]
        \/ /\ ~ (Width(s) > SummarizeThreshold)
           /\ request' = [request EXCEPT !.at = "extract", !.text = s, !.by = "task"]
    BY DEF BuildTaskContext
  <1> HIDE DEF s
  <1>8. CASE request' = [request EXCEPT !.at = "summarize"]
    <2>1. Same("summarize", request.text, request.by)
      BY <1>2, <1>8 DEF Becomes
    <2>2. /\ request'.at = "summarize" /\ request'.calls = request.calls
          /\ request'.text = request.text /\ request'.known = request.known
      BY <2>1 DEF Becomes
    <2>3. ContextTypes'
      BY <1>1, <1>2, <2>1, <2>2 DEF ContextTypes, Becomes
    <2>4. KnownStays' /\ CallsAreThose' /\ TextFits'
      BY <1>1, <1>2, <2>2 DEF KnownStays, CallsAreThose, TextFits, Ready
    <2> QED BY <2>2, <2>3, <2>4
         DEF ContextInv, NewestAre, CallsAreShown, ReferencesAreThose, Ready
  <1>9. CASE /\ ~ (Width(s) > SummarizeThreshold)
             /\ request' = [request EXCEPT !.at = "extract", !.text = s, !.by = "task"]
    <2>1. Same("extract", s, "task")
      BY <1>2, <1>9 DEF Becomes
    <2>2. /\ request'.at = "extract" /\ request'.calls = request.calls /\ request'.by = "task"
          /\ request'.text = s /\ request'.known = request.known
      BY <2>1 DEF Becomes
    <2>3. ContextTypes'
      BY <1>1, <1>2, <2>1, <2>2 DEF ContextTypes, Becomes
    <2>4. KnownStays' /\ CallsAreThose'
      BY <1>1, <1>2, <2>2 DEF KnownStays, CallsAreThose
    <2>5. TextFits'
      <3>1. Width(s) <= SummarizeThreshold
        BY <1>6, <1>9
      <3> QED BY <1>4, <2>2, <3>1 DEF TextFits
    <2>6. NewestAre' /\ CallsAreShown' /\ ReferencesAreThose'
      BY <1>1, <1>4, <1>5, <2>2 DEF NewestAre, CallsAreShown, ReferencesAreThose
    <2> QED BY <2>3, <2>4, <2>5, <2>6 DEF ContextInv
  <1> QED BY <1>7, <1>8, <1>9

(* or is read again to be summarised, *)
LEMMA SummarizeKeeps ==
    ASSUME ContextInv, SummarizeContext
    PROVE  ContextInv'
  <1> DEFINE s == buildContextContent(task)
             Same(at, items, by) == Becomes(at, request.calls, items, by, request.references, request.known)
  <1>1. exists' = exists /\ task' = task /\ toolCalls' = toolCalls /\ request.at = "summarize"
    BY DEF SummarizeContext
  <1>2. /\ ContextTypes /\ KnownStays /\ CallsAreThose
        /\ task \in [Kinds -> Nat] /\ request.known \in [Kinds -> Nat]
        /\ request = [at |-> request.at, calls |-> request.calls, text |-> request.text, by |-> request.by,
                      references |-> request.references, known |-> request.known]
    BY DEF ContextInv, ContextTypes
  <1>3. HasWidths(s) /\ HasNewest(s, task)
    BY <1>2, ContentIs
  <1>4. \A kind \in {"decision", "error"} :
             \E newest \in request.known[kind]..task[kind] : ShowsLast(s, kind, newest)
    BY <1>2, <1>3, NewestIsKnown
  <1>5. Width(s) \in Nat /\ SummarizeThreshold \in Nat
    BY <1>3, WidthIsNat, ContextAssumption
  <1>6. \/ /\ Width(s) < SummarizeThreshold
           /\ request' = [request EXCEPT !.at = "extract", !.text = s, !.by = "content"]
        \/ request' = [request EXCEPT !.at = "model", !.text = s]
    BY DEF SummarizeContext
  <1> HIDE DEF s
  <1>7. CASE /\ Width(s) < SummarizeThreshold
             /\ request' = [request EXCEPT !.at = "extract", !.text = s, !.by = "content"]
    <2>1. Same("extract", s, "content")
      BY <1>2, <1>7 DEF Becomes
    <2>2. /\ request'.at = "extract" /\ request'.calls = request.calls /\ request'.by = "content"
          /\ request'.text = s /\ request'.known = request.known
      BY <2>1 DEF Becomes
    <2>3. ContextTypes'
      BY <1>1, <1>2, <2>1, <2>2 DEF ContextTypes, Becomes
    <2>4. KnownStays' /\ CallsAreThose'
      BY <1>1, <1>2, <2>2 DEF KnownStays, CallsAreThose
    <2>5. TextFits'
      <3>1. Width(s) <= SummarizeThreshold
        BY <1>5, <1>7
      <3> QED BY <1>3, <2>2, <3>1 DEF TextFits
    <2>6. NewestAre' /\ CallsAreShown' /\ ReferencesAreThose'
      BY <1>1, <1>4, <2>2 DEF NewestAre, CallsAreShown, ReferencesAreThose
    <2> QED BY <2>3, <2>4, <2>5, <2>6 DEF ContextInv
  <1>8. CASE request' = [request EXCEPT !.at = "model", !.text = s]
    <2>1. Same("model", s, request.by)
      BY <1>2, <1>8 DEF Becomes
    <2>2. /\ request'.at = "model" /\ request'.calls = request.calls
          /\ request'.text = s /\ request'.known = request.known
      BY <2>1 DEF Becomes
    <2>3. ContextTypes'
      BY <1>1, <1>2, <2>1, <2>2 DEF ContextTypes, Becomes
    <2>4. KnownStays' /\ CallsAreThose'
      BY <1>1, <1>2, <2>2 DEF KnownStays, CallsAreThose
    <2>5. TextFits'
      BY <1>3, <2>2 DEF TextFits, Ready
    <2>6. NewestAre' /\ CallsAreShown' /\ ReferencesAreThose'
      BY <1>1, <1>4, <2>2 DEF NewestAre, CallsAreShown, ReferencesAreThose, Ready
    <2> QED BY <2>3, <2>4, <2>5, <2>6 DEF ContextInv
  <1> QED BY <1>6, <1>7, <1>8

(* the model summarises it, *)
LEMMA ModelAnswersKeeps ==
    ASSUME ContextInv, ModelAnswers
    PROVE  ContextInv'
  <1> DEFINE s == <<Item("summary", 0, 1, <<>>)>>
  <1>1. /\ exists' = exists /\ task' = task /\ toolCalls' = toolCalls /\ request.at = "model"
        /\ request' = [request EXCEPT !.at = "extract", !.by = "model", !.text = s]
    BY DEF ModelAnswers
  <1>2. /\ ContextTypes /\ KnownStays /\ CallsAreThose
        /\ request.known \in [Kinds -> Nat]
        /\ request = [at |-> request.at, calls |-> request.calls, text |-> request.text, by |-> request.by,
                      references |-> request.references, known |-> request.known]
    BY DEF ContextInv, ContextTypes
  <1>3. HasWidths(s)
    <2>1. s = Append(<<>>, Item("summary", 0, 1, <<>>)) /\ Item("summary", 0, 1, <<>>).width \in Nat
      BY DEF Item
    <2> QED BY <2>1, WidthOfNothing, WidthOfAppend
  <1> HIDE DEF s
  <1>4. Becomes("extract", request.calls, s, "model", request.references, request.known)
    BY <1>1, <1>2 DEF Becomes
  <1>5. /\ request'.at = "extract" /\ request'.calls = request.calls /\ request'.by = "model"
        /\ request'.text = s /\ request'.known = request.known
    BY <1>4 DEF Becomes
  <1>6. ContextTypes'
    BY <1>1, <1>2, <1>4, <1>5 DEF ContextTypes, Becomes
  <1>7. KnownStays' /\ CallsAreThose'
    BY <1>1, <1>2, <1>5 DEF KnownStays, CallsAreThose
  <1>8. TextFits' /\ NewestAre' /\ CallsAreShown' /\ ReferencesAreThose'
    BY <1>3, <1>5 DEF TextFits, NewestAre, CallsAreShown, ReferencesAreThose
  <1> QED BY <1>6, <1>7, <1>8 DEF ContextInv

(* or fails and the text is cut, *)
LEMMA ModelFailsKeeps ==
    ASSUME ContextInv, ModelFails
    PROVE  ContextInv'
  <1> DEFINE s == request.text
             cut == Cut(s, SummaryMaxTokens)
  <1>1. /\ exists' = exists /\ task' = task /\ toolCalls' = toolCalls /\ request.at = "model"
        /\ \/ request' = [request EXCEPT !.at = "extract", !.by = "cut", !.text = cut]
           \/ /\ ~ (Width(s) > SummaryMaxTokens)
              /\ request' = [request EXCEPT !.at = "extract", !.by = "content"]
    BY DEF ModelFails
  <1>2. /\ ContextTypes /\ KnownStays /\ CallsAreThose /\ NewestAre
        /\ request.known \in [Kinds -> Nat] /\ HasWidths(s)
        /\ request = [at |-> request.at, calls |-> request.calls, text |-> request.text, by |-> request.by,
                      references |-> request.references, known |-> request.known]
    BY DEF ContextInv, ContextTypes, TextFits
  <1>3. HasWidths(cut) /\ Width(cut) = SummaryMaxTokens + 1
    BY <1>2, CutIs, ContextAssumption
  <1>4. Width(s) \in Nat /\ SummaryMaxTokens \in Nat
    BY <1>2, WidthIsNat, ContextAssumption
  <1> HIDE DEF cut
  <1>5. CASE request' = [request EXCEPT !.at = "extract", !.by = "cut", !.text = cut]
    <2>1. Becomes("extract", request.calls, cut, "cut", request.references, request.known)
      BY <1>2, <1>5 DEF Becomes
    <2>2. /\ request'.at = "extract" /\ request'.calls = request.calls /\ request'.by = "cut"
          /\ request'.text = cut /\ request'.known = request.known
      BY <2>1 DEF Becomes
    <2>3. ContextTypes'
      BY <1>1, <1>2, <2>1, <2>2 DEF ContextTypes, Becomes
    <2>4. KnownStays' /\ CallsAreThose'
      BY <1>1, <1>2, <2>2 DEF KnownStays, CallsAreThose
    <2>5. TextFits'
      <3>1. Width(cut) <= SummaryMaxTokens + 1
        BY <1>3, <1>4
      <3> QED BY <1>3, <2>2, <3>1 DEF TextFits
    <2>6. NewestAre' /\ CallsAreShown' /\ ReferencesAreThose'
      BY <2>2 DEF NewestAre, CallsAreShown, ReferencesAreThose
    <2> QED BY <2>3, <2>4, <2>5, <2>6 DEF ContextInv
  <1>6. CASE /\ ~ (Width(s) > SummaryMaxTokens)
             /\ request' = [request EXCEPT !.at = "extract", !.by = "content"]
    <2>1. Becomes("extract", request.calls, s, "content", request.references, request.known)
      BY <1>2, <1>6 DEF Becomes
    <2>2. /\ request'.at = "extract" /\ request'.calls = request.calls /\ request'.by = "content"
          /\ request'.text = s /\ request'.known = request.known
      BY <2>1 DEF Becomes
    <2>3. ContextTypes'
      BY <1>1, <1>2, <2>1, <2>2 DEF ContextTypes, Becomes
    <2>4. KnownStays' /\ CallsAreThose'
      BY <1>1, <1>2, <2>2 DEF KnownStays, CallsAreThose
    <2>5. TextFits'
      <3>1. Width(s) <= SummaryMaxTokens + 1
        BY <1>4, <1>6
      <3> QED BY <1>2, <2>2, <3>1 DEF TextFits
    <2>6. NewestAre'
      BY <1>1, <1>2, <2>2 DEF NewestAre
    <2>7. CallsAreShown' /\ ReferencesAreThose'
      BY <2>2 DEF CallsAreShown, ReferencesAreThose
    <2> QED BY <2>3, <2>4, <2>5, <2>6, <2>7 DEF ContextInv
  <1> QED BY <1>1, <1>5, <1>6

(* the references are put together, *)
LEMMA ExtractKeeps ==
    ASSUME ContextInv, ExtractReferences
    PROVE  ContextInv'
  <1> DEFINE refs == extractAllReferences(task, request.calls)
  <1>1. /\ exists' = exists /\ task' = task /\ toolCalls' = toolCalls /\ request.at = "extract"
        /\ request' = [request EXCEPT !.at = "answered", !.references = refs]
    BY DEF ExtractReferences
  <1>2. /\ ContextTypes /\ KnownStays /\ CallsAreThose /\ TextFits /\ NewestAre /\ CallsAreShown
        /\ request.known \in [Kinds -> Nat] /\ task \in [Kinds -> Nat]
        /\ request = [at |-> request.at, calls |-> request.calls, text |-> request.text, by |-> request.by,
                      references |-> request.references, known |-> request.known]
    BY DEF ContextInv, ContextTypes
  <1>3. \E t \in [Kinds -> Nat] : refs = extractAllReferences(t, request.calls)
    BY <1>2
  <1> HIDE DEF refs
  <1>4. Becomes("answered", request.calls, request.text, request.by, refs, request.known)
    BY <1>1, <1>2 DEF Becomes
  <1>5. /\ request'.at = "answered" /\ request'.calls = request.calls /\ request'.by = request.by
        /\ request'.text = request.text /\ request'.known = request.known /\ request'.references = refs
    BY <1>4 DEF Becomes
  <1>6. ContextTypes'
    BY <1>1, <1>2, <1>4, <1>5 DEF ContextTypes, Becomes
  <1>7. KnownStays' /\ CallsAreThose'
    BY <1>1, <1>2, <1>5 DEF KnownStays, CallsAreThose
  <1>8. TextFits'
    BY <1>1, <1>2, <1>5 DEF TextFits, Ready
  <1>9. NewestAre' /\ CallsAreShown'
    BY <1>1, <1>2, <1>5 DEF NewestAre, CallsAreShown, Ready
  <1>10. ReferencesAreThose'
    BY <1>3, <1>5 DEF ReferencesAreThose
  <1> QED BY <1>6, <1>7, <1>8, <1>9, <1>10 DEF ContextInv

(* and the client goes on. *)
LEMMA AnsweredKeeps ==
    ASSUME ContextInv, Answered
    PROVE  ContextInv'
  <1>1. /\ exists' = exists /\ task' = task /\ toolCalls' = toolCalls /\ request' = Idle
    BY DEF Answered
  <1>2. Becomes("idle", <<>>, <<>>, "nobody", <<>>, [k \in Kinds |-> 0])
    BY <1>1 DEF Becomes, Idle
  <1>3. request'.at = "idle" /\ request'.text = <<>> /\ request'.known = [k \in Kinds |-> 0]
    BY <1>2 DEF Becomes
  <1>4. ContextTypes'
    BY <1>1, <1>2, <1>3 DEF ContextInv, ContextTypes, Becomes
  <1>5. KnownStays'
    BY <1>1, <1>3 DEF ContextInv, ContextTypes, KnownStays
  <1>6. TextFits'
    BY <1>3, WidthOfNothing DEF TextFits, Ready
  <1> QED BY <1>3, <1>4, <1>5, <1>6
       DEF ContextInv, CallsAreThose, NewestAre, CallsAreShown, ReferencesAreThose, Ready

(* The invariant of the service, which the theorems below start from. *)
LEMMA ContextInvariance == Spec => []ContextInv
  <1>1. ContextInv /\ [Next]_vars => ContextInv'
    <2> SUFFICES ASSUME ContextInv, [Next]_vars
                 PROVE  ContextInv'
      OBVIOUS
    <2>1. ASSUME NEW kind \in Kinds, Record(kind) PROVE ContextInv'
      BY <2>1, RecordKeeps
    <2>2. ASSUME NEW name \in Names, NEW result \in Results, NEW c \in BOOLEAN, CallTool(name, result, c)
          PROVE  ContextInv'
      BY <2>2, CallToolKeeps
    <2>3. CASE UNCHANGED vars
      BY <2>3 DEF vars, ContextInv, ContextTypes, KnownStays, CallsAreThose, TextFits, NewestAre,
                  CallsAreShown, ReferencesAreThose, Ready
    <2> QED BY <2>1, <2>2, <2>3, AskKeeps, BuildKeeps, SummarizeKeeps, ModelAnswersKeeps, ModelFailsKeeps,
               ExtractKeeps, AnsweredKeeps DEF Next
  <1> QED BY <1>1, ContextStarts, PTL DEF Spec

-----------------------------------------------------------------------------
(* What an answer holds.                                                   *)

\* A reference of a recent call is under its own key, unless a later call takes it.
LEMMA RecentReference ==
    ASSUME ContextInv, request.at = "answered",
           NEW i \in 1..Len(toolCalls), i > Len(toolCalls) - KeepRecentToolResults,
           ~ toolCalls[i].compressed,
           NEW k \in DOMAIN extractReferences(toolCalls[i].result),
           \A j \in 1..Len(toolCalls) :
              ~ (/\ j > i /\ toolCalls[j].name = toolCalls[i].name
                 /\ ~ toolCalls[j].compressed
                 /\ k \in DOMAIN extractReferences(toolCalls[j].result))
    PROVE  extractReferences(toolCalls[i].result)[k] \in Range(request.references)
  <1> DEFINE calls == request.calls
             n == Len(toolCalls)
             whole == {j \in DOMAIN calls : ~ calls[j].compressed}
             taken(key) == {j \in whole : key \in Keys(calls, j)}
             key == [of |-> "call", name |-> toolCalls[i].name, at |-> k]
  <1>1. PICK t \in [Kinds -> Nat] : request.references = extractAllReferences(t, calls)
    BY DEF ContextInv, ReferencesAreThose
  <1>2. /\ Len(calls) = n /\ calls = [j \in 1..n |-> calls[j]]
        /\ \A j \in 1..n : j > n - KeepRecentToolResults => calls[j] = toolCalls[j]
    <2>1. toolCalls \in Seq(Call) /\ calls = CompressToolResults(toolCalls)
      BY DEF ContextInv, ContextTypes, CallsAreThose
    <2>2. KeepRecentToolResults \in Nat /\ n \in Nat
      BY <2>1, ContextAssumption
    <2>3. /\ Len(calls) = n /\ calls = [j \in 1..n |-> calls[j]]
          /\ \A j \in 1..n : calls[j] = IF j <= n - KeepRecentToolResults THEN compressToolCall(toolCalls[j])
                                        ELSE toolCalls[j]
      BY <2>1, CompressedCalls
    <2> HIDE DEF n, calls
    <2>4. \A j \in 1..n : j > n - KeepRecentToolResults => ~ (j <= n - KeepRecentToolResults)
      BY <2>2
    <2> QED BY <2>3, <2>4
  <1>3. n \in Nat /\ KeepRecentToolResults \in Nat
    BY SMTT(40), ContextAssumption DEF ContextInv, ContextTypes
  <1> DEFINE resources == {[of |-> "resource", name |-> "resource", at |-> r] : r \in 1..t["resource"]}
             keys == UNION {Keys(calls, j) : j \in whole} \cup resources
  <1>4. request.references =
          [x \in keys |-> IF x.of = "resource" THEN "resource"
                          ELSE extractReferences(calls[Max(taken(x))].result)[x.at]]
    BY <1>1 DEF extractAllReferences
  <1> HIDE DEF calls, n
  <1>5. DOMAIN calls = 1..n
    BY <1>2
  <1>6. i \in whole /\ calls[i] = toolCalls[i]
    BY <1>2, <1>5 DEF n
  <1>7. key \in Keys(calls, i)
    BY <1>6 DEF Keys
  <1>8. key \in keys
    BY <1>6, <1>7
  <1> DEFINE T == taken(key)
  <1>9. i \in T /\ T \in SUBSET Nat /\ \A x \in T : x <= n
    <2>1. i \in T
      BY <1>6, <1>7
    <2>2. T \subseteq 1..n
      BY <1>5
    <2> HIDE DEF T
    <2> QED BY <1>3, <2>1, <2>2
  <1> DEFINE m == Max(T)
  <1>10. m \in T /\ i <= m
    <2> HIDE DEF T
    <2> QED BY <1>3, <1>9, MaxIs
  <1>11. m = i
    <2> SUFFICES ASSUME m # i
                 PROVE  FALSE
      OBVIOUS
    <2>1. m \in 1..n /\ ~ calls[m].compressed /\ key \in Keys(calls, m)
      BY <1>5, <1>10
    <2> HIDE DEF m
    <2>2. m > i /\ m > n - KeepRecentToolResults
      BY <1>3, <1>10, <2>1 DEF n
    <2>3. calls[m] = toolCalls[m]
      BY <1>2, <2>1, <2>2
    <2>4. toolCalls[m].name = toolCalls[i].name /\ k \in DOMAIN extractReferences(toolCalls[m].result)
      BY <2>1, <2>3 DEF Keys
    <2> QED BY <2>1, <2>2, <2>3, <2>4 DEF n
  <1>12. request.references[key] = extractReferences(calls[m].result)[k]
    <2>1. key.of = "call" /\ key.at = k
      OBVIOUS
    <2> HIDE DEF key, keys, taken
    <2>2. request.references[key] =
            IF key.of = "resource" THEN "resource" ELSE extractReferences(calls[Max(taken(key))].result)[key.at]
      BY <1>4, <1>8
    <2> QED BY <2>1, <2>2
  <1>13. request.references[key] = extractReferences(toolCalls[i].result)[k]
    <2> HIDE DEF m
    <2> QED BY <1>6, <1>11, <1>12
  <1>14. key \in DOMAIN request.references
    <2> HIDE DEF key, keys
    <2> QED BY <1>4, <1>8
  <1> HIDE DEF key
  <1> QED BY <1>13, <1>14 DEF Range

(* A reference of an older call can be read in the line that stands for it. *)
LEMMA OldReference ==
    ASSUME ContextInv, request.at = "answered", request.by = "task", exists,
           NEW i \in 1..Len(toolCalls), i <= Len(toolCalls) - KeepRecentToolResults,
           NEW k \in DOMAIN extractReferences(toolCalls[i].result)
    PROVE  extractReferences(toolCalls[i].result)[k] \in Readable
  <1>1. toolCalls \in Seq(Call) /\ request.calls = CompressToolResults(toolCalls)
    BY DEF ContextInv, ContextTypes, CallsAreThose
  <1>2. toolCalls[i] \in Call /\ request.calls[i] = compressToolCall(toolCalls[i])
    BY <1>1, CompressedCalls
  <1>3. ToolItem(request.calls, i).shows = extractReferences(toolCalls[i].result)
    BY <1>2, CompressedShows
  <1>4. ToolItem(request.calls, i) \in Range(request.text)
    BY DEF ContextInv, CallsAreShown, Ready
  <1>5. extractReferences(toolCalls[i].result)[k] \in Range(ToolItem(request.calls, i).shows)
    BY <1>3 DEF Range
  <1> QED BY <1>4, <1>5 DEF Readable

(* The references of a tool's result can be found in the answer: those of  *)
(* a recent call in the map that extractAllReferences makes, those of an   *)
(* older one in the line that compressToolCall leaves for it.              *)
THEOREM ReferencesStay == Spec => []ReferencesAreKept
  <1>1. ContextInv => ReferencesAreKept
    <2> SUFFICES ASSUME ContextInv, request.at = "answered",
                        NEW i \in DOMAIN toolCalls, ~ toolCalls[i].compressed,
                        NEW k \in DOMAIN extractReferences(toolCalls[i].result)
                 PROVE  LET ref == extractReferences(toolCalls[i].result)[k]
                            later == {j \in DOMAIN toolCalls :
                                        /\ j > i /\ toolCalls[j].name = toolCalls[i].name
                                        /\ ~ toolCalls[j].compressed
                                        /\ k \in DOMAIN extractReferences(toolCalls[j].result)}
                        IN  IF i > Len(toolCalls) - KeepRecentToolResults
                            THEN later = {} => ref \in Range(request.references)
                            ELSE ~ IsSummarized /\ exists => ref \in Readable
      BY DEF ReferencesAreKept
    <2> DEFINE ref == extractReferences(toolCalls[i].result)[k]
               later == {j \in DOMAIN toolCalls :
                           /\ j > i /\ toolCalls[j].name = toolCalls[i].name
                           /\ ~ toolCalls[j].compressed
                           /\ k \in DOMAIN extractReferences(toolCalls[j].result)}
    <2>1. /\ DOMAIN toolCalls = 1..Len(toolCalls) /\ Len(toolCalls) \in Nat
          /\ KeepRecentToolResults \in Nat
      BY ContextAssumption DEF ContextInv, ContextTypes
    <2>2. i \in 1..Len(toolCalls)
      BY <2>1
    <2>3. ASSUME i > Len(toolCalls) - KeepRecentToolResults, later = {}
          PROVE  ref \in Range(request.references)
      <3>1. \A j \in 1..Len(toolCalls) :
              ~ (/\ j > i /\ toolCalls[j].name = toolCalls[i].name
                 /\ ~ toolCalls[j].compressed
                 /\ k \in DOMAIN extractReferences(toolCalls[j].result))
        BY <2>1, <2>3
      <3> QED BY <2>2, <2>3, <3>1, RecentReference
    <2>4. ASSUME ~ (i > Len(toolCalls) - KeepRecentToolResults), ~ IsSummarized, exists
          PROVE  ref \in Readable
      <3>1. i <= Len(toolCalls) - KeepRecentToolResults
        BY <2>1, <2>2, <2>4
      <3>2. request.by = "task"
        BY <2>4 DEF IsSummarized
      <3> QED BY <2>2, <2>4, <3>1, <3>2, OldReference
    <2> QED BY <2>3, <2>4
  <1> QED BY <1>1, ContextInvariance, PTL

(* An answer with records in it shows every one of the last Shown decisions *)
(* and errors, as their lists stood at a moment since the client asked,     *)
(* however they are cut by buildTaskContext and go on growing meanwhile.   *)
THEOREM NewestIsShown == Spec => []NewestRecordsAreShown
  <1>1. ContextInv => NewestRecordsAreShown
    BY DEF ContextInv, NewestAre, Ready, NewestRecordsAreShown
  <1> QED BY <1>1, ContextInvariance, PTL

(* An answer that the model has not written is no longer than the          *)
(* threshold, or than a summary when the model fails.                      *)
THEOREM AnswersAreShort == Spec => []AnswersAreBounded
  <1>1. ContextInv => AnswersAreBounded
    <2> SUFFICES ASSUME ContextInv, request.at = "answered", request.by # "model"
                 PROVE  Width(request.text) <= Max({SummarizeThreshold, SummaryMaxTokens + 1})
      BY DEF AnswersAreBounded
    <2> DEFINE a == SummarizeThreshold
               b == SummaryMaxTokens + 1
               w == Width(request.text)
               S == {a, b}
    <2>1. a \in Nat /\ b \in Nat
      BY ContextAssumption
    <2>2. w \in Nat /\ (w <= a \/ w <= b)
      BY WidthIsNat DEF ContextInv, TextFits, Ready
    <2> HIDE DEF a, b, w
    <2>3. S \in SUBSET Nat /\ S # {} /\ a + b \in Nat /\ \A x \in S : x <= a + b
      BY <2>1
    <2>4. a \in S /\ b \in S
      OBVIOUS
    <2> HIDE DEF S
    <2>5. Max(S) \in S /\ \A x \in S : x <= Max(S)
      BY <2>3, MaxIs
    <2>6. Max(S) \in Nat /\ a <= Max(S) /\ b <= Max(S)
      BY <2>3, <2>4, <2>5
    <2>7. w <= Max(S)
      <3> HIDE DEF w
      <3> QED BY <2>1, <2>2, <2>6
    <2> QED BY <2>7 DEF w, S, a, b
  <1> QED BY <1>1, ContextInvariance, PTL
=============================================================================
