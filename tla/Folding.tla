------------------------------ MODULE Folding ------------------------------
(***************************************************************************)
(* What FoldLeft of the community modules computes, for any operator: the  *)
(* fold of a sequence is the fold of the sequence without its last element,*)
(* followed by that element; and what holds at the start and is kept by    *)
(* each element holds of every sequence and its fold.                      *)
(*                                                                         *)
(* An operator is a parameter of this module, not of the lemmas: whoever   *)
(* needs them for an operator of a model takes an instance.                *)
(***************************************************************************)
EXTENDS SequencesExt, NaturalsInduction, WellFoundedInduction, TLAPS

CONSTANTS
  Op(_, _),   \* Op(v, e): what is folded
  Rel(_, _)   \* Rel(s, v): what is to be shown of a sequence and its fold

\* A set of naturals has a least element; the only form of induction used here.
LEMMA LeastOfNats ==
  ASSUME NEW S \in SUBSET Nat, S # {}
  PROVE  \E m \in S : \A n \in S : m <= n
  <1>1. PICK m \in S : \A n \in S : ~(<<n, m>> \in OpToRel(<, Nat))
    BY NatLessThanWellFounded, WFMin
  <1>2. \A n \in S : ~(n < m)
    BY <1>1 DEF OpToRel
  <1> QED
    BY <1>2

\* The last of the indices that are left to fold.
LEMMA MaxOfInterval ==
  ASSUME NEW m \in Nat, NEW s \in SUBSET (1 .. m + 1), m + 1 \in s
  PROVE  Max(s) = m + 1
  <1>1. \A x \in s : (\A y \in s : x >= y) <=> x = m + 1
    OBVIOUS
  <1> QED
    BY <1>1 DEF Max

\* The function that FoldLeft chooses: the fold over a set of indices of seq.
Equation(f, base, seq, n) ==
  f = [s \in SUBSET (1 .. n) |->
         IF s = {} THEN base ELSE Op(f[s \ {Max(s)}], seq[Max(s)])]

\* There is one.
LEMMA FoldExists ==
  ASSUME NEW base, NEW seq, NEW n \in Nat
  PROVE  \E f : Equation(f, base, seq, n)
  <1> DEFINE Bad == {m \in Nat : ~ \E f : Equation(f, base, seq, m)}
  <1> SUFFICES ASSUME Bad # {}
               PROVE  FALSE
    OBVIOUS
  <1>1. PICK m \in Bad : \A k \in Bad : m <= k
    BY LeastOfNats
  <1>2. CASE m = 0
    <2> DEFINE f == [s \in SUBSET (1 .. 0) |-> base]
    <2>1. 1 .. 0 = {}
      OBVIOUS
    <2>2. f = [s \in SUBSET (1 .. 0) |->
                IF s = {} THEN base ELSE Op(f[s \ {Max(s)}], seq[Max(s)])]
      BY <2>1
    <2> QED
      BY <1>2, <2>2 DEF Equation
  <1>3. CASE m # 0
    <2>1. m - 1 \in Nat /\ m - 1 \notin Bad
      BY <1>1, <1>3
    <2>2. PICK f : Equation(f, base, seq, m - 1)
      BY <2>1
    <2> DEFINE g == [s \in SUBSET (1 .. m) |->
                      IF m \in s THEN Op(f[s \ {m}], seq[m]) ELSE f[s]]
    <2>3. ASSUME NEW s \in SUBSET (1 .. m)
          PROVE  g[s] = IF s = {} THEN base ELSE Op(g[s \ {Max(s)}], seq[Max(s)])
      <3>1. CASE m \in s
        <4>1. Max(s) = m
          BY <2>1, <3>1, MaxOfInterval
        <4>2. s \ {m} \in SUBSET (1 .. m) /\ m \notin s \ {m}
          OBVIOUS
        <4> QED
          BY <3>1, <4>1, <4>2
      <3>2. CASE m \notin s
        <4>1. s \in SUBSET (1 .. m - 1)
          BY <2>1, <3>2
        <4>2. f[s] = IF s = {} THEN base ELSE Op(f[s \ {Max(s)}], seq[Max(s)])
          BY <2>2, <4>1 DEF Equation
        <4>3. s \ {Max(s)} \in SUBSET (1 .. m) /\ m \notin s \ {Max(s)}
          BY <3>2
        <4> QED
          BY <3>2, <4>2, <4>3
      <3> QED
        BY <3>1, <3>2
    <2>4. g = [s \in SUBSET (1 .. m) |->
                 IF s = {} THEN base ELSE Op(g[s \ {Max(s)}], seq[Max(s)])]
      BY <2>3
    <2> HIDE DEF g
    <2> QED
      BY <2>4 DEF Equation
  <1> QED
    BY <1>2, <1>3

\* So FoldLeft is its value for all indices.
LEMMA FoldIs ==
  ASSUME NEW S, NEW seq \in Seq(S), NEW base
  PROVE  \E f : /\ Equation(f, base, seq, Len(seq))
               /\ FoldLeft(Op, base, seq) = f[1 .. Len(seq)]
  <1>1. DOMAIN seq = 1 .. Len(seq) /\ Len(seq) \in Nat
    OBVIOUS
  <1>2. FoldLeft(Op, base, seq) = 
    (CHOOSE f : f = [s \in SUBSET DOMAIN seq |->
         IF s = {} THEN base ELSE Op(f[s \ {Max(s)}], seq[Max(s)])])[DOMAIN seq]
    BY DEF FoldLeft, MapThenFoldSet
  <1>3. FoldLeft(Op, base, seq) = (CHOOSE f : Equation(f, base, seq, Len(seq)))[1 .. Len(seq)]
    BY <1>2, <1>1 DEF Equation
  <1> QED
    BY <1>1, <1>3, FoldExists

\* Its values for the first k indices follow one another.
LEMMA FoldOfPrefix ==
  ASSUME NEW base, NEW f, NEW seq, NEW n \in Nat, Equation(f, base, seq, n),
         NEW k \in 0 .. n
  PROVE  /\ k = 0 => f[1 .. k] = base
         /\ k > 0 => f[1 .. k] = Op(f[1 .. k - 1], seq[k])
  <1>1. CASE k = 0
    <2>1. 1 .. k = {}
      BY <1>1
    <2>2. f[{}] = base
      BY DEF Equation
    <2> QED
      BY <1>1, <2>1, <2>2
  <1>2. CASE k > 0
    <2>1. 1 .. k \in SUBSET (1 .. n) /\ 1 .. k # {}
      <3>1. k \in 1 .. k /\ \A i \in 1 .. k : i \in 1 .. n
        BY <1>2
      <3> QED
        BY <3>1
    <2>2. Max(1 .. k) = k
      <3>1. k - 1 \in Nat /\ (k - 1) + 1 = k
        BY <1>2
      <3>2. 1 .. k \in SUBSET (1 .. k) /\ k \in 1 .. k
        BY <1>2
      <3> QED
        BY <3>1, <3>2, MaxOfInterval
    <2>3. (1 .. k) \ {k} = 1 .. k - 1
      BY <1>2
    <2> QED
      BY <1>2, <2>1, <2>2, <2>3 DEF Equation
  <1> QED
    BY <1>1, <1>2

\* Nothing is folded.
THEOREM FoldEmpty ==
  ASSUME NEW base
  PROVE  FoldLeft(Op, base, <<>>) = base
  <1> DEFINE none == <<>>
  <1>1. none \in Seq({}) /\ Len(none) = 0
    OBVIOUS
  <1> HIDE DEF none
  <1>2. PICK f : Equation(f, base, none, Len(none)) /\ FoldLeft(Op, base, none) = f[1 .. Len(none)]
    BY <1>1, FoldIs
  <1>3. f[1 .. 0] = base
    BY <1>1, <1>2, FoldOfPrefix
  <1>4. FoldLeft(Op, base, none) = base
    BY <1>1, <1>2, <1>3
  <1> QED
    BY <1>4 DEF none

\* One more element is folded.
THEOREM FoldAppend ==
  ASSUME NEW S, NEW seq \in Seq(S), NEW e \in S, NEW base
  PROVE  FoldLeft(Op, base, Append(seq, e)) = Op(FoldLeft(Op, base, seq), e)
  <1> DEFINE n == Len(seq)
             longer == Append(seq, e)
  <1>1. /\ longer \in Seq(S) /\ Len(longer) = n + 1 /\ n \in Nat
        /\ \A i \in 1 .. n : longer[i] = seq[i]
        /\ longer[n + 1] = e
    OBVIOUS
  <1>2. PICK f : Equation(f, base, seq, n) /\ FoldLeft(Op, base, seq) = f[1 .. n]
    BY FoldIs
  <1> HIDE DEF longer
  <1>3. PICK g : Equation(g, base, longer, n + 1)
                 /\ FoldLeft(Op, base, longer) = g[1 .. n + 1]
    BY <1>1, FoldIs
  <1> DEFINE Differ == {k \in 0 .. n : f[1 .. k] # g[1 .. k]}
  <1>4. Differ = {}
    <2> SUFFICES ASSUME Differ # {}
                 PROVE  FALSE
      OBVIOUS
    <2>1. PICK k \in Differ : \A j \in Differ : k <= j
      <3>1. Differ \in SUBSET Nat
        BY <1>1
      <3> QED
        BY <3>1, LeastOfNats
    <2>2. CASE k = 0
      BY <1>1, <1>2, <1>3, <2>1, <2>2, FoldOfPrefix
    <2>3. CASE k > 0
      <3>1. k \in 0 .. n /\ k \in 0 .. n + 1 /\ k - 1 \in 0 .. n /\ k - 1 \notin Differ
        BY <1>1, <2>1, <2>3
      <3>2. f[1 .. k] = Op(f[1 .. k - 1], seq[k])
        BY <1>1, <1>2, <2>3, <3>1, FoldOfPrefix
      <3>3. g[1 .. k] = Op(g[1 .. k - 1], longer[k])
        <4>1. n + 1 \in Nat
          BY <1>1
        <4> QED
          BY <1>3, <2>3, <3>1, <4>1, FoldOfPrefix
      <3>4. longer[k] = seq[k]
        BY <1>1, <2>3, <3>1
      <3>5. f[1 .. k - 1] = g[1 .. k - 1]
        BY <3>1
      <3> QED
        BY <2>1, <3>2, <3>3, <3>4, <3>5
    <2> QED
      BY <1>1, <2>1, <2>2, <2>3
  <1>5. g[1 .. n + 1] = Op(g[1 .. n], longer[n + 1])
    <2>1. n + 1 \in 0 .. n + 1 /\ n + 1 > 0 /\ n + 1 \in Nat /\ (n + 1) - 1 = n
      BY <1>1
    <2> QED
      BY <1>3, <2>1, FoldOfPrefix
  <1>6. f[1 .. n] = g[1 .. n]
    BY <1>1, <1>4
  <1> QED
    BY <1>1, <1>2, <1>3, <1>5, <1>6 DEF longer

\* A set has every sequence that has the empty one and with a sequence its
\* continuations.
THEOREM EverySequence ==
  ASSUME NEW S, NEW T, <<>> \in T,
         \A q \in Seq(S), e \in S : q \in T => Append(q, e) \in T
  PROVE  \A q \in Seq(S) : q \in T
  <1> DEFINE Bad == {n \in Nat : \E q \in Seq(S) : Len(q) = n /\ q \notin T}
  <1> SUFFICES ASSUME Bad # {}
               PROVE  FALSE
    <2>1. \A q \in Seq(S) : Len(q) \in Nat
      OBVIOUS
    <2> QED
      BY <2>1
  <1>1. PICK n \in Bad : \A k \in Bad : n <= k
    <2>1. Bad \in SUBSET Nat
      OBVIOUS
    <2> HIDE DEF Bad
    <2> QED
      BY <2>1, LeastOfNats
  <1>2. PICK q \in Seq(S) : Len(q) = n /\ q \notin T
    BY <1>1
  <1>3. CASE q = <<>>
    BY <1>2, <1>3
  <1>4. CASE q # <<>>
    <2> DEFINE t == SubSeq(q, 1, n - 1)
               e == q[n]
    <2>1. n \in Nat /\ n > 0 /\ e \in S
      BY <1>2, <1>4
    <2>2. t \in Seq(S) /\ Len(t) = n - 1
      BY <1>2, <2>1
    <2>3. q = Append(t, e)
      BY <1>2, <2>1
    <2> HIDE DEF t, e
    <2>4. n - 1 \in Nat /\ n - 1 \notin Bad
      BY <1>1, <2>1
    <2>5. t \in T
      BY <2>2, <2>4
    <2> QED
      BY <1>2, <2>1, <2>2, <2>3, <2>5
  <1> QED
    BY <1>3, <1>4

\* What each element keeps holds of the whole.
THEOREM FoldKeeps ==
  ASSUME NEW S, NEW base, Rel(<<>>, base),
         \A s \in Seq(S), e \in S :
           Rel(s, FoldLeft(Op, base, s))
             => Rel(Append(s, e), Op(FoldLeft(Op, base, s), e)),
         NEW seq \in Seq(S)
  PROVE  Rel(seq, FoldLeft(Op, base, seq))
  <1> DEFINE T == {s \in Seq(S) : Rel(s, FoldLeft(Op, base, s))}
  <1>1. <<>> \in T
    BY FoldEmpty
  <1>2. ASSUME NEW s \in Seq(S), NEW e \in S, s \in T
        PROVE  Append(s, e) \in T
    <2>1. Append(s, e) \in Seq(S)
      OBVIOUS
    <2>2. Rel(Append(s, e), Op(FoldLeft(Op, base, s), e))
      BY <1>2
    <2>3. FoldLeft(Op, base, Append(s, e)) = Op(FoldLeft(Op, base, s), e)
      BY FoldAppend
    <2> QED
      BY <2>1, <2>2, <2>3
  <1> HIDE DEF T
  <1>3. seq \in T
    BY <1>1, <1>2, EverySequence
  <1> QED
    BY <1>3 DEF T
=============================================================================
