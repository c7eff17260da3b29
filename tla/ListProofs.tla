----------------------------- MODULE ListProofs -----------------------------
(***************************************************************************)
(* Lemmas about folds over sequences, sums, and sequences that are         *)
(* filtered.                                                               *)
(*                                                                         *)
(* FoldLeft() is defined by a function on the sets of positions.  That the *)
(* function exists is shown once, for a step that is itself a function; a  *)
(* module that folds an operator of its own derives from it what the fold  *)
(* is one position at a time.                                              *)
(***************************************************************************)
EXTENDS Lists, TLAPS, NaturalsInduction, SequenceTheorems, WellFoundedInduction,
        FiniteSetTheorems
-----------------------------------------------------------------------------
(* Induction over positions.                                               *)

LEMMA LeastNat ==
  ASSUME NEW S, S \subseteq Nat, S # {}
  PROVE  \E x \in S : \A y \in S : x =< y
<1> DEFINE R == OpToRel(<, Nat)
<1>1. IsWellFoundedOn(R, Nat)
  BY NatLessThanWellFounded
<1>2. \A x, y \in Nat : x < y => <<x, y>> \in R
  BY DEF OpToRel
<1> HIDE DEF R
<1>3. PICK x \in S : \A y \in S : ~ (<<y, x>> \in R)
  BY <1>1, WFMin
<1>4. \A y \in S : ~ (y < x)
  BY <1>2, <1>3
<1> QED BY <1>3, <1>4

\* What holds at 0 and goes from each position to the next holds everywhere.
LEMMA Stepwise ==
  ASSUME NEW n \in Nat, NEW Q, 0 \in Q, \A k \in 1 .. n : k - 1 \in Q => k \in Q
  PROVE  \A k \in 0 .. n : k \in Q
<1> DEFINE Bad == {k \in 0 .. n : k \notin Q}
<1> SUFFICES ASSUME Bad # {} PROVE FALSE
  OBVIOUS
<1>0. Bad \subseteq Nat
  OBVIOUS
<1>1. PICK k \in Bad : \A y \in Bad : k =< y
  <2> HIDE DEF Bad
  <2> QED BY <1>0, LeastNat
<1>2. k \in 1 .. n /\ k - 1 \in 0 .. n /\ k - 1 \notin Bad
  BY <1>1
<1> QED BY <1>1, <1>2

\* A run whose steps do not leave A stays in A.
LEMMA StaysIn ==
  ASSUME NEW A, NEW n \in Nat, NEW r, r[0] \in A,
         \A k \in 1 .. n : r[k - 1] \in A => r[k] \in A
  PROVE  \A k \in 0 .. n : r[k] \in A
<1> DEFINE Q == {k \in 0 .. n : r[k] \in A}
<1>1. 0 \in Q
  OBVIOUS
<1>2. ASSUME NEW k \in 1 .. n, k - 1 \in Q PROVE k \in Q
  BY <1>2
<1> HIDE DEF Q
<1>3. \A k \in 0 .. n : k \in Q
  BY <1>1, <1>2, Stepwise
<1> QED BY <1>3 DEF Q

LEMMA MaxOfPositions ==
  ASSUME NEW n \in Nat, NEW S \in SUBSET (1 .. n), S # {}
  PROVE  Max(S) \in S /\ \A y \in S : Max(S) >= y
<1> DEFINE T == {n - x : x \in S}
<1>0. \A x \in S : x \in Int /\ n - x \in Nat
  OBVIOUS
<1>1. T \subseteq Nat /\ T # {}
  BY <1>0
<1>2. PICK z \in T : \A y \in T : z =< y
  <2> HIDE DEF T
  <2> QED BY <1>1, LeastNat
<1>3. PICK x \in S : z = n - x
  BY <1>2
<1>4. ASSUME NEW y \in S PROVE x >= y
  <2>1. n - x =< n - y
    BY <1>2, <1>3
  <2> QED BY <1>0, <2>1
<1> QED BY <1>4 DEF Max

LEMMA MaxOfUpTo ==
  ASSUME NEW n \in Nat, NEW k \in 1 .. n
  PROVE  /\ 1 .. k # {} /\ 1 .. k \in SUBSET (1 .. n) /\ 1 .. (k - 1) \in SUBSET (1 .. n)
         /\ Max(1 .. k) = k /\ (1 .. k) \ {k} = 1 .. (k - 1)
<1>1. 1 .. k # {} /\ 1 .. k \in SUBSET (1 .. n) /\ 1 .. (k - 1) \in SUBSET (1 .. n)
  OBVIOUS
<1>2. Max(1 .. k) \in 1 .. k /\ \A y \in 1 .. k : Max(1 .. k) >= y
  BY <1>1, MaxOfPositions
<1>3. Max(1 .. k) = k
  BY <1>2
<1>4. (1 .. k) \ {k} = 1 .. (k - 1)
  OBVIOUS
<1> QED BY <1>1, <1>3, <1>4

-----------------------------------------------------------------------------
(* Folds.                                                                  *)

\* h gives for a set of positions what a fold has made of the elements there.
Folds(h, A, b, g, s) ==
  /\ h \in [SUBSET DOMAIN s -> A]
  /\ \A S \in SUBSET DOMAIN s :
       h[S] = IF S = {} THEN b ELSE g[<<h[S \ {Max(S)}], s[Max(S)]>>]

\* The function by which FoldLeft() is defined exists.
LEMMA FoldExists ==
  ASSUME NEW A, NEW C, NEW g \in [A \X C -> A], NEW b \in A, NEW s \in Seq(C)
  PROVE  \E h : Folds(h, A, b, g, s)
<1> DEFINE n == Len(s)
           Step(h, S) == IF S = {} THEN b ELSE g[<<h[S \ {Max(S)}], s[Max(S)]>>]
           Q == {k \in 0 .. n : \E h \in [SUBSET (1 .. k) -> A] :
                                  \A S \in SUBSET (1 .. k) : h[S] = Step(h, S)}
<1>1. n \in Nat /\ DOMAIN s = 1 .. n /\ \A i \in 1 .. n : s[i] \in C
  BY LenProperties
<1> HIDE DEF n
<1>2. 0 \in Q
  <2>1. SUBSET (1 .. 0) = {{}}
    OBVIOUS
  <2> DEFINE h0 == [S \in {{}} |-> b]
  <2>2. h0 \in [SUBSET (1 .. 0) -> A]
    BY <2>1
  <2>3. \A S \in SUBSET (1 .. 0) : h0[S] = Step(h0, S)
    BY <2>1
  <2>4. 0 \in 0 .. n
    BY <1>1
  <2> HIDE DEF h0, Step
  <2> QED BY <2>2, <2>3, <2>4
<1>3. ASSUME NEW k \in 1 .. n, k - 1 \in Q PROVE k \in Q
  <2>1. PICK h \in [SUBSET (1 .. (k - 1)) -> A] : \A S \in SUBSET (1 .. (k - 1)) : h[S] = Step(h, S)
    BY <1>3
  <2> DEFINE h2 == [S \in SUBSET (1 .. k) |->
                      IF k \in S THEN g[<<h[S \ {k}], s[k]>>] ELSE h[S]]
  <2>2. \A S \in SUBSET (1 .. k) : /\ S \ {k} \in SUBSET (1 .. (k - 1))
                                   /\ k \notin S => S \in SUBSET (1 .. (k - 1))
    BY <1>1
  <2>3. h2 \in [SUBSET (1 .. k) -> A]
    BY <1>1, <1>3, <2>1, <2>2
  <2>4. ASSUME NEW S \in SUBSET (1 .. k) PROVE h2[S] = Step(h2, S)
    <3>1. CASE S = {}
      BY <2>1, <2>2, <3>1
    <3>2. CASE S # {} /\ k \in S
      <4>0. k \in Nat
        BY <1>1
      <4>1. Max(S) \in S /\ \A y \in S : Max(S) >= y
        BY <3>2, <4>0, MaxOfPositions
      <4>2. Max(S) = k
        <5>1. Max(S) \in 1 .. k /\ Max(S) >= k
          BY <3>2, <4>1
        <5> QED BY <4>0, <5>1
      <4>3. h2[S \ {k}] = h[S \ {k}]
        BY <2>2
      <4> QED BY <3>2, <4>2, <4>3
    <3>3. CASE S # {} /\ k \notin S
      <4>1. S \in SUBSET (1 .. (k - 1)) /\ k - 1 \in Nat
        BY <1>1, <2>2, <3>3
      <4>2. Max(S) \in S
        BY <3>3, <4>1, MaxOfPositions
      <4>3. h2[S \ {Max(S)}] = h[S \ {Max(S)}] /\ h2[S] = h[S]
        BY <3>3, <4>1, <4>2
      <4>4. h[S] = Step(h, S)
        BY <2>1, <4>1
      <4> QED BY <3>3, <4>3, <4>4
    <3> QED BY <3>1, <3>2, <3>3
  <2>5. k \in 0 .. n
    BY <1>1
  <2> HIDE DEF h2, Step
  <2> QED BY <2>3, <2>4, <2>5
<1>4. n \in Q
  <2> HIDE DEF Q
  <2>1. \A k \in 0 .. n : k \in Q
    BY <1>1, <1>2, <1>3, Stepwise
  <2> QED BY <1>1, <2>1
<1>5. PICK h \in [SUBSET (1 .. n) -> A] : \A S \in SUBSET (1 .. n) : h[S] = Step(h, S)
  BY <1>4
<1> QED BY <1>1, <1>5 DEF Folds

\* The same, one position after the other.
Runs(f, A, b, g, s) ==
  /\ f \in [0 .. Len(s) -> A] /\ f[0] = b
  /\ \A k \in 1 .. Len(s) : f[k] = g[<<f[k - 1], s[k]>>]

LEMMA RunExists ==
  ASSUME NEW A, NEW C, NEW g \in [A \X C -> A], NEW b \in A, NEW s \in Seq(C)
  PROVE  \E f : Runs(f, A, b, g, s)
<1> DEFINE n == Len(s)
<1>1. n \in Nat /\ DOMAIN s = 1 .. n
  BY LenProperties
<1>2. PICK h : Folds(h, A, b, g, s)
  BY FoldExists
<1> HIDE DEF n
<1> DEFINE f == [k \in 0 .. n |-> h[1 .. k]]
<1>3. f \in [0 .. n -> A]
  BY <1>1, <1>2 DEF Folds
<1>4. f[0] = b
  <2>1. 1 .. 0 = {} /\ 0 \in 0 .. n
    BY <1>1
  <2> QED BY <1>2, <2>1 DEF Folds
<1>5. ASSUME NEW k \in 1 .. n PROVE f[k] = g[<<f[k - 1], s[k]>>]
  <2>1. /\ 1 .. k # {} /\ 1 .. k \in SUBSET (1 .. n)
        /\ Max(1 .. k) = k /\ (1 .. k) \ {k} = 1 .. (k - 1)
    BY <1>1, MaxOfUpTo
  <2>2. k \in 0 .. n /\ k - 1 \in 0 .. n
    BY <1>1
  <2>3. h[1 .. k] = g[<<h[1 .. (k - 1)], s[k]>>]
    BY <1>1, <1>2, <2>1 DEF Folds
  <2> QED BY <2>2, <2>3
<1> HIDE DEF f
<1> QED BY <1>3, <1>4, <1>5 DEF n, Runs

-----------------------------------------------------------------------------
(* Induction over sequences.                                               *)

LEMMA PrefixIs ==
  ASSUME NEW C, NEW s \in Seq(C), NEW k \in 1 .. Len(s)
  PROVE  /\ SubSeq(s, 1, k - 1) \in Seq(C) /\ s[k] \in C
         /\ SubSeq(s, 1, k) = Append(SubSeq(s, 1, k - 1), s[k])
<1>1. Len(s) \in Nat /\ \A i \in 1 .. Len(s) : s[i] \in C
  BY LenProperties
<1>2. SubSeq(s, 1, k - 1) \in Seq(C)
  BY <1>1, SubSeqProperties
<1>3. SubSeq(s, 1, k) = SubSeq(s, 1, k - 1) \o <<s[k]>>
  BY <1>1, SubSeqRecursiveSecond
<1> QED BY <1>1, <1>2, <1>3, AppendIsConcat

\* A set of sequences that has the empty one and all that follow has them all.
LEMMA Elementwise ==
  ASSUME NEW C, NEW Q, <<>> \in Q, \A t \in Seq(C), e \in C : t \in Q => Append(t, e) \in Q,
         NEW s \in Seq(C)
  PROVE  s \in Q
<1> DEFINE P == {k \in 0 .. Len(s) : SubSeq(s, 1, k) \in Q}
<1>1. Len(s) \in Nat
  BY LenProperties
<1>2. 0 \in P
  <2>1. SubSeq(s, 1, 0) = <<>> /\ 0 \in 0 .. Len(s)
    BY <1>1, SubSeqEmpty
  <2> QED BY <2>1
<1>3. ASSUME NEW k \in 1 .. Len(s), k - 1 \in P PROVE k \in P
  <2>1. /\ SubSeq(s, 1, k - 1) \in Seq(C) /\ s[k] \in C
        /\ SubSeq(s, 1, k) = Append(SubSeq(s, 1, k - 1), s[k])
    BY PrefixIs
  <2>2. SubSeq(s, 1, k - 1) \in Q /\ k \in 0 .. Len(s)
    BY <1>1, <1>3
  <2>3. SubSeq(s, 1, k) \in Q
    BY <2>1, <2>2
  <2> QED BY <2>2, <2>3
<1>4. Len(s) \in P
  <2> HIDE DEF P
  <2>1. \A k \in 0 .. Len(s) : k \in P
    BY <1>1, <1>2, <1>3, Stepwise
  <2> QED BY <1>1, <2>1
<1> QED BY <1>4, SubSeqFull

-----------------------------------------------------------------------------
(* Sequences that are filtered.                                            *)

\* Those() one element after the other.
LEMMA ThoseRun ==
  ASSUME NEW C, NEW s \in Seq(C), NEW V
  PROVE  \E r : /\ r[0] = <<>> /\ Those(s, V) = r[Len(s)]
                /\ \A k \in 1 .. Len(s) :
                     r[k] = IF s[k] \in V THEN Append(r[k - 1], s[k]) ELSE r[k - 1]
<1> DEFINE n == Len(s)
           g == [x \in Seq(C) \X C |-> IF x[2] \in V THEN Append(x[1], x[2]) ELSE x[1]]
           F(f) == [i \in 0 .. n |->
                      IF i = 0 THEN <<>>
                      ELSE IF s[i] \in V THEN Append(f[i - 1], s[i]) ELSE f[i - 1]]
           c == CHOOSE f : f = F(f)
<1>1. n \in Nat /\ DOMAIN s = 1 .. n /\ \A i \in 1 .. n : s[i] \in C
  BY LenProperties
<1>2. g \in [Seq(C) \X C -> Seq(C)] /\ <<>> \in Seq(C)
  BY AppendProperties
<1>3. PICK f : Runs(f, Seq(C), <<>>, g, s)
  <2> HIDE DEF g
  <2> QED BY <1>2, RunExists
<1>4. f = F(f)
  <2>1. ASSUME NEW k \in 1 .. n
        PROVE  f[k] = IF s[k] \in V THEN Append(f[k - 1], s[k]) ELSE f[k - 1]
    <3>1. f[k] = g[<<f[k - 1], s[k]>>]
      <4> HIDE DEF g
      <4> QED BY <1>3 DEF Runs
    <3>2. f[k - 1] \in Seq(C) /\ s[k] \in C
      BY <1>1, <1>3 DEF Runs
    <3> QED BY <3>1, <3>2
  <2> HIDE DEF g
  <2>2. \A i \in 0 .. n : i = 0 \/ i \in 1 .. n
    BY <1>1
  <2>3. f \in [0 .. n -> Seq(C)] /\ f[0] = <<>>
    BY <1>3 DEF Runs
  <2> QED BY <2>1, <2>2, <2>3
<1>5. c = F(c)
  <2> HIDE DEF F
  <2> QED BY <1>4
<1>6. Those(s, V) = c[n]
  BY DEF Those
<1> HIDE DEF c
<1>7. c[0] = <<>> /\ \A k \in 1 .. n :
        c[k] = IF s[k] \in V THEN Append(c[k - 1], s[k]) ELSE c[k - 1]
  <2>1. 0 \in 0 .. n /\ \A k \in 1 .. n : k \in 0 .. n /\ k # 0
    BY <1>1
  <2> HIDE DEF n
  <2> QED BY <1>5, <2>1
<1> QED BY <1>6, <1>7

LEMMA ThoseOfNone == ASSUME NEW V PROVE Those(<<>>, V) = <<>>
<1>1. ASSUME NEW s \in Seq({}), Len(s) = 0 PROVE Those(s, V) = <<>>
  <2>1. PICK r : r[0] = <<>> /\ Those(s, V) = r[Len(s)]
    BY ThoseRun
  <2> QED BY <1>1, <2>1
<1>2. <<>> \in Seq({}) /\ Len(<<>>) = 0
  BY EmptySeq
<1> QED BY <1>1, <1>2

\* One element more.
LEMMA ThoseAppend ==
  ASSUME NEW C, NEW s \in Seq(C), NEW e \in C, NEW V
  PROVE  Those(Append(s, e), V) = IF e \in V THEN Append(Those(s, V), e) ELSE Those(s, V)
<1> DEFINE t == Append(s, e)
           n == Len(s)
<1>1. /\ n \in Nat /\ t \in Seq(C) /\ Len(t) = n + 1 /\ t[n + 1] = e
      /\ \A k \in 1 .. n : t[k] = s[k]
  BY AppendProperties, LenProperties
<1>2. PICK r : /\ r[0] = <<>> /\ Those(s, V) = r[n]
               /\ \A k \in 1 .. n :
                    r[k] = IF s[k] \in V THEN Append(r[k - 1], s[k]) ELSE r[k - 1]
  BY ThoseRun
<1> HIDE DEF t, n
<1>3. PICK q : /\ q[0] = <<>> /\ Those(t, V) = q[n + 1]
               /\ \A k \in 1 .. n + 1 :
                    q[k] = IF t[k] \in V THEN Append(q[k - 1], t[k]) ELSE q[k - 1]
  BY <1>1, ThoseRun
<1> DEFINE Q == {k \in 0 .. n : q[k] = r[k]}
<1>4. 0 \in Q
  BY <1>1, <1>2, <1>3
<1>5. ASSUME NEW k \in 1 .. n, k - 1 \in Q PROVE k \in Q
  BY <1>1, <1>2, <1>3, <1>5
<1>6. q[n] = r[n]
  <2>1. n \in Q
    <3> HIDE DEF Q
    <3>1. \A k \in 0 .. n : k \in Q
      BY <1>1, <1>4, <1>5, Stepwise
    <3> QED BY <1>1, <3>1
  <2> QED BY <2>1
<1>7. n + 1 \in 1 .. n + 1 /\ (n + 1) - 1 = n
  BY <1>1
<1> QED BY <1>1, <1>2, <1>3, <1>6, <1>7 DEF t

\* They are a sequence of elements of both.
LEMMA ThoseIn ==
  ASSUME NEW C, NEW s \in Seq(C), NEW V
  PROVE  Those(s, V) \in Seq(C \cap V)
<1> DEFINE Q == {t \in Seq(C) : Those(t, V) \in Seq(C \cap V)}
<1>1. <<>> \in Q
  BY ThoseOfNone, EmptySeq
<1>2. ASSUME NEW t \in Seq(C), NEW e \in C, t \in Q PROVE Append(t, e) \in Q
  <2>1. Append(t, e) \in Seq(C)
    BY AppendProperties
  <2>2. Those(Append(t, e), V) = IF e \in V THEN Append(Those(t, V), e) ELSE Those(t, V)
    BY ThoseAppend
  <2>3. Those(t, V) \in Seq(C \cap V)
    BY <1>2
  <2>4. e \in V => Append(Those(t, V), e) \in Seq(C \cap V)
    BY <2>3, AppendProperties
  <2> QED BY <2>1, <2>2, <2>3, <2>4
<1>3. s \in Q
  <2> HIDE DEF Q
  <2> QED BY <1>1, <1>2, Elementwise
<1> QED BY <1>3

\* A sequence of such elements stays as it is.
LEMMA ThoseAll ==
  ASSUME NEW V, NEW s \in Seq(V)
  PROVE  Those(s, V) = s
<1> DEFINE Q == {t \in Seq(V) : Those(t, V) = t}
<1>1. <<>> \in Q
  BY ThoseOfNone, EmptySeq
<1>2. ASSUME NEW t \in Seq(V), NEW e \in V, t \in Q PROVE Append(t, e) \in Q
  <2>1. Append(t, e) \in Seq(V)
    BY AppendProperties
  <2>2. Those(Append(t, e), V) = IF e \in V THEN Append(Those(t, V), e) ELSE Those(t, V)
    BY ThoseAppend
  <2> QED BY <1>2, <2>1, <2>2
<1>3. s \in Q
  <2> HIDE DEF Q
  <2> QED BY <1>1, <1>2, Elementwise
<1> QED BY <1>3

\* To filter twice is to filter once.
LEMMA ThoseOfThose ==
  ASSUME NEW C, NEW s \in Seq(C), NEW V, NEW W
  PROVE  Those(Those(s, V), W) = Those(s, V \cap W)
<1> DEFINE Q == {t \in Seq(C) : Those(Those(t, V), W) = Those(t, V \cap W)}
<1>1. <<>> \in Q
  BY ThoseOfNone, EmptySeq
<1>2. ASSUME NEW t \in Seq(C), NEW e \in C, t \in Q PROVE Append(t, e) \in Q
  <2>1. Append(t, e) \in Seq(C)
    BY AppendProperties
  <2>2. /\ Those(Append(t, e), V) = IF e \in V THEN Append(Those(t, V), e) ELSE Those(t, V)
        /\ Those(Append(t, e), V \cap W) =
             IF e \in V \cap W THEN Append(Those(t, V \cap W), e) ELSE Those(t, V \cap W)
    BY ThoseAppend
  <2>3. Those(t, V) \in Seq(C \cap V)
    BY ThoseIn
  <2>4. e \in V => Those(Append(Those(t, V), e), W) =
          IF e \in W THEN Append(Those(Those(t, V), W), e) ELSE Those(Those(t, V), W)
    <3> DEFINE u == Those(t, V)
               D == C \cap V
    <3>1. u \in Seq(D) /\ (e \in V => e \in D)
      BY <2>3
    <3> HIDE DEF u, D
    <3>2. e \in V => Those(Append(u, e), W) = IF e \in W THEN Append(Those(u, W), e) ELSE Those(u, W)
      BY <3>1, ThoseAppend
    <3> QED BY <3>2 DEF u
  <2>5. Those(Those(t, V), W) = Those(t, V \cap W)
    BY <1>2
  <2>6. Those(Those(Append(t, e), V), W) = Those(Append(t, e), V \cap W)
    <3>1. CASE e \in V
      <4>1. Those(Append(t, e), V) = Append(Those(t, V), e)
        BY <2>2, <3>1
      <4>2. Those(Append(t, e), V \cap W) =
              IF e \in W THEN Append(Those(t, V \cap W), e) ELSE Those(t, V \cap W)
        BY <2>2, <3>1
      <4>3. Those(Append(Those(t, V), e), W) =
              IF e \in W THEN Append(Those(t, V \cap W), e) ELSE Those(t, V \cap W)
        BY <2>4, <2>5, <3>1
      <4> QED BY <4>1, <4>2, <4>3
    <3>2. CASE e \notin V
      BY <2>2, <2>5, <3>2
    <3> QED BY <3>1, <3>2
  <2> QED BY <2>1, <2>6
<1>3. s \in Q
  <2> HIDE DEF Q
  <2> QED BY <1>1, <1>2, Elementwise
<1> QED BY <1>3

LEMMA AppendHas ==
  ASSUME NEW C, NEW s \in Seq(C), NEW e \in C
  PROVE  ToSet(Append(s, e)) = ToSet(s) \cup {e}
<1>1. /\ Len(s) \in Nat /\ DOMAIN s = 1 .. Len(s)
      /\ DOMAIN Append(s, e) = 1 .. Len(s) + 1
      /\ \A i \in 1 .. Len(s) : Append(s, e)[i] = s[i]
      /\ Append(s, e)[Len(s) + 1] = e
  BY AppendProperties, LenProperties
<1>2. \A i \in 1 .. Len(s) + 1 : i \in 1 .. Len(s) \/ i = Len(s) + 1
  BY <1>1
<1> QED BY <1>1, <1>2 DEF ToSet

\* Nothing else is lost.
LEMMA ThoseHas ==
  ASSUME NEW C, NEW s \in Seq(C), NEW V
  PROVE  ToSet(Those(s, V)) = ToSet(s) \cap V
<1> DEFINE Q == {t \in Seq(C) : ToSet(Those(t, V)) = ToSet(t) \cap V}
<1>1. <<>> \in Q
  <2>1. ToSet(<<>>) = {}
    BY DEF ToSet
  <2> QED BY <2>1, ThoseOfNone, EmptySeq
<1>2. ASSUME NEW t \in Seq(C), NEW e \in C, t \in Q PROVE Append(t, e) \in Q
  <2>1. Append(t, e) \in Seq(C) /\ Those(t, V) \in Seq(C \cap V)
    BY AppendProperties, ThoseIn
  <2>2. Those(Append(t, e), V) = IF e \in V THEN Append(Those(t, V), e) ELSE Those(t, V)
    BY ThoseAppend
  <2>3. ToSet(Append(t, e)) = ToSet(t) \cup {e}
    BY AppendHas
  <2>4. e \in V => ToSet(Append(Those(t, V), e)) = ToSet(Those(t, V)) \cup {e}
    BY <2>1, AppendHas
  <2> QED BY <1>2, <2>1, <2>2, <2>3, <2>4
<1>3. s \in Q
  <2> HIDE DEF Q
  <2> QED BY <1>1, <1>2, Elementwise
<1> QED BY <1>3

\* A sequence has one element more, which it did not have.
LEMMA AppendOnce ==
  ASSUME NEW C, NEW s \in Seq(C), NEW e \in C
  PROVE  IsInjective(Append(s, e)) <=> IsInjective(s) /\ e \notin ToSet(s)
<1>1. /\ Len(s) \in Nat /\ DOMAIN s = 1 .. Len(s)
      /\ Append(s, e) \in Seq(C) /\ Len(Append(s, e)) = Len(s) + 1
      /\ DOMAIN Append(s, e) = 1 .. Len(s) + 1
      /\ \A i \in 1 .. Len(s) : Append(s, e)[i] = s[i]
      /\ Append(s, e)[Len(s) + 1] = e
  BY AppendProperties, LenProperties
<1>2. ASSUME IsInjective(Append(s, e)) PROVE IsInjective(s) /\ e \notin ToSet(s)
  BY <1>1, <1>2 DEF IsInjective, ToSet
<1>3. ASSUME IsInjective(s), e \notin ToSet(s) PROVE IsInjective(Append(s, e))
  BY <1>1, <1>3 DEF IsInjective, ToSet
<1> QED BY <1>2, <1>3

\* What was there once is there once.
LEMMA ThoseOnce ==
  ASSUME NEW C, NEW s \in Seq(C), NEW V, IsInjective(s)
  PROVE  IsInjective(Those(s, V))
<1> DEFINE Q == {t \in Seq(C) : IsInjective(t) => IsInjective(Those(t, V))}
<1>1. <<>> \in Q
  <2>1. IsInjective(<<>>)
    BY DEF IsInjective
  <2> QED BY <2>1, ThoseOfNone, EmptySeq
<1>2. ASSUME NEW t \in Seq(C), NEW e \in C, t \in Q PROVE Append(t, e) \in Q
  <2>1. Append(t, e) \in Seq(C) /\ Those(t, V) \in Seq(C \cap V)
    BY AppendProperties, ThoseIn
  <2>2. Those(Append(t, e), V) = IF e \in V THEN Append(Those(t, V), e) ELSE Those(t, V)
    BY ThoseAppend
  <2>3. IsInjective(Append(t, e)) => IsInjective(t) /\ e \notin ToSet(t)
    BY AppendOnce
  <2>4. ToSet(Those(t, V)) = ToSet(t) \cap V
    BY ThoseHas
  <2>5. e \in V /\ IsInjective(Those(t, V)) /\ e \notin ToSet(t) =>
          IsInjective(Append(Those(t, V), e))
    BY <2>1, <2>4, AppendOnce
  <2> QED BY <1>2, <2>1, <2>2, <2>3, <2>5
<1>3. s \in Q
  <2> HIDE DEF Q
  <2> QED BY <1>1, <1>2, Elementwise
<1> QED BY <1>3

\* The first one stays the first if it stays.
LEMMA ThoseFirst ==
  ASSUME NEW C, NEW s \in Seq(C), NEW V, s # <<>>, s[1] \in V
  PROVE  Those(s, V) # <<>> /\ Those(s, V)[1] = s[1]
<1> DEFINE Q == {t \in Seq(C) : t # <<>> /\ t[1] \in V =>
                   Those(t, V) # <<>> /\ Those(t, V)[1] = t[1]}
<1>1. <<>> \in Q
  BY EmptySeq
<1>2. ASSUME NEW t \in Seq(C), NEW e \in C, t \in Q PROVE Append(t, e) \in Q
  <2>1. Append(t, e) \in Seq(C) /\ Those(t, V) \in Seq(C \cap V)
    BY AppendProperties, ThoseIn
  <2>2. Those(Append(t, e), V) = IF e \in V THEN Append(Those(t, V), e) ELSE Those(t, V)
    BY ThoseAppend
  <2>3. CASE t = <<>>
    BY <2>1, <2>2, <2>3, ThoseOfNone
  <2>4. CASE t # <<>>
    <3>1. Append(t, e)[1] = t[1]
      BY <2>4
    <3>2. Those(t, V) # <<>> /\ e \in V => /\ Append(Those(t, V), e)[1] = Those(t, V)[1]
                                           /\ Append(Those(t, V), e) # <<>>
      BY <2>1
    <3> QED BY <1>2, <2>1, <2>2, <2>4, <3>1, <3>2
  <2> QED BY <2>3, <2>4
<1>3. s \in Q
  <2> HIDE DEF Q
  <2> QED BY <1>1, <1>2, Elementwise
<1> QED BY <1>3

\* One that becomes something that is not counted is taken off.
LEMMA ThoseReplaced ==
  ASSUME NEW C, NEW s \in Seq(C), NEW V, NEW x, NEW z \in C, z \notin V,
         NEW W, W = V \ {x}
  PROVE  /\ ReplaceAll(s, x, z) \in Seq(C)
         /\ Those(ReplaceAll(s, x, z), V) = Those(s, W)
<1> DEFINE R(t) == ReplaceAll(t, x, z)
           Q == {t \in Seq(C) : R(t) \in Seq(C) /\ Those(R(t), V) = Those(t, W)}
<1>1. <<>> \in Q
  <2>1. R(<<>>) = <<>>
    BY DEF ReplaceAll
  <2> QED BY <2>1, ThoseOfNone, EmptySeq
<1>2. ASSUME NEW t \in Seq(C), NEW e \in C, t \in Q PROVE Append(t, e) \in Q
  <2> DEFINE f == IF e = x THEN z ELSE e
  <2>1. Append(t, e) \in Seq(C) /\ R(t) \in Seq(C) /\ Those(R(t), V) = Those(t, W)
    BY <1>2, AppendProperties
  <2>2. R(Append(t, e)) = Append(R(t), f) /\ f \in C
    BY DEF ReplaceAll
  <2> HIDE DEF R, f
  <2>3. Those(Append(R(t), f), V) = IF f \in V THEN Append(Those(R(t), V), f) ELSE Those(R(t), V)
    <3> DEFINE u == R(t)
    <3>1. u \in Seq(C) /\ f \in C
      BY <2>1, <2>2
    <3> HIDE DEF u
    <3>2. Those(Append(u, f), V) = IF f \in V THEN Append(Those(u, V), f) ELSE Those(u, V)
      BY <3>1, ThoseAppend
    <3> QED BY <3>2 DEF u
  <2>4. Those(Append(t, e), W) =
          IF e \in W THEN Append(Those(t, W), e) ELSE Those(t, W)
    BY ThoseAppend
  <2>5. (f \in V <=> e \in W) /\ (f \in V => f = e)
    BY DEF f
  <2>6. R(Append(t, e)) \in Seq(C)
    BY <2>1, <2>2, AppendProperties
  <2>7. Those(R(Append(t, e)), V) = Those(Append(t, e), W)
    BY <2>1, <2>2, <2>3, <2>4, <2>5
  <2> QED BY <2>1, <2>6, <2>7
<1>3. s \in Q
  <2> HIDE DEF Q
  <2> QED BY <1>1, <1>2, Elementwise
<1> QED BY <1>3

-----------------------------------------------------------------------------
(* Sets in some order.                                                     *)

LEMMA OrderOf ==
  ASSUME NEW C, NEW S \in SUBSET C, IsFiniteSet(S)
  PROVE  SetToSeq(S) \in Seq(C) /\ SetToSeqs(S) \subseteq Seq(C)
<1> DEFINE n == Cardinality(S)
<1>1. n \in Nat /\ ExistsBijection(1 .. n, S)
  BY FS_CardinalityType
<1>2. \E f \in [1 .. n -> S] : IsInjective(f)
  BY <1>1 DEF ExistsBijection, Bijection, Injection
<1>3. SetToSeq(S) = CHOOSE f \in [1 .. n -> S] : IsInjective(f)
  BY DEF SetToSeq
<1>4. SetToSeqs(S) \subseteq [1 .. n -> S]
  BY DEF SetToSeqs
<1> HIDE DEF n
<1>5. SetToSeq(S) \in [1 .. n -> S]
  BY <1>2, <1>3
<1>6. [1 .. n -> S] \subseteq Seq(C)
  <2>1. ASSUME NEW f \in [1 .. n -> S] PROVE f \in Seq(C)
    <3>1. f \in [1 .. n -> C]
      OBVIOUS
    <3> QED BY <1>1, <3>1
  <2> QED BY <2>1
<1> QED BY <1>4, <1>5, <1>6

-----------------------------------------------------------------------------
(* What is filtered keeps its order.                                       *)

\* p tells from where in s each element of t comes.
Taken(p, t, s) ==
  /\ p \in [1 .. Len(t) -> 1 .. Len(s)]
  /\ \A k \in 1 .. Len(t) : t[k] = s[p[k]]
  /\ \A j, k \in 1 .. Len(t) : j < k => p[j] < p[k]

LEMMA ThoseTaken ==
  ASSUME NEW C, NEW s \in Seq(C), NEW V
  PROVE  Len(Those(s, V)) <= Len(s) /\ \E p : Taken(p, Those(s, V), s)
<1> DEFINE Q == {t \in Seq(C) : /\ Len(Those(t, V)) <= Len(t)
                                /\ \E p : Taken(p, Those(t, V), t)}
<1>1. <<>> \in Q
  <2>1. Those(<<>>, V) = <<>> /\ <<>> \in Seq(C) /\ Len(<<>>) = 0
    BY ThoseOfNone, EmptySeq
  <2>2. Taken([k \in {} |-> 0], <<>>, <<>>)
    BY <2>1 DEF Taken
  <2> QED BY <2>1, <2>2
<1>2. ASSUME NEW t \in Seq(C), NEW e \in C, t \in Q PROVE Append(t, e) \in Q
  <2> DEFINE a == Append(t, e)
             u == Those(t, V)
             w == Those(a, V)
             n == Len(t)
             m == Len(u)
  <2>1. /\ a \in Seq(C) /\ n \in Nat /\ Len(a) = n + 1 /\ a[n + 1] = e
        /\ \A k \in 1 .. n : a[k] = t[k]
    BY AppendProperties, LenProperties
  <2>2. w = IF e \in V THEN Append(u, e) ELSE u
    BY ThoseAppend
  <2>3. u \in Seq(C \cap V) /\ m \in Nat
    BY ThoseIn, LenProperties
  <2>4. m <= n
    BY <1>2
  <2>5. PICK p : Taken(p, u, t)
    BY <1>2
  <2> HIDE DEF a, u, w, n
  <2>6. CASE e \notin V
    <3>1. Taken(p, w, a)
      <4>1. p \in [1 .. m -> 1 .. n + 1] /\ \A k \in 1 .. m : u[k] = a[p[k]]
        <5>1. p \in [1 .. m -> 1 .. n] /\ \A k \in 1 .. m : u[k] = t[p[k]]
          BY <2>5 DEF Taken, n
        <5> HIDE DEF m
        <5> QED BY <2>1, <2>3, <5>1
      <4> QED BY <2>1, <2>2, <2>5, <2>6, <4>1 DEF Taken
    <3>2. Len(w) <= Len(a)
      BY <2>1, <2>2, <2>3, <2>4, <2>6
    <3> QED BY <2>1, <3>1, <3>2 DEF a, w
  <2>7. CASE e \in V
    <3> DEFINE q == [k \in 1 .. m + 1 |-> IF k = m + 1 THEN n + 1 ELSE p[k]]
    <3>1. e \in C \cap V
      BY <2>7
    <3>2. w = Append(u, e) /\ Len(w) = m + 1 /\ w[m + 1] = e /\ \A k \in 1 .. m : w[k] = u[k]
      BY <2>2, <2>3, <2>7, <3>1, AppendProperties
    <3>3. p \in [1 .. m -> 1 .. n] /\ \A k \in 1 .. m : u[k] = t[p[k]]
      BY <2>5 DEF Taken, n
    <3>4. \A k \in 1 .. m + 1 : k = m + 1 \/ k \in 1 .. m
      BY <2>3
    <3> HIDE DEF m
    <3>5. q \in [1 .. m + 1 -> 1 .. n + 1]
      BY <2>1, <2>3, <3>3, <3>4
    <3>6. \A k \in 1 .. m + 1 : w[k] = a[q[k]]
      BY <2>1, <2>3, <3>2, <3>3, <3>4
    <3>7. ASSUME NEW j \in 1 .. m + 1, NEW k \in 1 .. m + 1, j < k PROVE q[j] < q[k]
      <4>1. j \in 1 .. m /\ p[j] \in 1 .. n
        BY <2>3, <3>3, <3>7
      <4>2. CASE k = m + 1
        <5>1. q[k] = n + 1 /\ q[j] = p[j]
          BY <2>3, <4>1, <4>2
        <5> QED BY <2>1, <4>1, <5>1
      <4>3. CASE k # m + 1
        <5>1. p[j] < p[k] /\ k \in 1 .. m
          BY <2>3, <2>5, <3>4, <3>7, <4>1, <4>3 DEF Taken, m
        <5> QED BY <3>7, <4>1, <4>3, <5>1
      <4> QED BY <4>2, <4>3
    <3> HIDE DEF q
    <3>8. Taken(q, w, a)
      BY <2>1, <3>2, <3>5, <3>6, <3>7 DEF Taken
    <3>9. Len(w) <= Len(a)
      BY <2>1, <2>3, <2>4, <3>2
    <3> QED BY <2>1, <3>8, <3>9 DEF a, w
  <2> QED BY <2>6, <2>7
<1>3. s \in Q
  <2> HIDE DEF Q
  <2> QED BY <1>1, <1>2, Elementwise
<1> QED BY <1>3

-----------------------------------------------------------------------------
(* Sums.                                                                   *)

\* What is defined by recursion over a finite set is proved by taking the
\* smallest number of elements for which it fails.
LEMMA SumInt ==
  ASSUME NEW Dom, IsFiniteSet(Dom), NEW v, \A c \in Dom : v[c] \in Int
  PROVE  Sum(v, Dom) \in Int
<1> DEFINE First(t) == CHOOSE x \in t : TRUE
           Step(t, f) == IF t = {} THEN 0 ELSE v[First(t)] + f[t \ {First(t)}]
           Upto(n) == {t \in SUBSET Dom : Cardinality(t) <= n}
           Defined(n) == \E f : \A t \in Upto(n) : f[t] = Step(t, f)
           iter == CHOOSE f : f = [t \in SUBSET Dom |-> Step(t, f)]
<1>1. Sum(v, Dom) = iter[Dom]
  BY DEF Sum, MapThenSumSet, MapThenFoldSet
<1>2. \A t \in SUBSET Dom : Cardinality(t) \in Nat /\ (Cardinality(t) = 0 <=> t = {})
  BY FS_Subset, FS_CardinalityType, FS_EmptySet
<1>3. \A t \in SUBSET Dom : t # {} =>
        /\ First(t) \in Dom
        /\ t \ {First(t)} \in SUBSET Dom
        /\ Cardinality(t \ {First(t)}) = Cardinality(t) - 1
  <2> SUFFICES ASSUME NEW t \in SUBSET Dom, t # {}
               PROVE  /\ First(t) \in Dom
                      /\ t \ {First(t)} \in SUBSET Dom
                      /\ Cardinality(t \ {First(t)}) = Cardinality(t) - 1
    OBVIOUS
  <2>1. First(t) \in t
    OBVIOUS
  <2>2. IsFiniteSet(t)
    BY FS_Subset
  <2> HIDE DEF First
  <2> QED BY <2>1, <2>2, FS_RemoveElement
<1> HIDE DEF First
<1>4. \A n \in Nat : Defined(n)
  <2> SUFFICES ASSUME {n \in Nat : ~Defined(n)} # {} PROVE FALSE
    OBVIOUS
  <2> DEFINE Bad == {n \in Nat : ~Defined(n)}
  <2>1. PICK n \in Bad : \A m \in Bad : n =< m
    <3> HIDE DEF Defined
    <3> QED BY LeastNat
  <2>2. CASE n = 0
    <3>1. \A t \in Upto(0) : t = {}
      BY <1>2
    <3>2. \A t \in Upto(0) : [u \in {{}} |-> 0][t] = Step(t, [u \in {{}} |-> 0])
      BY <3>1
    <3> HIDE DEF Step, Upto
    <3> QED BY <2>2, <3>2
  <2>3. CASE n # 0
    <3>1. n - 1 \in Nat /\ n - 1 \notin Bad
      <4> HIDE DEF Defined
      <4> QED BY <2>1, <2>3
    <3>2. PICK f : \A t \in Upto(n - 1) : f[t] = Step(t, f)
      BY <3>1
    <3> DEFINE g == [t \in SUBSET Dom |-> Step(t, f)]
    <3>3. \A t \in Upto(n - 1) : g[t] = f[t]
      BY <3>2
    <3>4. ASSUME NEW t \in Upto(n) PROVE g[t] = Step(t, g)
      <4>1. CASE t = {}
        BY <4>1
      <4>2. CASE t # {}
        <5>1. t \ {First(t)} \in Upto(n - 1)
          BY <1>2, <1>3, <3>1, <4>2
        <5>2. g[t \ {First(t)}] = f[t \ {First(t)}]
          BY <3>3, <5>1
        <5>3. g[t] = Step(t, f)
          OBVIOUS
        <5> HIDE DEF g
        <5> QED BY <4>2, <5>2, <5>3
      <4> QED BY <4>1, <4>2
    <3> HIDE DEF g, Step, Upto
    <3> QED BY <3>4
  <2> QED BY <2>2, <2>3
<1>5. \E f : f = [t \in SUBSET Dom |-> Step(t, f)]
  <2>1. Cardinality(Dom) \in Nat /\ \A t \in SUBSET Dom : t \in Upto(Cardinality(Dom))
    BY FS_Subset, FS_CardinalityType
  <2>2. PICK f : \A t \in SUBSET Dom : f[t] = Step(t, f)
    BY <1>4, <2>1
  <2> DEFINE g == [t \in SUBSET Dom |-> Step(t, f)]
  <2>3. \A t \in SUBSET Dom : Step(t, g) = Step(t, f)
    <3> SUFFICES ASSUME NEW t \in SUBSET Dom PROVE Step(t, g) = Step(t, f)
      OBVIOUS
    <3>1. CASE t = {}
      BY <3>1
    <3>2. CASE t # {}
      <4>1. g[t \ {First(t)}] = f[t \ {First(t)}]
        BY <1>3, <2>2, <3>2
      <4> HIDE DEF g
      <4> QED BY <3>2, <4>1
    <3> QED BY <3>1, <3>2
  <2>4. g = [t \in SUBSET Dom |-> Step(t, g)]
    <3> HIDE DEF Step
    <3> QED BY <2>3
  <2> HIDE DEF g, Step
  <2> QED BY <2>4
<1>6. iter = [t \in SUBSET Dom |-> Step(t, iter)]
  <2> HIDE DEF Step
  <2> QED BY <1>5
<1> HIDE DEF iter
<1>7. \A t \in SUBSET Dom : iter[t] = Step(t, iter)
  <2> HIDE DEF Step
  <2> QED BY <1>6
<1> DEFINE Typed(n) == \A t \in Upto(n) : iter[t] \in Int
<1>8. \A n \in Nat : Typed(n)
  <2> SUFFICES ASSUME {n \in Nat : ~Typed(n)} # {} PROVE FALSE
    OBVIOUS
  <2> DEFINE Bad == {n \in Nat : ~Typed(n)}
  <2>1. PICK n \in Bad : \A m \in Bad : n =< m
    <3> HIDE DEF Typed
    <3> QED BY LeastNat
  <2>2. ASSUME NEW t \in Upto(n) PROVE iter[t] \in Int
    <3>1. CASE t = {}
      <4>1. iter[t] = Step(t, iter)
        BY <1>7
      <4>2. Step(t, iter) = 0
        BY <3>1
      <4> QED BY <4>1, <4>2
    <3>2. CASE t # {}
      <4>1. n # 0
        BY <1>2, <3>2
      <4>2. Typed(n - 1)
        BY <2>1, <4>1
      <4>3. iter[t \ {First(t)}] \in Int
        BY <1>2, <1>3, <3>2, <4>2
      <4> QED BY <1>3, <1>7, <3>2, <4>3
    <3> QED BY <3>1, <3>2
  <2> QED BY <2>1, <2>2
<1> QED
  <2>1. Cardinality(Dom) \in Nat /\ Dom \in Upto(Cardinality(Dom))
    BY FS_CardinalityType
  <2> QED BY <1>1, <1>8, <2>1

-----------------------------------------------------------------------------
(* Sums from the first element on.                                         *)

LEMMA SumToRun ==
  ASSUME NEW n \in Nat, NEW f, \A i \in 1 .. n : f[i] \in Int
  PROVE  \E r : /\ r[0] = 0 /\ SumTo(f, n) = r[n] /\ r \in [0 .. n -> Int]
                /\ \A k \in 1 .. n : r[k] = r[k - 1] + f[k]
<1> DEFINE s == [i \in 1 .. n |-> f[i]]
           g == [x \in Int \X Int |-> x[1] + x[2]]
           F(h) == [i \in 0 .. n |-> IF i = 0 THEN 0 ELSE h[i - 1] + f[i]]
           c == CHOOSE h : h = F(h)
<1>1. s \in Seq(Int) /\ Len(s) = n /\ \A i \in 1 .. n : s[i] = f[i]
  <2>1. s \in Seq(Int) /\ DOMAIN s = 1 .. n
    OBVIOUS
  <2>2. Len(s) = n
    <3> HIDE DEF s
    <3> QED BY <2>1, LenProperties
  <2> QED BY <2>1, <2>2
<1>2. g \in [Int \X Int -> Int] /\ 0 \in Int
  OBVIOUS
<1>3. PICK h : Runs(h, Int, 0, g, s)
  <2> HIDE DEF g, s, F, c
  <2>1. s \in Seq(Int)
    BY <1>1
  <2> QED BY <1>2, <2>1, RunExists
<1> HIDE DEF s
<1>4. h = F(h)
  <2>1. h \in [0 .. n -> Int] /\ h[0] = 0
    BY <1>1, <1>3 DEF Runs
  <2>2. ASSUME NEW k \in 1 .. n PROVE h[k] = h[k - 1] + f[k]
    <3>1. h[k] = g[<<h[k - 1], s[k]>>]
      <4> HIDE DEF g
      <4> QED BY <1>1, <1>3 DEF Runs
    <3>2. h[k - 1] \in Int /\ s[k] \in Int
      BY <1>1, <2>1
    <3> QED BY <1>1, <3>1, <3>2
  <2>3. \A i \in 0 .. n : i = 0 \/ i \in 1 .. n
    OBVIOUS
  <2> HIDE DEF g
  <2> QED BY <2>1, <2>2, <2>3
<1>5. c = F(c)
  <2> HIDE DEF F
  <2> QED BY <1>4
<1>6. SumTo(f, n) = c[n]
  BY DEF SumTo
<1> HIDE DEF c
<1>7. c[0] = 0 /\ \A k \in 1 .. n : c[k] = c[k - 1] + f[k]
  <2>1. 0 \in 0 .. n /\ \A k \in 1 .. n : k \in 0 .. n /\ k # 0
    OBVIOUS
  <2> QED BY <1>5, <2>1
<1>8. \A k \in 0 .. n : c[k] \in Int
  <2>1. \A k \in 1 .. n : c[k - 1] \in Int => c[k] \in Int
    BY <1>7
  <2>2. c[0] \in Int
    BY <1>7
  <2> QED BY <2>1, <2>2, StaysIn
<1>9. c \in [0 .. n -> Int]
  <2>1. c = [i \in 0 .. n |-> c[i]]
    BY <1>5
  <2> QED BY <1>8, <2>1
<1> QED BY <1>6, <1>7, <1>9

\* One summand after the other.
LEMMA SumToIs ==
  ASSUME NEW n \in Nat, NEW f, \A i \in 1 .. n : f[i] \in Int
  PROVE  /\ SumTo(f, 0) = 0
         /\ \A k \in 0 .. n : SumTo(f, k) \in Int
         /\ \A k \in 1 .. n : SumTo(f, k) = SumTo(f, k - 1) + f[k]
<1>1. PICK r : /\ r[0] = 0 /\ SumTo(f, n) = r[n] /\ r \in [0 .. n -> Int]
               /\ \A k \in 1 .. n : r[k] = r[k - 1] + f[k]
  BY SumToRun
<1>2. ASSUME NEW k \in 0 .. n PROVE SumTo(f, k) = r[k]
  <2>1. k \in Nat /\ \A i \in 1 .. k : i \in 1 .. n /\ f[i] \in Int
    OBVIOUS
  <2>2. PICK q : /\ q[0] = 0 /\ SumTo(f, k) = q[k] /\ q \in [0 .. k -> Int]
                 /\ \A j \in 1 .. k : q[j] = q[j - 1] + f[j]
    BY <2>1, SumToRun
  <2> DEFINE Q == {j \in 0 .. k : q[j] = r[j]}
  <2>3. 0 \in Q
    BY <1>1, <2>1, <2>2
  <2>4. ASSUME NEW j \in 1 .. k, j - 1 \in Q PROVE j \in Q
    BY <1>1, <2>1, <2>2, <2>4
  <2>5. k \in Q
    <3> HIDE DEF Q
    <3>1. \A j \in 0 .. k : j \in Q
      BY <2>1, <2>3, <2>4, Stepwise
    <3> QED BY <2>1, <3>1
  <2> QED BY <2>2, <2>5
<1>3. 0 \in 0 .. n /\ \A k \in 1 .. n : k \in 0 .. n /\ k - 1 \in 0 .. n
  OBVIOUS
<1> QED BY <1>1, <1>2, <1>3

\* Where no summand is negative, sums grow with what is summed.
LEMMA SumToGrows ==
  ASSUME NEW n \in Nat, NEW f, \A i \in 1 .. n : f[i] \in Int /\ f[i] >= 0
  PROVE  \A j, k \in 0 .. n : j <= k => 0 <= SumTo(f, j) /\ SumTo(f, j) <= SumTo(f, k)
<1> DEFINE P(k) == SumTo(f, k)
<1>1. P(0) = 0 /\ (\A k \in 0 .. n : P(k) \in Int) /\ \A k \in 1 .. n : P(k) = P(k - 1) + f[k]
  BY SumToIs
<1> HIDE DEF P
<1> DEFINE Q == {k \in 0 .. n : P(k) >= 0 /\ \A j \in 0 .. n : j <= k => P(j) <= P(k)}
<1>2. 0 \in Q
  BY <1>1
<1>3. ASSUME NEW k \in 1 .. n, k - 1 \in Q PROVE k \in Q
  <2>1. P(k) >= P(k - 1) /\ P(k - 1) >= 0 /\ P(k) \in Int /\ P(k - 1) \in Int
    BY <1>1, <1>3
  <2>2. ASSUME NEW j \in 0 .. n, j <= k PROVE P(j) <= P(k)
    <3>1. j = k \/ j <= k - 1
      BY <2>2
    <3>2. P(j) \in Int
      BY <1>1
    <3> QED BY <1>3, <2>1, <3>1, <3>2
  <2> QED BY <2>1, <2>2
<1>4. \A k \in 0 .. n : k \in Q
  <2> HIDE DEF Q
  <2> QED BY <1>2, <1>3, Stepwise
<1> QED BY <1>4 DEF P

LEMMA SumToLess ==
  ASSUME NEW n \in Nat, NEW f, NEW g, \A i \in 1 .. n : f[i] \in Int /\ g[i] \in Int /\ f[i] <= g[i]
  PROVE  \A k \in 0 .. n : SumTo(f, k) <= SumTo(g, k)
<1> DEFINE P(k) == SumTo(f, k)
           Q(k) == SumTo(g, k)
           S == {k \in 0 .. n : P(k) <= Q(k)}
<1>1. /\ P(0) = 0 /\ (\A k \in 0 .. n : P(k) \in Int) /\ \A k \in 1 .. n : P(k) = P(k - 1) + f[k]
      /\ Q(0) = 0 /\ (\A k \in 0 .. n : Q(k) \in Int) /\ \A k \in 1 .. n : Q(k) = Q(k - 1) + g[k]
  BY SumToIs
<1> HIDE DEF P, Q
<1>2. 0 \in S
  BY <1>1
<1>3. ASSUME NEW k \in 1 .. n, k - 1 \in S PROVE k \in S
  BY <1>1, <1>3
<1>4. \A k \in 0 .. n : k \in S
  <2> HIDE DEF S
  <2> QED BY <1>2, <1>3, Stepwise
<1> QED BY <1>4 DEF P, Q

\* What the sum up to k has of d, which is added to summand i.
Share(i, k, d) == IF i <= k THEN d ELSE 0

\* In g summand i of f has d more, summand j d less.
Transfers(f, g, n, i, j, d) ==
  /\ g[i] = f[i] + d /\ g[j] = f[j] - d
  /\ \A k \in 1 .. n : k # i /\ k # j => g[k] = f[k]

\* What one summand gives to another.
LEMMA SumToMoved ==
  ASSUME NEW n \in Nat, NEW f, NEW g, \A k \in 1 .. n : f[k] \in Int /\ g[k] \in Int,
         NEW i \in 1 .. n, NEW j \in 1 .. n, i # j, NEW d \in Int,
         Transfers(f, g, n, i, j, d)
  PROVE  \A k \in 0 .. n : SumTo(g, k) = SumTo(f, k) + Share(i, k, d) - Share(j, k, d)
<1> DEFINE P(k) == SumTo(f, k)
           Q(k) == SumTo(g, k)
           e(k) == Share(i, k, d) - Share(j, k, d)
           S == {k \in 0 .. n : Q(k) = P(k) + e(k)}
<1>1. /\ P(0) = 0 /\ (\A k \in 0 .. n : P(k) \in Int) /\ \A k \in 1 .. n : P(k) = P(k - 1) + f[k]
      /\ Q(0) = 0 /\ (\A k \in 0 .. n : Q(k) \in Int) /\ \A k \in 1 .. n : Q(k) = Q(k - 1) + g[k]
  BY SumToIs
<1> HIDE DEF P, Q
<1>2. 0 \in S
  BY <1>1 DEF Share
<1>3. ASSUME NEW k \in 1 .. n, k - 1 \in S PROVE k \in S
  <2>1. /\ P(k) = P(k - 1) + f[k] /\ Q(k) = Q(k - 1) + g[k] /\ P(k - 1) \in Int /\ Q(k - 1) \in Int
        /\ Q(k - 1) = P(k - 1) + e(k - 1)
    BY <1>1, <1>3
  <2>2. f[k] \in Int /\ g[k] \in Int /\ k \in 1 .. n /\ i \in Nat /\ j \in Nat
    OBVIOUS
  <2>0. /\ g[i] = f[i] + d /\ g[j] = f[j] - d
        /\ k # i /\ k # j => g[k] = f[k]
    BY DEF Transfers
  <2>3. g[k] = f[k] + e(k) - e(k - 1)
    <3>1. CASE k = i
      <4>1. (i <= k) /\ ~(i <= k - 1) /\ (j <= k <=> j <= k - 1)
        BY <3>1, <2>2
      <4> QED BY <3>1, <4>1, <2>0, <2>2 DEF Share
    <3>2. CASE k = j
      <4>1. (j <= k) /\ ~(j <= k - 1) /\ (i <= k <=> i <= k - 1)
        BY <3>2, <2>2
      <4> QED BY <3>2, <4>1, <2>0, <2>2 DEF Share
    <3>3. CASE k # i /\ k # j
      <4>1. (j <= k <=> j <= k - 1) /\ (i <= k <=> i <= k - 1)
        BY <3>3, <2>2
      <4> QED BY <3>3, <4>1, <2>0, <2>2 DEF Share
    <3> QED BY <3>1, <3>2, <3>3
  <2>4. e(k) \in Int /\ e(k - 1) \in Int
    BY DEF Share
  <2> HIDE DEF e
  <2>5. Q(k) = P(k) + e(k)
    BY <2>1, <2>2, <2>3, <2>4
  <2> QED BY <2>5
<1>4. \A k \in 0 .. n : k \in S
  <2> HIDE DEF S, e
  <2> QED BY <1>2, <1>3, Stepwise
<1> QED BY <1>4 DEF P, Q

-----------------------------------------------------------------------------
(* Sequences that are cut and joined.                                      *)

LEMMA IsSequence ==
  ASSUME NEW S, NEW n \in Nat, NEW f \in [1 .. n -> S]
  PROVE  f \in Seq(S) /\ Len(f) = n
<1>1. f \in Seq(S) /\ DOMAIN f = 1 .. n
  OBVIOUS
<1> QED BY <1>1, LenProperties

LEMMA CutIs ==
  ASSUME NEW C, NEW s \in Seq(C), NEW k \in 0 .. Len(s)
  PROVE  /\ SubSeq(s, 1, k) \in Seq(C) /\ Len(SubSeq(s, 1, k)) = k
         /\ \A i \in 1 .. k : SubSeq(s, 1, k)[i] = s[i]
         /\ SubSeq(s, k + 1, Len(s)) \in Seq(C) /\ Len(SubSeq(s, k + 1, Len(s))) = Len(s) - k
         /\ \A i \in 1 .. Len(s) - k : SubSeq(s, k + 1, Len(s))[i] = s[k + i]
<1>1. Len(s) \in Nat /\ DOMAIN s = 1 .. Len(s) /\ k \in Nat /\ k <= Len(s) /\ \A i \in 1 .. Len(s) : s[i] \in C
  BY LenProperties
<1> DEFINE n == Len(s)
           u == SubSeq(s, 1, k)
           v == SubSeq(s, k + 1, n)
<1>2. u \in Seq(C) /\ Len(u) = k /\ \A i \in 1 .. k : u[i] = s[i]
  BY <1>1, SubSeqProperties
<1>3. v \in Seq(C) /\ Len(v) = n - k /\ \A i \in 1 .. n - k : v[i] = s[k + i]
  <2>1. \A i \in (k + 1) .. n : s[i] \in C
    BY <1>1
  <2>2. k + 1 \in 1 .. n + 1 /\ n \in 0 .. Len(s)
    BY <1>1
  <2>3. v \in Seq(C) /\ Len(v) = (IF k + 1 <= n THEN n - (k + 1) + 1 ELSE 0)
        /\ \A i \in 1 .. n - (k + 1) + 1 : v[i] = s[k + 1 + i - 1]
    BY <2>1, <2>2, SubSeqProperties
  <2> HIDE DEF v
  <2>4. (IF k + 1 <= n THEN n - (k + 1) + 1 ELSE 0) = n - k /\ n - (k + 1) + 1 = n - k
    <3>1. \A a, b \in Nat : a <= b =>
            (IF a + 1 <= b THEN b - (a + 1) + 1 ELSE 0) = b - a /\ b - (a + 1) + 1 = b - a
      OBVIOUS
    <3> HIDE DEF n
    <3>2. n \in Nat /\ k \in Nat /\ k <= n
      BY <1>1 DEF n
    <3> QED BY <3>1, <3>2
  <2>5. \A i \in 1 .. n - k : k + 1 + i - 1 = k + i
    BY <1>1
  <2> QED BY <2>3, <2>4, <2>5
<1> QED BY <1>2, <1>3

\* u and v have the elements of S, each of them once.
Parts(u, v, S) ==
  /\ IsInjective(u) /\ IsInjective(v)
  /\ ToSet(u) \cap ToSet(v) = {} /\ ToSet(u) \cup ToSet(v) = S

\* s is cut into u, of length k, and v.
Cut(s, k, u, v) == u = SubSeq(s, 1, k) /\ v = SubSeq(s, k + 1, Len(s))

LEMMA CutOnce ==
  ASSUME NEW C, NEW s \in Seq(C), IsInjective(s), NEW k \in 0 .. Len(s), NEW u, NEW v,
         Cut(s, k, u, v)
  PROVE  /\ u \in Seq(C) /\ v \in Seq(C) /\ Len(u) = k /\ Len(v) = Len(s) - k
         /\ Parts(u, v, ToSet(s))
<1> DEFINE n == Len(s)
<1>1. /\ u \in Seq(C) /\ Len(u) = k /\ (\A i \in 1 .. k : u[i] = s[i])
      /\ v \in Seq(C) /\ Len(v) = n - k /\ \A i \in 1 .. n - k : v[i] = s[k + i]
  BY CutIs DEF Cut
<1>2. n \in Nat /\ DOMAIN s = 1 .. n /\ k \in 0 .. n
  BY LenProperties
<1>3. DOMAIN u = 1 .. k /\ DOMAIN v = 1 .. n - k
  BY <1>1, LenProperties
<1>4. \A i, j \in 1 .. n : s[i] = s[j] => i = j
  BY <1>2 DEF IsInjective
<1> HIDE DEF n
<1>5. \A i \in 1 .. k : i \in 1 .. n
  BY <1>2
<1>6. \A i \in 1 .. n - k : k + i \in 1 .. n /\ i \in Nat
  BY <1>2
<1>7. \A i \in 1 .. n : i \in 1 .. k \/ \E j \in 1 .. n - k : i = k + j
  <2> SUFFICES ASSUME NEW i \in 1 .. n, i \notin 1 .. k PROVE \E j \in 1 .. n - k : i = k + j
    OBVIOUS
  <2>1. i - k \in 1 .. n - k /\ i = k + (i - k)
    BY <1>2
  <2> QED BY <2>1
<1>8. IsInjective(u)
  BY <1>1, <1>3, <1>4, <1>5 DEF IsInjective
<1>9. IsInjective(v)
  <2>1. ASSUME NEW i \in 1 .. n - k, NEW j \in 1 .. n - k, v[i] = v[j] PROVE i = j
    <3>1. k + i = k + j
      BY <1>1, <1>4, <1>6, <2>1
    <3> QED BY <1>2, <1>6, <3>1
  <2> QED BY <1>3, <2>1 DEF IsInjective
<1>10. ToSet(s) = ToSet(u) \cup ToSet(v)
  <2>1. ToSet(s) \subseteq ToSet(u) \cup ToSet(v)
    <3>1. ASSUME NEW i \in 1 .. n PROVE s[i] \in ToSet(u) \cup ToSet(v)
      <4>1. CASE i \in 1 .. k
        BY <1>1, <1>3, <4>1 DEF ToSet
      <4>2. CASE i \notin 1 .. k
        <5>1. PICK j \in 1 .. n - k : i = k + j
          BY <1>7, <4>2
        <5> QED BY <1>1, <1>3, <5>1 DEF ToSet
      <4> QED BY <4>1, <4>2
    <3> QED BY <1>2, <3>1 DEF ToSet
  <2>2. ToSet(u) \subseteq ToSet(s)
    <3>1. \A i \in 1 .. k : u[i] \in ToSet(s)
      BY <1>1, <1>2, <1>5 DEF ToSet
    <3> QED BY <1>3, <3>1 DEF ToSet
  <2>3. ToSet(v) \subseteq ToSet(s)
    <3>1. \A i \in 1 .. n - k : v[i] \in ToSet(s)
      BY <1>1, <1>2, <1>6 DEF ToSet
    <3> QED BY <1>3, <3>1 DEF ToSet
  <2> QED BY <2>1, <2>2, <2>3
<1>11. ASSUME NEW i \in 1 .. k, NEW j \in 1 .. n - k PROVE u[i] # v[j]
  <2>1. k + j \in 1 .. n /\ i \in 1 .. n /\ i # k + j
    BY <1>2, <1>5, <1>6
  <2> QED BY <1>1, <1>4, <2>1
<1>12. ToSet(u) \cap ToSet(v) = {}
  BY <1>3, <1>11 DEF ToSet
<1> QED BY <1>1, <1>8, <1>9, <1>10, <1>12 DEF n, Parts

Joined(s, t, u) == u = s \o t

LEMMA JoinOnce ==
  ASSUME NEW C, NEW s \in Seq(C), NEW t \in Seq(C), NEW S, Parts(s, t, S), NEW u, Joined(s, t, u)
  PROVE  u \in Seq(C) /\ Len(u) = Len(s) + Len(t) /\ IsInjective(u) /\ ToSet(u) = S
<1> DEFINE n == Len(s)
           m == Len(t)
<1>0. IsInjective(s) /\ IsInjective(t) /\ ToSet(s) \cap ToSet(t) = {} /\ ToSet(s) \cup ToSet(t) = S
  BY DEF Parts
<1>1. /\ u \in Seq(C) /\ Len(u) = n + m
      /\ \A i \in 1 .. n + m : u[i] = IF i <= n THEN s[i] ELSE t[i - n]
  BY ConcatProperties DEF Joined
<1>2. n \in Nat /\ m \in Nat /\ DOMAIN s = 1 .. n /\ DOMAIN t = 1 .. m
  BY LenProperties
<1>3. DOMAIN u = 1 .. n + m
  BY <1>1, <1>2, LenProperties
<1> HIDE DEF n, m
<1>4. \A i \in 1 .. n : i \in 1 .. n + m /\ u[i] = s[i]
  BY <1>1, <1>2
<1>5. \A i \in 1 .. m : n + i \in 1 .. n + m /\ u[n + i] = t[i]
  <2> SUFFICES ASSUME NEW i \in 1 .. m PROVE n + i \in 1 .. n + m /\ u[n + i] = t[i]
    OBVIOUS
  <2>1. n + i \in 1 .. n + m /\ ~(n + i <= n) /\ (n + i) - n = i
    BY <1>2
  <2> QED BY <1>1, <2>1
<1>6. \A i \in 1 .. n + m : i \in 1 .. n \/ \E j \in 1 .. m : i = n + j
  <2> SUFFICES ASSUME NEW i \in 1 .. n + m, i \notin 1 .. n PROVE \E j \in 1 .. m : i = n + j
    OBVIOUS
  <2>1. i - n \in 1 .. m /\ i = n + (i - n)
    BY <1>2
  <2> QED BY <2>1
<1>7. ToSet(u) = ToSet(s) \cup ToSet(t)
  <2>1. ToSet(u) \subseteq ToSet(s) \cup ToSet(t)
    BY <1>2, <1>3, <1>4, <1>5, <1>6 DEF ToSet
  <2>2. ToSet(s) \subseteq ToSet(u)
    BY <1>2, <1>3, <1>4 DEF ToSet
  <2>3. ToSet(t) \subseteq ToSet(u)
    BY <1>2, <1>3, <1>5 DEF ToSet
  <2> QED BY <2>1, <2>2, <2>3
<1>8. ASSUME NEW i \in 1 .. n + m, NEW j \in 1 .. n + m, u[i] = u[j] PROVE i = j
  <2>1. CASE i \in 1 .. n /\ j \in 1 .. n
    BY <1>0, <1>2, <1>4, <1>8, <2>1 DEF IsInjective
  <2>2. ASSUME NEW k \in 1 .. n, NEW l \in 1 .. m PROVE u[k] # u[n + l]
    <3>1. s[k] \in ToSet(s) /\ t[l] \in ToSet(t)
      BY <1>2 DEF ToSet
    <3> QED BY <1>0, <1>4, <1>5, <3>1
  <2>3. ASSUME NEW k \in 1 .. m, NEW l \in 1 .. m, u[n + k] = u[n + l] PROVE k = l
    BY <1>0, <1>2, <1>5, <2>3 DEF IsInjective
  <2> QED BY <1>6, <1>8, <2>1, <2>2, <2>3
<1>9. IsInjective(u)
  BY <1>3, <1>8 DEF IsInjective
<1> QED BY <1>0, <1>1, <1>7, <1>9 DEF n, m

\* A sequence without repetition is as long as the set of its elements is large.
LEMMA SizeOfOnce ==
  ASSUME NEW C, NEW s \in Seq(C), IsInjective(s)
  PROVE  IsFiniteSet(ToSet(s)) /\ Cardinality(ToSet(s)) = Len(s)
<1> DEFINE n == Len(s)
           f == [i \in 1 .. n |-> s[i]]
<1>1. n \in Nat /\ DOMAIN s = 1 .. n
  BY LenProperties
<1>2. f \in Bijection(1 .. n, ToSet(s))
  BY <1>1 DEF Bijection, Injection, Surjection, IsInjective, ToSet
<1>3. IsFiniteSet(1 .. n) /\ Cardinality(1 .. n) = n
  <2>1. 1 \in Int /\ n \in Int
    BY <1>1
  <2> HIDE DEF n
  <2>2. IsFiniteSet(1 .. n) /\ Cardinality(1 .. n) = IF 1 > n THEN 0 ELSE n - 1 + 1
    BY <2>1, FS_Interval
  <2> QED BY <1>1, <2>2
<1> HIDE DEF f
<1> QED BY <1>2, <1>3, FS_Bijection DEF ExistsBijection, n
=============================================================================
