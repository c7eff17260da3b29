---------------------------- MODULE LivingProofs ----------------------------
(***************************************************************************)
(* Theorems about what a living takes part in: its team, for any players,  *)
(* NPCs, orders, requests and limits; and the modifiers of its skill       *)
(* attributes, for any casters, values, durations and limits.              *)
(***************************************************************************)
EXTENDS Team, SkillAttributes, ListProofs

-----------------------------------------------------------------------------
(* What is taken for the wanted formation.                                 *)

LEMMA Larger ==
  ASSUME NEW a, NEW b, a \in Int, b \in Int, NEW x, x = Max({a, b})
  PROVE  x \in Int /\ x >= a /\ x >= b /\ x \in {a, b}
<1>1. \E y \in {a, b} : \A z \in {a, b} : y >= z
  OBVIOUS
<1> QED BY <1>1 DEF Max

LEMMA Smaller ==
  ASSUME NEW a, NEW b, a \in Int, b \in Int, NEW x, x = Min({a, b})
  PROVE  x \in Int /\ x <= a /\ x <= b /\ x \in {a, b}
<1>1. \E y \in {a, b} : \A z \in {a, b} : y <= z
  OBVIOUS
<1> QED BY <1>1 DEF Min

LEMMA RowsOf ==
  ASSUME NEW f, f = [i \in Rows |-> f[i]]
  PROVE  SubSeq(f, 1, MAX_TEAMROWS) = f
<1> DEFINE C == {f[i] : i \in Rows}
<1>1. MAX_TEAMROWS \in Nat
  BY FormationAssumption
<1>2. f \in [1 .. MAX_TEAMROWS -> C]
  BY DEF Rows
<1> HIDE DEF C
<1>3. f \in Seq(C) /\ Len(f) = MAX_TEAMROWS
  <2>1. f \in Seq(C) /\ DOMAIN f = 1 .. MAX_TEAMROWS
    BY <1>1, <1>2
  <2> QED BY <1>1, <2>1, LenProperties
<1> QED BY <1>3, SubSeqFull

\* Whatever a leader asks for.
Wishes == [min : [Rows -> Int], max : [Rows -> Int]]

\* The lengths that rows may have.
Forms == {f \in Wishes : \A i \in Rows : 0 <= f.min[i] /\ f.min[i] <= f.max[i]}
Short(f) == \A i \in Rows : f.max[i] <= MAX_TEAM_ROWLEN

LEMMA SensibleIs ==
  ASSUME NEW f \in Wishes
  PROVE  Sensible(f) \in Forms /\ Short(Sensible(f)) /\ Sensible(f).min[1] >= 1
<1> DEFINE first(i) == IF i = 1 THEN 1 ELSE 0
           low == [i \in Rows |-> Max({f.min[i], first(i)})]
           wide == [i \in Rows |-> Max({f.max[i], low[i]})]
           high == [i \in Rows |-> Min({wide[i], MAX_TEAM_ROWLEN})]
           least == [i \in Rows |-> Min({low[i], high[i]})]
<1>1. MAX_TEAM_ROWLEN \in Int /\ MAX_TEAM_ROWLEN >= 1
  BY FormationAssumption
<1>2. \A i \in Rows : f.min[i] \in Int /\ f.max[i] \in Int
  BY DEF Wishes
<1>3. \A i \in Rows : low[i] \in Int /\ low[i] >= 0
  <2> SUFFICES ASSUME NEW i \in Rows PROVE low[i] \in Int /\ low[i] >= 0
    OBVIOUS
  <2>1. low[i] = Max({f.min[i], first(i)}) /\ f.min[i] \in Int
    BY <1>2
  <2>2. first(i) \in Int /\ first(i) >= 0
    OBVIOUS
  <2> HIDE DEF low, first
  <2>3. low[i] \in Int /\ low[i] >= first(i)
    BY <2>1, <2>2, Larger, Zenon
  <2> QED BY <2>2, <2>3
<1>4. \A i \in Rows : wide[i] \in Int /\ wide[i] >= 0
  <2> SUFFICES ASSUME NEW i \in Rows PROVE wide[i] \in Int /\ wide[i] >= 0
    OBVIOUS
  <2>1. wide[i] = Max({f.max[i], low[i]}) /\ f.max[i] \in Int
    BY <1>2
  <2>2. low[i] \in Int /\ low[i] >= 0
    BY <1>3
  <2> HIDE DEF low, wide
  <2>3. wide[i] \in Int /\ wide[i] >= low[i]
    BY <2>1, <2>2, Larger, Zenon
  <2> QED BY <2>2, <2>3
<1>5. \A i \in Rows : high[i] \in Int /\ high[i] >= 0 /\ high[i] <= MAX_TEAM_ROWLEN
  <2> SUFFICES ASSUME NEW i \in Rows PROVE high[i] \in Int /\ high[i] >= 0 /\ high[i] <= MAX_TEAM_ROWLEN
    OBVIOUS
  <2>1. high[i] = Min({wide[i], MAX_TEAM_ROWLEN})
    OBVIOUS
  <2>2. wide[i] \in Int /\ wide[i] >= 0
    BY <1>4
  <2> HIDE DEF wide, high
  <2>3. high[i] \in Int /\ high[i] <= MAX_TEAM_ROWLEN /\ high[i] \in {wide[i], MAX_TEAM_ROWLEN}
    BY <1>1, <2>1, <2>2, Smaller, Zenon
  <2> QED BY <1>1, <2>2, <2>3
<1>6. \A i \in Rows : least[i] \in Int /\ least[i] >= 0 /\ least[i] <= high[i]
  <2> SUFFICES ASSUME NEW i \in Rows PROVE least[i] \in Int /\ least[i] >= 0 /\ least[i] <= high[i]
    OBVIOUS
  <2>1. least[i] = Min({low[i], high[i]})
    OBVIOUS
  <2>2. low[i] \in Int /\ low[i] >= 0 /\ high[i] \in Int /\ high[i] >= 0
    BY <1>3, <1>5
  <2> HIDE DEF low, high, least
  <2>3. least[i] \in Int /\ least[i] <= high[i] /\ least[i] \in {low[i], high[i]}
    BY <2>1, <2>2, Smaller, Zenon
  <2> QED BY <2>2, <2>3
<1>7. Sensible(f) = [min |-> least, max |-> high]
  <2>1. SubSeq(least, 1, MAX_TEAMROWS) = least /\ SubSeq(high, 1, MAX_TEAMROWS) = high
    <3>1. least = [i \in Rows |-> least[i]] /\ high = [i \in Rows |-> high[i]]
      OBVIOUS
    <3> HIDE DEF least, high
    <3> QED BY <3>1, RowsOf
  <2>2. Sensible(f) = [min |-> SubSeq(least, 1, MAX_TEAMROWS), max |-> SubSeq(high, 1, MAX_TEAMROWS)]
    BY DEF Sensible, ByRow
  <2> QED BY <2>1, <2>2
<1>0. 1 \in Rows /\ least[1] >= 1
  <2>1. 1 \in Rows
    BY FormationAssumption DEF Rows
  <2>2. low[1] = Max({f.min[1], first(1)}) /\ f.min[1] \in Int /\ first(1) = 1 /\ first(1) \in Int
    BY <1>2, <2>1
  <2>3. wide[1] = Max({f.max[1], low[1]}) /\ f.max[1] \in Int /\ low[1] \in Int
    BY <1>2, <1>3, <2>1
  <2>4. high[1] = Min({wide[1], MAX_TEAM_ROWLEN}) /\ least[1] = Min({low[1], high[1]})
        /\ wide[1] \in Int /\ high[1] \in Int
    BY <1>4, <1>5, <2>1
  <2> HIDE DEF low, wide, high, least, first
  <2>5. low[1] >= 1
    <3>1. low[1] >= first(1)
      BY <2>2, Larger, ZenonT(60)
    <3> QED BY <2>2, <3>1
  <2>6. wide[1] >= low[1]
    BY <2>3, Larger, ZenonT(60)
  <2>7. high[1] \in {wide[1], MAX_TEAM_ROWLEN}
    BY <1>1, <2>4, Smaller, Zenon
  <2>8. least[1] \in {low[1], high[1]}
    BY <2>3, <2>4, Smaller, Zenon
  <2>9. high[1] >= 1
    BY <1>1, <2>3, <2>4, <2>5, <2>6, <2>7
  <2> QED BY <2>1, <2>5, <2>8, <2>9
<1>8. least \in [Rows -> Int] /\ high \in [Rows -> Int]
  BY <1>5, <1>6
<1> HIDE DEF least, high
<1> QED BY <1>0, <1>5, <1>6, <1>7, <1>8 DEF Forms, Wishes, Short

\* Lengths that so many members can have: there are enough for the shortest
\* rows, somebody stands in the first, and the longest rows hold them if any do.
Fits(f, num) ==
  /\ f \in Forms /\ Short(f)
  /\ SumTo(f.min, MAX_TEAMROWS) <= num
  /\ num >= 1 => f.min[1] >= 1
  /\ num <= MAX_TEAMROWS * MAX_TEAM_ROWLEN => num <= SumTo(f.max, MAX_TEAMROWS)

\* As much of m as is asked for.
Part(x, m, rest) ==
  /\ x \in Int /\ 0 <= x /\ x <= m
  /\ x = m \/ x >= rest
  /\ x = 0 \/ x <= rest

LEMMA PartIs ==
  ASSUME NEW m \in Int, m >= 0, NEW rest \in Int, NEW x, x = Max({0, Min({m, rest})})
  PROVE  Part(x, m, rest)
<1> DEFINE d == Min({m, rest})
<1>1. x = Max({0, d}) /\ 0 \in Int
  OBVIOUS
<1>2. d \in Int /\ d <= m /\ d <= rest /\ d \in {m, rest}
  BY Smaller, Zenon
<1> HIDE DEF d
<1>3. x \in Int /\ x >= 0 /\ x >= d /\ x \in {0, d}
  BY <1>1, <1>2, Larger, Zenon
<1>4. x \in Int /\ 0 <= x /\ x <= m
  BY <1>2, <1>3
<1>5. x = m \/ x >= rest
  BY <1>2, <1>3, <1>4
<1>6. x = 0 \/ x <= rest
  BY <1>2, <1>3
<1> QED BY <1>4, <1>5, <1>6 DEF Part

\* Minima are lowered from the back.
LEMMA LoweredIs ==
  ASSUME NEW R \in Nat, R >= 1, NEW num \in Nat, NEW m, NEW low, NEW less,
         \A i \in 1 .. R : m[i] \in Int /\ m[i] >= 0 /\ less[i] \in Int /\ low[i] = m[i] - less[i],
         \A i \in 1 .. R : Part(less[i], m[i], SumTo(m, i) - num)
  PROVE  /\ \A i \in 1 .. R : 0 <= low[i] /\ low[i] <= m[i]
         /\ SumTo(low, R) <= num
<1> DEFINE M(k) == SumTo(m, k)
           L(k) == SumTo(low, k)
<1>1. /\ M(0) = 0 /\ (\A k \in 0 .. R : M(k) \in Int) /\ \A k \in 1 .. R : M(k) = M(k - 1) + m[k]
      /\ L(0) = 0 /\ (\A k \in 0 .. R : L(k) \in Int) /\ \A k \in 1 .. R : L(k) = L(k - 1) + low[k]
  <2>1. \A i \in 1 .. R : m[i] \in Int /\ low[i] \in Int
    OBVIOUS
  <2> QED BY <2>1, SumToIs
<1> HIDE DEF M, L
<1>2. \A i \in 1 .. R : /\ 0 <= less[i] /\ less[i] <= m[i]
                      /\ (less[i] = m[i] \/ less[i] >= M(i) - num)
                      /\ (less[i] = 0 \/ less[i] <= M(i) - num)
  BY DEF M, Part
<1>3. \A i \in 1 .. R : /\ low[i] \in Int /\ m[i] \in Int /\ less[i] \in Int
                      /\ low[i] = m[i] - less[i]
  OBVIOUS
<1> DEFINE Q == {k \in 0 .. R : L(k) <= num /\ L(k) <= M(k)}
<1>4. 0 \in Q
  BY <1>1
<1>5. ASSUME NEW k \in 1 .. R, k - 1 \in Q PROVE k \in Q
  <2>1. /\ L(k) = L(k - 1) + m[k] - less[k] /\ M(k) = M(k - 1) + m[k]
        /\ L(k - 1) \in Int /\ M(k - 1) \in Int /\ m[k] \in Int /\ less[k] \in Int
    BY <1>1, <1>3
  <2>2. L(k - 1) <= num /\ L(k - 1) <= M(k - 1)
    BY <1>5
  <2>3. /\ 0 <= less[k] /\ less[k] <= m[k]
        /\ (less[k] = m[k] \/ less[k] >= M(k) - num)
        /\ (less[k] = 0 \/ less[k] <= M(k) - num)
    BY <1>2
  <2>4. L(k) <= num /\ L(k) <= M(k)
    BY <2>1, <2>2, <2>3
  <2> QED BY <2>4
<1>6. \A k \in 0 .. R : k \in Q
  <2> HIDE DEF Q
  <2> QED BY <1>4, <1>5, Stepwise
<1>7. L(R) <= num
  BY <1>6
<1>9. ASSUME NEW i \in 1 .. R PROVE 0 <= low[i] /\ low[i] <= m[i]
  <2>1. 0 <= less[i] /\ less[i] <= m[i]
    BY <1>2
  <2> QED BY <1>3, <2>1
<1> QED BY <1>7, <1>9 DEF L

\* Rows are lengthened from the front.
LEMMA LengthenedIs ==
  ASSUME NEW R \in Nat, NEW len \in Int, NEW num \in Nat, NEW x, NEW high, NEW more, NEW room,
         \A i \in 1 .. R : /\ x[i] \in Int /\ x[i] <= len /\ more[i] \in Int
                           /\ room[i] = len - x[i] /\ high[i] = x[i] + more[i],
         \A i \in 1 .. R : Part(more[i], room[i], num - SumTo(x, R) - SumTo(room, i - 1))
  PROVE  /\ \A i \in 1 .. R : x[i] <= high[i] /\ high[i] <= len
         /\ num <= R * len => num <= SumTo(high, R)
<1> DEFINE X(k) == SumTo(x, k)
           H(k) == SumTo(high, k)
           P(k) == SumTo(room, k)
           missing == num - X(R)
<1>1. /\ X(0) = 0 /\ (\A k \in 0 .. R : X(k) \in Int) /\ \A k \in 1 .. R : X(k) = X(k - 1) + x[k]
      /\ H(0) = 0 /\ (\A k \in 0 .. R : H(k) \in Int) /\ \A k \in 1 .. R : H(k) = H(k - 1) + high[k]
      /\ P(0) = 0 /\ (\A k \in 0 .. R : P(k) \in Int) /\ \A k \in 1 .. R : P(k) = P(k - 1) + room[k]
  <2>1. \A i \in 1 .. R : x[i] \in Int /\ high[i] \in Int /\ room[i] \in Int
    OBVIOUS
  <2> QED BY <2>1, SumToIs
<1>2. \A i \in 1 .. R : Part(more[i], room[i], missing - P(i - 1))
  OBVIOUS
<1>3. missing \in Int /\ missing = num - X(R)
  <2>1. R \in 0 .. R
    OBVIOUS
  <2> HIDE DEF X
  <2> QED BY <1>1, <2>1
<1> HIDE DEF X, H, P, missing
<1>4. \A i \in 1 .. R : /\ high[i] \in Int /\ x[i] \in Int /\ room[i] \in Int /\ more[i] \in Int
                      /\ high[i] = x[i] + more[i] /\ room[i] = len - x[i] /\ room[i] >= 0
  OBVIOUS
<1>5. \A i \in 1 .. R : /\ 0 <= more[i] /\ more[i] <= room[i]
                      /\ (more[i] = room[i] \/ more[i] >= missing - P(i - 1))
  BY <1>2 DEF Part
<1> DEFINE Q == {k \in 0 .. R : /\ X(k) + P(k) = k * len
                                /\ H(k) = X(k) + P(k) \/ H(k) >= X(k) + missing}
<1>6. 0 \in Q
  BY <1>1
<1>7. ASSUME NEW k \in 1 .. R, k - 1 \in Q PROVE k \in Q
  <2>1. /\ H(k) = H(k - 1) + x[k] + more[k] /\ X(k) = X(k - 1) + x[k]
        /\ P(k) = P(k - 1) + room[k] /\ room[k] = len - x[k]
        /\ X(k - 1) \in Int /\ H(k - 1) \in Int /\ P(k - 1) \in Int
    BY <1>1, <1>4
  <2>2. H(k - 1) = X(k - 1) + P(k - 1) \/ H(k - 1) >= X(k - 1) + missing
    BY <1>7
  <2>3. X(k) + P(k) = k * len
    <3>1. X(k - 1) + P(k - 1) = (k - 1) * len
      BY <1>7
    <3>2. (k - 1) * len + len = k * len
      OBVIOUS
    <3>3. (k - 1) * len \in Int /\ k * len \in Int /\ len \in Int
      OBVIOUS
    <3> QED BY <1>4, <2>1, <3>1, <3>2, <3>3
  <2>4. /\ 0 <= more[k] /\ more[k] <= room[k]
        /\ (more[k] = room[k] \/ more[k] >= missing - P(k - 1))
    BY <1>5
  <2>5. H(k) = X(k) + P(k) \/ H(k) >= X(k) + missing
    BY <1>3, <1>4, <2>1, <2>2, <2>4
  <2> QED BY <2>3, <2>5
<1>8. \A k \in 0 .. R : k \in Q
  <2> HIDE DEF Q
  <2> QED BY <1>6, <1>7, Stepwise
<1>9. X(R) + P(R) = R * len /\ (H(R) = X(R) + P(R) \/ H(R) >= X(R) + missing)
  BY <1>8
<1>10. num <= R * len => num <= H(R)
  <2>1. H(R) \in Int /\ X(R) \in Int /\ P(R) \in Int /\ R * len \in Int
    BY <1>1
  <2> QED BY <1>3, <1>9, <2>1
<1>11. ASSUME NEW i \in 1 .. R PROVE x[i] <= high[i] /\ high[i] <= len
  <2>1. 0 <= more[i] /\ more[i] <= room[i]
    BY <1>5
  <2> QED BY <1>4, <2>1
<1> QED BY <1>10, <1>11 DEF H

LEMMA CheckFormationIs ==
  ASSUME NEW form \in Wishes, NEW num \in Nat
  PROVE  Fits(CheckFormation(form, num), num)
<1> DEFINE f == Sensible(form)
           m == f.min
           x == f.max
           R == MAX_TEAMROWS
           len == MAX_TEAM_ROWLEN
           room == [i \in Rows |-> len - x[i]]
           missing == num - SumTo(x, R)
           more == [i \in Rows |-> Max({0, Min({room[i], missing - SumTo(room, i - 1)})})]
           less == [i \in Rows |-> Max({0, Min({m[i], SumTo(m, i) - num})})]
           high == [i \in Rows |-> x[i] + more[i]]
           low == [i \in Rows |-> m[i] - less[i]]
<1>1. f \in Forms /\ Short(f) /\ m[1] >= 1
  BY SensibleIs
<1>2. /\ Rows = 1 .. R /\ R \in Nat /\ R >= 1 /\ len \in Int
      /\ \A i \in Rows : /\ 0 <= m[i] /\ m[i] <= x[i] /\ x[i] <= len
                         /\ m[i] \in Int /\ x[i] \in Int
  BY <1>1, FormationAssumption DEF Forms, Wishes, Short, Rows
<1>3. CheckFormation(form, num) = [max |-> high, min |-> low]
  <2>1. SubSeq(low, 1, R) = low /\ SubSeq(high, 1, R) = high /\ SubSeq(room, 1, R) = room
    <3>1. low = [i \in Rows |-> low[i]] /\ high = [i \in Rows |-> high[i]] /\ room = [i \in Rows |-> room[i]]
      OBVIOUS
    <3> HIDE DEF low, high, room
    <3> QED BY <3>1, RowsOf
  <2>2. ByRow(LAMBDA i : MAX_TEAM_ROWLEN - f.max[i]) = room
    BY <2>1 DEF ByRow
  <2>3. CheckFormation(form, num) = [max |-> SubSeq(high, 1, R), min |-> SubSeq(low, 1, R)]
    BY <2>2 DEF CheckFormation, ByRow
  <2> QED BY <2>1, <2>3
<1>4. /\ \A i \in Rows : room[i] = len - x[i] /\ high[i] = x[i] + more[i] /\ low[i] = m[i] - less[i]
      /\ \A i \in Rows : /\ more[i] = Max({0, Min({room[i], missing - SumTo(room, i - 1)})})
                         /\ less[i] = Max({0, Min({m[i], SumTo(m, i) - num})})
      /\ high = [i \in Rows |-> high[i]] /\ low = [i \in Rows |-> low[i]]
      /\ missing = num - SumTo(x, R)
  OBVIOUS
<1> HIDE DEF f, m, x, R, len, room, missing, more, less, high, low
<1>5. \A i \in Rows : room[i] \in Int /\ room[i] >= 0
  BY <1>2, <1>4
<1>6. /\ missing \in Int
      /\ \A i \in Rows : SumTo(room, i - 1) \in Int /\ SumTo(m, i) \in Int
  <2>1. \A i \in 1 .. R : m[i] \in Int /\ x[i] \in Int /\ room[i] \in Int
    BY <1>2, <1>5
  <2>2. \A k \in 0 .. R : SumTo(m, k) \in Int /\ SumTo(x, k) \in Int /\ SumTo(room, k) \in Int
    BY <1>2, <2>1, SumToIs
  <2>3. R \in 0 .. R /\ \A i \in Rows : i \in 0 .. R /\ i - 1 \in 0 .. R
    BY <1>2
  <2>4. SumTo(x, R) \in Int
    BY <2>2, <2>3
  <2> QED BY <1>4, <2>2, <2>3, <2>4
<1>7. ASSUME NEW i \in Rows
      PROVE  /\ Part(more[i], room[i], missing - SumTo(room, i - 1))
             /\ Part(less[i], m[i], SumTo(m, i) - num)
  <2> DEFINE a == missing - SumTo(room, i - 1)
             b == SumTo(m, i) - num
  <2>1. a \in Int /\ b \in Int
    BY <1>6
  <2>2. more[i] = Max({0, Min({room[i], a})}) /\ less[i] = Max({0, Min({m[i], b})})
    BY <1>4
  <2>3. room[i] \in Int /\ room[i] >= 0 /\ m[i] \in Int /\ m[i] >= 0
    BY <1>2, <1>5
  <2> HIDE DEF a, b
  <2>4. Part(more[i], room[i], a) /\ Part(less[i], m[i], b)
    BY <2>1, <2>2, <2>3, PartIs, Zenon
  <2> QED BY <2>4 DEF a, b
<1>8. /\ \A i \in Rows : 0 <= low[i] /\ low[i] <= m[i]
      /\ SumTo(low, R) <= num
      /\ num >= 1 => low[1] >= 1
  <2>1. \A i \in 1 .. R : m[i] \in Int /\ m[i] >= 0 /\ less[i] \in Int /\ low[i] = m[i] - less[i]
    BY <1>2, <1>4, <1>7 DEF Part
  <2>2. \A i \in 1 .. R : Part(less[i], m[i], SumTo(m, i) - num)
    BY <1>2, <1>7
  <2>3. R \in Nat /\ R >= 1
    BY <1>2
  <2>4. \A i \in 1 .. R : 0 <= low[i] /\ low[i] <= m[i]
    BY <2>1, <2>2, <2>3, LoweredIs
  <2>5. SumTo(low, R) <= num
    BY <2>1, <2>2, <2>3, LoweredIs
  <2>6. num >= 1 => low[1] >= 1
    <3>1. 1 \in 1 .. R /\ 1 - 1 = 0
      BY <1>2
    <3>2. \A i \in 1 .. R : m[i] \in Int
      BY <1>2
    <3>3. SumTo(m, 1) = m[1]
      <4>1. SumTo(m, 0) = 0 /\ SumTo(m, 1) = SumTo(m, 1 - 1) + m[1]
        BY <2>3, <3>1, <3>2, SumToIs
      <4> QED BY <3>1, <3>2, <4>1
    <3>4. low[1] = m[1] - less[1] /\ Part(less[1], m[1], m[1] - num) /\ m[1] \in Int
      BY <2>1, <2>2, <3>1, <3>3
    <3> QED BY <1>1, <3>4 DEF Part
  <2> QED BY <1>1, <1>2, <2>4, <2>5, <2>6
<1>9. /\ \A i \in Rows : x[i] <= high[i] /\ high[i] <= len
      /\ num <= R * len => num <= SumTo(high, R)
  <2>1. \A i \in 1 .. R : /\ x[i] \in Int /\ x[i] <= len /\ more[i] \in Int
                          /\ room[i] = len - x[i] /\ high[i] = x[i] + more[i]
    BY <1>2, <1>4, <1>7 DEF Part
  <2>2. \A i \in 1 .. R : Part(more[i], room[i], num - SumTo(x, R) - SumTo(room, i - 1))
    BY <1>2, <1>4, <1>7
  <2>3. /\ \A i \in 1 .. R : x[i] <= high[i] /\ high[i] <= len
        /\ num <= R * len => num <= SumTo(high, R)
    BY <1>2, <2>1, <2>2, LengthenedIs
  <2> QED BY <1>2, <2>3
<1>10. \A i \in Rows : high[i] \in Int /\ low[i] \in Int
  <2>1. \A i \in Rows : x[i] \in Int /\ more[i] \in Int /\ m[i] \in Int /\ less[i] \in Int
    BY <1>2, <1>4, <1>7 DEF Part
  <2>2. \A i \in Rows : high[i] = x[i] + more[i] /\ low[i] = m[i] - less[i]
    BY <1>4
  <2> QED BY <2>1, <2>2
<1>11. high \in [Rows -> Int] /\ low \in [Rows -> Int]
  BY <1>4, <1>10
<1>12. \A i \in Rows : 0 <= low[i] /\ low[i] <= high[i] /\ high[i] <= len
  BY <1>2, <1>8, <1>9, <1>10
<1> QED BY <1>3, <1>8, <1>9, <1>11, <1>12 DEF Fits, Forms, Wishes, Short, R, len

-----------------------------------------------------------------------------
(* How the members stand.                                                  *)

LEMMA Constants ==
  /\ Players \cap Npcs = {} /\ None \notin Living /\ Living = Players \cup Npcs
  /\ MAX_TEAMROWS \in Nat /\ 1 \in Rows /\ Rows = 1 .. MAX_TEAMROWS /\ \A i \in Rows : i \in Nat
  /\ \A o \in Orders : o \in Seq(Living) /\ ToSet(o) = Living /\ IsInjective(o)
  /\ Requests \subseteq Wishes
<1>1. 1 \in Rows /\ \A i \in Rows : i \in Nat
  BY FormationAssumption DEF Rows
<1> QED BY <1>1, FormationAssumption, TeamAssumption DEF Living, Rows, Wishes

\* Each of V stands in one place of one row, and nobody else but G does.
Standings(V, G) ==
  {r \in [Rows -> Seq(V \cup G)] :
     /\ \A i \in Rows : IsInjective(r[i])
     /\ \A m \in V : \E i \in Rows : m \in ToSet(r[i])
     /\ \A i, j \in Rows : i # j => ToSet(r[i]) \cap ToSet(r[j]) = {}}

LEMMA RowOfIs ==
  ASSUME NEW x, NEW m
  PROVE  RowOf(x, m) \in Rows
<1> DEFINE S == {i \in Rows : Contains(x[i], m)} \cup {1}
<1>1. S # {} /\ S \in SUBSET (1 .. MAX_TEAMROWS) /\ MAX_TEAMROWS \in Nat
  BY Constants
<1>2. RowOf(x, m) = Max(S)
  BY DEF RowOf
<1> HIDE DEF S
<1>3. Max(S) \in S
  BY <1>1, MaxOfPositions
<1> QED BY <1>1, <1>2, <1>3, Constants

LEMMA UpdateIs ==
  ASSUME NEW x, NEW V \in SUBSET Living, NEW order \in Orders
  PROVE  UpdateActRow(x, V, order) \in Standings(V, {})
<1> DEFINE W(i) == {m \in V : RowOf(x, m) = i}
           r == [i \in Rows |-> Those(order, W(i))]
<1>1. UpdateActRow(x, V, order) = r
  <2>1. r = [i \in Rows |-> r[i]]
    OBVIOUS
  <2>2. UpdateActRow(x, V, order) = SubSeq(r, 1, MAX_TEAMROWS)
    BY DEF UpdateActRow, ByRow
  <2> HIDE DEF r
  <2> QED BY <2>1, <2>2, RowsOf
<1>2. order \in Seq(Living) /\ ToSet(order) = Living /\ IsInjective(order)
  BY Constants
<1>3. ASSUME NEW i \in Rows
      PROVE  r[i] \in Seq(V) /\ IsInjective(r[i]) /\ ToSet(r[i]) = W(i)
  <2> DEFINE w == W(i)
  <2>1. r[i] = Those(order, w) /\ w \subseteq V /\ Living \cap w = w
    OBVIOUS
  <2> HIDE DEF w, r
  <2>2. r[i] \in Seq(Living \cap w) /\ IsInjective(r[i]) /\ ToSet(r[i]) = Living \cap w
    BY <1>2, <2>1, ThoseIn, ThoseHas, ThoseOnce
  <2>3. Seq(w) \subseteq Seq(V)
    BY <2>1
  <2> QED BY <2>1, <2>2, <2>3 DEF w
<1>4. \A m \in V : RowOf(x, m) \in Rows
  BY RowOfIs
<1>5. r \in [Rows -> Seq(V \cup {})]
  <2>1. r = [i \in Rows |-> r[i]] /\ V \cup {} = V
    OBVIOUS
  <2> HIDE DEF r
  <2> QED BY <1>3, <2>1
<1> HIDE DEF r
<1>6. \A m \in V : m \in ToSet(r[RowOf(x, m)])
  BY <1>3, <1>4
<1> QED BY <1>1, <1>3, <1>4, <1>5, <1>6 DEF Standings

\* However they are moved, everyone is put into one row in the end.
LEMMA MakeFormationIs ==
  ASSUME NEW form, NEW x, NEW V \in SUBSET Living, NEW order \in Orders
  PROVE  MakeFormation(form, x, V, order) \in Standings(V, {})
<1> DEFINE first == UpdateActRow(x, V, order)
           then == Fro(form, To(form, first))
<1>1. MakeFormation(form, x, V, order) = IF InOrder(form, first) THEN first
                                         ELSE UpdateActRow(then, V, order)
  BY DEF MakeFormation
<1>2. first \in Standings(V, {})
  BY UpdateIs
<1> HIDE DEF first, then
<1>3. UpdateActRow(then, V, order) \in Standings(V, {})
  BY UpdateIs
<1> QED BY <1>1, <1>2, <1>3

LEMMA StandingsGrow ==
  ASSUME NEW V, NEW G, NEW r \in Standings(V, {})
  PROVE  r \in Standings(V, G)
<1>1. r \in [Rows -> Seq(V \cup G)]
  <2>1. \A i \in Rows : r[i] \in Seq(V \cup G)
    <3>1. \A i \in Rows : r[i] \in Seq(V \cup {})
      BY DEF Standings
    <3>2. V \cup {} \subseteq V \cup G
      OBVIOUS
    <3> QED BY <3>1, <3>2
  <2>2. r = [i \in Rows |-> r[i]]
    BY DEF Standings
  <2> QED BY <2>1, <2>2
<1> QED BY <1>1 DEF Standings

\* Two change their places.
LEMMA SwappedIs ==
  ASSUME NEW V, NEW G, NEW r \in Standings(V, G), NEW a \in V, NEW b \in V
  PROVE  /\ Swapped(r, a, b) \in Standings(V, G)
         /\ \A i \in Rows : Len(Swapped(r, a, b)[i]) = Len(r[i])
<1> DEFINE swap(m) == IF m = a THEN b ELSE IF m = b THEN a ELSE m
           row(i) == [k \in DOMAIN r[i] |-> swap(r[i][k])]
           cut(i) == SubSeq(row(i), 1, Len(r[i]))
           q == [i \in Rows |-> cut(i)]
<1>1. Swapped(r, a, b) = q
  <2>1. q = [i \in Rows |-> q[i]]
    OBVIOUS
  <2>2. Swapped(r, a, b) = SubSeq(q, 1, MAX_TEAMROWS)
    BY DEF Swapped, ByRow
  <2> HIDE DEF q
  <2> QED BY <2>1, <2>2, RowsOf
<1>2. /\ \A m \in V \cup G : swap(m) \in V \cup G
      /\ \A m \in V : swap(m) \in V
      /\ \A m : swap(swap(m)) = m
      /\ \A m, n : swap(m) = swap(n) => m = n
  OBVIOUS
<1> HIDE DEF swap
<1>3. ASSUME NEW i \in Rows
      PROVE  /\ q[i] \in Seq(V \cup G) /\ DOMAIN q[i] = DOMAIN r[i]
             /\ \A k \in DOMAIN r[i] : q[i][k] = swap(r[i][k])
  <2> DEFINE s == r[i]
             t == row(i)
  <2>1. s \in Seq(V \cup G)
    BY DEF Standings
  <2>2. Len(s) \in Nat /\ DOMAIN s = 1 .. Len(s) /\ \A k \in 1 .. Len(s) : s[k] \in V \cup G
    <3> HIDE DEF s
    <3> QED BY <2>1, LenProperties
  <2>3. t \in [1 .. Len(s) -> V \cup G] /\ \A k \in DOMAIN s : t[k] = swap(s[k])
    BY <1>2, <2>2
  <2>4. q[i] = SubSeq(t, 1, Len(s))
    OBVIOUS
  <2> HIDE DEF s, t, q
  <2>5. t \in Seq(V \cup G) /\ DOMAIN t = 1 .. Len(s)
    BY <2>2, <2>3
  <2>6. Len(t) = Len(s)
    BY <2>2, <2>5, LenProperties
  <2>7. q[i] = t
    BY <2>4, <2>5, <2>6, SubSeqFull
  <2> QED BY <2>2, <2>3, <2>5, <2>7 DEF s
<1>4. q \in [Rows -> Seq(V \cup G)]
  <2>1. q = [i \in Rows |-> q[i]]
    OBVIOUS
  <2> HIDE DEF q
  <2> QED BY <1>3, <2>1
<1> HIDE DEF q
<1>5. \A i \in Rows : IsInjective(q[i])
  <2>1. \A i \in Rows : IsInjective(r[i])
    BY DEF Standings
  <2> QED BY <1>2, <1>3, <2>1 DEF IsInjective
<1>6. \A i \in Rows : \A m : m \in ToSet(q[i]) <=> swap(m) \in ToSet(r[i])
  BY <1>2, <1>3 DEF ToSet
<1>7. \A m \in V : \E i \in Rows : m \in ToSet(q[i])
  <2>1. \A m \in V : \E i \in Rows : m \in ToSet(r[i])
    BY DEF Standings
  <2> QED BY <1>2, <1>6, <2>1
<1>8. \A i, j \in Rows : i # j => ToSet(q[i]) \cap ToSet(q[j]) = {}
  <2>1. \A i, j \in Rows : i # j => ToSet(r[i]) \cap ToSet(r[j]) = {}
    BY DEF Standings
  <2> QED BY <1>6, <2>1
<1>9. \A i \in Rows : Len(q[i]) = Len(r[i])
  <2> SUFFICES ASSUME NEW i \in Rows PROVE Len(q[i]) = Len(r[i])
    OBVIOUS
  <2>1. q[i] \in Seq(V \cup G) /\ r[i] \in Seq(V \cup G) /\ DOMAIN q[i] = DOMAIN r[i]
    BY <1>3 DEF Standings
  <2>2. Len(q[i]) \in Nat /\ DOMAIN q[i] = 1 .. Len(q[i]) /\ Len(r[i]) \in Nat /\ DOMAIN r[i] = 1 .. Len(r[i])
    BY <2>1, LenProperties
  <2> DEFINE k == Len(q[i])
             l == Len(r[i])
  <2>3. k \in Nat /\ l \in Nat /\ 1 .. k = 1 .. l
    BY <2>1, <2>2
  <2> HIDE DEF k, l
  <2>4. (k \in 1 .. l \/ k = 0) /\ (l \in 1 .. k \/ l = 0)
    BY <2>3
  <2>5. k = l
    BY <2>3, <2>4
  <2> QED BY <2>5 DEF k, l
<1> QED BY <1>1, <1>4, <1>5, <1>7, <1>8, <1>9 DEF Standings

-----------------------------------------------------------------------------
(* How long the rows are.                                                  *)

Lens(r) == [i \in Rows |-> Len(r[i])]

\* How many stand in the rows up to row k.
Upto(r, k) == SumTo(Lens(r), k)

LEMMA RowIs ==
  ASSUME NEW V, NEW G, NEW r \in Standings(V, G), NEW i \in Rows
  PROVE  /\ r[i] \in Seq(V \cup G) /\ IsInjective(r[i])
         /\ Len(r[i]) \in Nat /\ Lens(r)[i] = Len(r[i])
         /\ IsFiniteSet(ToSet(r[i])) /\ Cardinality(ToSet(r[i])) = Len(r[i])
<1> DEFINE s == r[i]
           C == V \cup G
<1>1. s \in Seq(C) /\ IsInjective(s)
  BY DEF Standings
<1>2. Lens(r)[i] = Len(s)
  BY DEF Lens
<1> HIDE DEF s, C
<1>3. Len(s) \in Nat /\ IsFiniteSet(ToSet(s)) /\ Cardinality(ToSet(s)) = Len(s)
  BY <1>1, LenProperties, SizeOfOnce
<1> QED BY <1>1, <1>2, <1>3 DEF s, C

\* Everyone is counted once.
LEMMA AllCounted ==
  ASSUME NEW V, NEW r \in Standings(V, {})
  PROVE  IsFiniteSet(V) /\ Upto(r, MAX_TEAMROWS) = Cardinality(V)
<1> DEFINE R == MAX_TEAMROWS
           U(k) == {m \in V : \E i \in 1 .. k : m \in ToSet(r[i])}
           P(k) == Upto(r, k)
           Q == {k \in 0 .. R : IsFiniteSet(U(k)) /\ Cardinality(U(k)) = P(k)}
<1>1. Rows = 1 .. R /\ R \in Nat
  BY Constants
<1>2. ASSUME NEW i \in 1 .. R
      PROVE  /\ Lens(r)[i] = Len(r[i]) /\ Len(r[i]) \in Nat
             /\ IsFiniteSet(ToSet(r[i])) /\ Cardinality(ToSet(r[i])) = Len(r[i])
  <2>1. i \in Rows
    BY <1>1
  <2> QED BY <2>1, RowIs
<1>3. P(0) = 0 /\ (\A k \in 0 .. R : P(k) \in Int) /\ \A k \in 1 .. R : P(k) = P(k - 1) + Len(r[k])
  <2> DEFINE f == Lens(r)
  <2>1. \A i \in 1 .. R : f[i] \in Int /\ f[i] = Len(r[i])
    BY <1>2
  <2>2. P(0) = SumTo(f, 0) /\ \A k \in 0 .. R : P(k) = SumTo(f, k)
    BY <1>1 DEF Upto
  <2>3. \A k \in 1 .. R : k \in 0 .. R /\ k - 1 \in 0 .. R
    BY <1>1
  <2> HIDE DEF f, P
  <2> QED BY ZenonT(40), <1>1, <2>1, <2>2, <2>3, SumToIs
<1> HIDE DEF P
<1>4. 0 \in Q
  <2>1. U(0) = {}
    OBVIOUS
  <2> HIDE DEF U
  <2>2. IsFiniteSet(U(0)) /\ Cardinality(U(0)) = 0
    BY <2>1, FS_EmptySet
  <2> QED BY <1>1, <1>3, <2>2
<1>5. ASSUME NEW k \in 1 .. R, k - 1 \in Q PROVE k \in Q
  <2> DEFINE S == ToSet(r[k])
             T == U(k - 1)
  <2>1. S \subseteq V
    <3>1. r[k] \in Seq(V)
      <4>1. r[k] \in Seq(V \cup {}) /\ V \cup {} = V
        BY <1>1 DEF Standings
      <4> QED BY <4>1
    <3> DEFINE s == r[k]
    <3> HIDE DEF s
    <3>2. \A i \in DOMAIN s : s[i] \in V
      BY <3>1, LenProperties DEF s
    <3>3. ToSet(s) \subseteq V
      BY <3>2 DEF ToSet
    <3> QED BY <3>3 DEF s
  <2>2. \A i \in 1 .. k : i = k \/ i \in 1 .. k - 1
    BY <1>1
  <2>3. \A i \in 1 .. k - 1 : i \in 1 .. k /\ i \in Rows /\ i # k
    BY <1>1
  <2>4. U(k) = T \cup S
    BY <2>1, <2>2, <2>3
  <2>5. T \cap S = {}
    <3>1. \A i \in 1 .. k - 1 : ToSet(r[i]) \cap S = {}
      BY <1>1, <2>3 DEF Standings
    <3> QED BY <3>1
  <2>6. IsFiniteSet(T) /\ Cardinality(T) = P(k - 1)
    BY <1>5
  <2>7. IsFiniteSet(S) /\ Cardinality(S) = Len(r[k]) /\ Len(r[k]) \in Nat
    BY <1>2
  <2> HIDE DEF S, T
  <2>8. IsFiniteSet(T \cup S) /\ Cardinality(T \cup S) = Cardinality(T) + Cardinality(S)
    <3>1. IsFiniteSet(T \cup S) /\ Cardinality(T \cup S) = Cardinality(T) + Cardinality(S) - Cardinality(T \cap S)
      BY <2>6, <2>7, FS_Union
    <3>2. Cardinality(T \cap S) = 0
      BY <2>5, FS_EmptySet
    <3>3. Cardinality(T) \in Int /\ Cardinality(S) \in Int
      BY <1>1, <1>3, <2>6, <2>7
    <3> QED BY <3>1, <3>2, <3>3
  <2> HIDE DEF U
  <2>9. P(k) = P(k - 1) + Len(r[k]) /\ k \in 0 .. R
    BY <1>1, <1>3
  <2>10. IsFiniteSet(U(k)) /\ Cardinality(U(k)) = P(k)
    BY <2>4, <2>6, <2>7, <2>8, <2>9
  <2> QED BY <2>9, <2>10
<1>6. R \in Q
  <2> HIDE DEF Q
  <2>1. \A k \in 0 .. R : k \in Q
    BY <1>1, <1>4, <1>5, Stepwise
  <2> QED BY <1>1, <2>1
<1>7. U(R) = V
  BY <1>1 DEF Standings
<1> QED
  <2> HIDE DEF U
  <2>1. IsFiniteSet(U(R)) /\ Cardinality(U(R)) = P(R)
    BY <1>6
  <2> QED BY <1>7, <2>1 DEF P

\* Who stands in a row stays there when the rows are updated.
LEMMA UpdateKeeps ==
  ASSUME NEW V \in SUBSET Living, NEW r \in Standings(V, {}), NEW order \in Orders
  PROVE  \A i \in Rows : Len(UpdateActRow(r, V, order)[i]) = Len(r[i])
<1> DEFINE q == UpdateActRow(r, V, order)
           W(i) == {m \in V : RowOf(r, m) = i}
           w == [i \in Rows |-> Those(order, W(i))]
<1>1. q = w
  <2>1. w = [i \in Rows |-> w[i]]
    OBVIOUS
  <2>2. q = SubSeq(w, 1, MAX_TEAMROWS)
    BY DEF UpdateActRow, ByRow
  <2> HIDE DEF w, q
  <2> QED BY <2>1, <2>2, RowsOf
<1>2. ASSUME NEW m \in V, NEW i \in Rows, m \in ToSet(r[i]) PROVE RowOf(r, m) = i
  <2> DEFINE S == {j \in Rows : Contains(r[j], m)} \cup {1}
  <2>1. \A j \in Rows : Contains(r[j], m) <=> m \in ToSet(r[j])
    <3> SUFFICES ASSUME NEW j \in Rows PROVE Contains(r[j], m) <=> m \in ToSet(r[j])
      OBVIOUS
    <3> DEFINE s == r[j]
    <3>1. s \in Seq(V \cup {})
      BY DEF Standings
    <3> HIDE DEF s
    <3>2. DOMAIN s = 1 .. Len(s)
      BY <3>1, LenProperties
    <3>3. Contains(s, m) <=> m \in ToSet(s)
      BY <3>2 DEF Contains, ToSet
    <3> QED BY <3>3 DEF s
  <2>2. \A j \in Rows : m \in ToSet(r[j]) => j = i
    BY <1>2 DEF Standings
  <2>3. S = {i, 1}
    BY <1>2, <2>1, <2>2
  <2>4. S # {} /\ S \in SUBSET (1 .. MAX_TEAMROWS) /\ MAX_TEAMROWS \in Nat /\ i \in Nat /\ i >= 1
    BY Constants
  <2>5. RowOf(r, m) = Max(S)
    BY DEF RowOf
  <2> HIDE DEF S
  <2>6. Max(S) \in S /\ \A y \in S : Max(S) >= y
    BY <2>4, MaxOfPositions
  <2>7. Max(S) \in {i, 1} /\ Max(S) >= i
    BY <2>3, <2>6
  <2> QED BY <2>4, <2>5, <2>7
<1>3. ASSUME NEW i \in Rows PROVE Len(q[i]) = Len(r[i])
  <2>1. W(i) = ToSet(r[i])
    <3>1. W(i) \subseteq ToSet(r[i])
      <4> SUFFICES ASSUME NEW m \in V, RowOf(r, m) = i PROVE m \in ToSet(r[i])
        OBVIOUS
      <4>1. PICK j \in Rows : m \in ToSet(r[j])
        BY DEF Standings
      <4> QED BY <1>2, <4>1
    <3>2. ToSet(r[i]) \subseteq V
      <4> DEFINE s == r[i]
      <4>1. s \in Seq(V \cup {}) /\ V \cup {} = V
        BY DEF Standings
      <4> HIDE DEF s
      <4>2. \A k \in DOMAIN s : s[k] \in V
        BY <4>1, LenProperties
      <4>3. ToSet(s) \subseteq V
        BY <4>2 DEF ToSet
      <4> QED BY <4>3 DEF s
    <3> QED BY <1>2, <3>1, <3>2
  <2> DEFINE u == W(i)
             s == q[i]
  <2>2. s = Those(order, u) /\ u \subseteq Living
    BY <1>1
  <2>3. order \in Seq(Living) /\ ToSet(order) = Living /\ IsInjective(order)
    BY Constants
  <2> HIDE DEF u, s, q, w
  <2>4. s \in Seq(Living \cap u) /\ IsInjective(s) /\ ToSet(s) = Living \cap u
    BY <2>2, <2>3, ThoseIn, ThoseHas, ThoseOnce
  <2>5. Cardinality(ToSet(s)) = Len(s) /\ ToSet(s) = u
    BY <2>2, <2>4, SizeOfOnce
  <2>6. Cardinality(ToSet(r[i])) = Len(r[i])
    BY RowIs
  <2> QED BY <2>1, <2>5, <2>6 DEF u, s
<1> QED BY <1>3 DEF q

\* q is r with other members in rows i and j.
Replaced(r, i, u, j, v, q) == q = [r EXCEPT ![i] = u, ![j] = v]

\* What two rows exchange among them.
LEMMA ExchangedIs ==
  ASSUME NEW V, NEW G, NEW r \in Standings(V, G), NEW i \in Rows, NEW j \in Rows, i # j,
         NEW u \in Seq(V \cup G), NEW v \in Seq(V \cup G), Parts(u, v, ToSet(r[i]) \cup ToSet(r[j])),
         NEW q, Replaced(r, i, u, j, v, q)
  PROVE  /\ q \in Standings(V, G)
         /\ q[i] = u /\ q[j] = v /\ \A k \in Rows : k \notin {i, j} => q[k] = r[k]
<1>0. /\ IsInjective(u) /\ IsInjective(v) /\ ToSet(u) \cap ToSet(v) = {}
      /\ ToSet(u) \cup ToSet(v) = ToSet(r[i]) \cup ToSet(r[j])
  BY DEF Parts
<1>1. /\ r \in [Rows -> Seq(V \cup G)]
      /\ \A k \in Rows : IsInjective(r[k])
      /\ \A m \in V : \E k \in Rows : m \in ToSet(r[k])
      /\ \A k, l \in Rows : k # l => ToSet(r[k]) \cap ToSet(r[l]) = {}
  BY DEF Standings
<1>2. q \in [Rows -> Seq(V \cup G)]
  BY <1>1 DEF Replaced
<1>3. q[i] = u /\ q[j] = v /\ \A k \in Rows : k \notin {i, j} => q[k] = r[k]
  BY <1>1 DEF Replaced
<1>4. \A k \in Rows : IsInjective(q[k])
  BY <1>0, <1>1, <1>3
<1>5. \A m \in V : \E k \in Rows : m \in ToSet(q[k])
  <2> SUFFICES ASSUME NEW m \in V PROVE \E k \in Rows : m \in ToSet(q[k])
    OBVIOUS
  <2>1. PICK k \in Rows : m \in ToSet(r[k])
    BY <1>1
  <2>2. CASE k \in {i, j}
    <3>1. m \in ToSet(u) \/ m \in ToSet(v)
      BY <1>0, <2>1, <2>2
    <3> QED BY <1>3, <3>1
  <2>3. CASE k \notin {i, j}
    BY <1>3, <2>1, <2>3
  <2> QED BY <2>2, <2>3
<1>6. ASSUME NEW k \in Rows, NEW l \in Rows, k # l PROVE ToSet(q[k]) \cap ToSet(q[l]) = {}
  <2>1. \A n \in Rows : n \notin {i, j} =>
          ToSet(r[n]) \cap ToSet(u) = {} /\ ToSet(r[n]) \cap ToSet(v) = {}
    <3> SUFFICES ASSUME NEW n \in Rows, n \notin {i, j}
                 PROVE  ToSet(r[n]) \cap ToSet(u) = {} /\ ToSet(r[n]) \cap ToSet(v) = {}
      OBVIOUS
    <3>1. ToSet(r[n]) \cap ToSet(r[i]) = {} /\ ToSet(r[n]) \cap ToSet(r[j]) = {}
      BY <1>1
    <3> QED BY <1>0, <3>1
  <2>2. CASE k \in {i, j} /\ l \in {i, j}
    BY <1>0, <1>3, <1>6, <2>2
  <2>3. CASE k \in {i, j} /\ l \notin {i, j}
    BY <1>3, <2>1, <2>3
  <2>4. CASE k \notin {i, j} /\ l \in {i, j}
    BY <1>3, <2>1, <2>4
  <2>5. CASE k \notin {i, j} /\ l \notin {i, j}
    BY <1>1, <1>3, <1>6, <2>5
  <2> QED BY <2>2, <2>3, <2>4, <2>5
<1> QED BY <1>2, <1>3, <1>4, <1>5, <1>6 DEF Standings

\* Row j gives d members to row i, or as many as it has.
Gives(a, b, j, i, d) ==
  \E g \in Nat : /\ g <= a[j] /\ (g <= d \/ g = 0) /\ (g >= d \/ g = a[j])
                 /\ b[i] = a[i] + g /\ b[j] = a[j] - g
                 /\ \A k \in Rows : k \notin {i, j} => b[k] = a[k]

LEMMA LensAre ==
  ASSUME NEW r
  PROVE  \A i \in Rows : Lens(r)[i] = Len(r[i])
BY DEF Lens

LEMMA MovedAre ==
  ASSUME NEW V, NEW G, NEW r \in Standings(V, G), NEW i \in Rows, NEW j \in Rows, i # j,
         NEW d \in Int, NEW g \in Nat, g <= Len(r[j]), g <= d \/ g = 0, g >= d \/ g = Len(r[j]),
         NEW q, NEW u, NEW v, Replaced(r, i, u, j, v, q),
         u \in Seq(V \cup G), v \in Seq(V \cup G), Parts(u, v, ToSet(r[i]) \cup ToSet(r[j])),
         Len(u) = Len(r[i]) + g, Len(v) = Len(r[j]) - g
  PROVE  q \in Standings(V, G) /\ Gives(Lens(r), Lens(q), j, i, d)
<1>1. /\ q \in Standings(V, G)
      /\ q[i] = u /\ q[j] = v /\ \A k \in Rows : k \notin {i, j} => q[k] = r[k]
  BY ExchangedIs
<1>2. /\ \A k \in Rows : Lens(r)[k] = Len(r[k])
      /\ \A k \in Rows : Lens(q)[k] = Len(q[k])
  BY LensAre
<1>3. /\ Lens(q)[i] = Lens(r)[i] + g /\ Lens(q)[j] = Lens(r)[j] - g
      /\ \A k \in Rows : k \notin {i, j} => Lens(q)[k] = Lens(r)[k]
      /\ Lens(r)[j] = Len(r[j])
  <2>1. Lens(q)[i] = Len(u) /\ Lens(q)[j] = Len(v) /\ Lens(r)[i] = Len(r[i]) /\ Lens(r)[j] = Len(r[j])
    BY <1>1, <1>2
  <2>2. \A k \in Rows : k \notin {i, j} => Lens(q)[k] = Lens(r)[k]
    <3> SUFFICES ASSUME NEW k \in Rows, k \notin {i, j} PROVE Lens(q)[k] = Lens(r)[k]
      OBVIOUS
    <3>1. q[k] = r[k]
      BY <1>1
    <3> QED BY <1>2, <3>1
  <2> QED BY <2>1, <2>2
<1> QED BY <1>1, <1>3 DEF Gives

LEMMA GiveIs ==
  ASSUME NEW V, NEW G, NEW r \in Standings(V, G), NEW i \in Rows, NEW j \in Rows, i # j,
         NEW d \in Int
  PROVE  Give(r, j, i, d) \in Standings(V, G) /\ Gives(Lens(r), Lens(Give(r, j, i, d)), j, i, d)
<1> DEFINE q == Give(r, j, i, d)
<1>1. CASE d <= 0
  <2>1. q = r
    BY <1>1 DEF Give
  <2>2. Lens(r)[j] \in Nat /\ Lens(r)[i] \in Nat
    <3>1. Len(r[j]) \in Nat /\ Lens(r)[j] = Len(r[j])
      BY RowIs
    <3>2. Len(r[i]) \in Nat /\ Lens(r)[i] = Len(r[i])
      BY RowIs
    <3> QED BY <3>1, <3>2
  <2>3. Gives(Lens(r), Lens(r), j, i, d)
    <3>1. /\ 0 \in Nat /\ 0 <= Lens(r)[j] /\ 0 >= d
          /\ Lens(r)[i] = Lens(r)[i] + 0 /\ Lens(r)[j] = Lens(r)[j] - 0
      BY <1>1, <2>2
    <3> QED BY <3>1 DEF Gives
  <2> QED BY <2>1, <2>3
<1>2. CASE ~(d <= 0)
  <2> DEFINE s == r[j]
             t == r[i]
             C == V \cup G
             g == Min({d, Len(s)})
             f == SubSeq(s, 1, g)
             e == SubSeq(s, g + 1, Len(s))
             u == t \o f
  <2>1. /\ s \in Seq(C) /\ IsInjective(s) /\ t \in Seq(C) /\ IsInjective(t)
        /\ Len(s) \in Nat /\ ToSet(s) \cap ToSet(t) = {}
    BY DEF Standings
  <2>2. r = [k \in Rows |-> r[k]]
    BY DEF Standings
  <2>3. q = [r EXCEPT ![i] = t \o SubSeq(s, 1, g), ![j] = SubSeq(s, d + 1, Len(s))]
    BY <1>2, <2>2 DEF Give, FirstOf, Rest
  <2> HIDE DEF q, s, t, C, g
  <2>4. g \in Int /\ g <= d /\ g <= Len(s) /\ g \in {d, Len(s)}
    <3>1. Len(s) \in Int /\ g = Min({d, Len(s)})
      BY <2>1 DEF g
    <3> QED BY <3>1, Smaller, Zenon
  <2>5. g \in 0 .. Len(s) /\ g \in Nat /\ (g >= d \/ g = Len(s))
    BY <1>2, <2>1, <2>4
  <2>6. SubSeq(s, d + 1, Len(s)) = e
    <3>1. CASE g = d
      BY <3>1
    <3>2. CASE g # d
      <4>1. g = Len(s) /\ d \in Int /\ Len(s) < d
        BY <2>1, <2>4, <3>2
      <4>2. SubSeq(s, d + 1, Len(s)) = <<>>
        <5>1. d + 1 \in Int /\ Len(s) \in Int /\ Len(s) < d + 1
          BY <2>1, <4>1
        <5> QED BY <5>1, SubSeqEmpty
      <4>3. SubSeq(s, g + 1, Len(s)) = <<>>
        <5>1. g + 1 \in Int /\ Len(s) \in Int /\ Len(s) < g + 1
          BY <2>1, <4>1
        <5> QED BY <5>1, SubSeqEmpty
      <4> QED BY <4>2, <4>3
    <3> QED BY <3>1, <3>2
  <2> HIDE DEF f, e
  <2>7. /\ f \in Seq(C) /\ e \in Seq(C) /\ Len(f) = g /\ Len(e) = Len(s) - g
        /\ Parts(f, e, ToSet(s))
    <3>1. Cut(s, g, f, e)
      BY DEF f, e, Cut
    <3>2. s \in Seq(C) /\ IsInjective(s)
      BY <2>1
    <3> QED BY <2>5, <3>1, <3>2, CutOnce
  <2>8. /\ IsInjective(f) /\ IsInjective(e) /\ ToSet(f) \cap ToSet(e) = {}
        /\ ToSet(f) \cup ToSet(e) = ToSet(s)
    BY <2>7 DEF Parts
  <2>9. Parts(t, f, ToSet(t) \cup ToSet(f))
    BY <2>1, <2>8 DEF Parts
  <2>10. /\ u \in Seq(C) /\ Len(u) = Len(t) + Len(f) /\ IsInjective(u)
         /\ ToSet(u) = ToSet(t) \cup ToSet(f)
    <3>1. t \in Seq(C) /\ f \in Seq(C) /\ Joined(t, f, u)
      BY <2>1, <2>7 DEF Joined
    <3> HIDE DEF u
    <3> QED BY <2>9, <3>1, JoinOnce
  <2> HIDE DEF u
  <2>11. Replaced(r, i, u, j, e, q)
    BY <2>3, <2>6 DEF u, f, Replaced
  <2>12. Parts(u, e, ToSet(t) \cup ToSet(s))
    BY <2>1, <2>8, <2>10 DEF Parts
  <2>13. g <= d \/ g = 0
    BY <2>4
  <2>14. Len(u) = Len(r[i]) + g /\ Len(e) = Len(r[j]) - g /\ g <= Len(r[j]) /\ (g >= d \/ g = Len(r[j]))
    BY <2>4, <2>5, <2>7, <2>10 DEF s, t
  <2>15. u \in Seq(V \cup G) /\ e \in Seq(V \cup G) /\ Parts(u, e, ToSet(r[i]) \cup ToSet(r[j]))
    BY <2>7, <2>10, <2>12 DEF C, s, t
  <2>16. q \in Standings(V, G) /\ Gives(Lens(r), Lens(q), j, i, d)
    BY <2>5, <2>11, <2>13, <2>14, <2>15, MovedAre
  <2> QED BY <2>16 DEF q
<1> QED BY <1>1, <1>2

\* The end of row i goes to the front of the next one.
LEMMA PassOnIs ==
  ASSUME NEW V, NEW G, NEW r \in Standings(V, G), NEW i \in Rows, i + 1 \in Rows,
         NEW d \in Nat, d < Len(r[i]),
         NEW q, q = [r EXCEPT ![i] = FirstOf(@, d), ![i + 1] = Rest(r[i], d) \o @]
  PROVE  q \in Standings(V, G) /\ Gives(Lens(r), Lens(q), i, i + 1, Len(r[i]) - d)
<1> DEFINE s == r[i]
           t == r[i + 1]
           C == V \cup G
           f == SubSeq(s, 1, d)
           e == SubSeq(s, d + 1, Len(s))
           u == e \o t
           g == Len(s) - d
<1>1. /\ s \in Seq(C) /\ IsInjective(s) /\ t \in Seq(C) /\ IsInjective(t)
      /\ i # i + 1 /\ i \in Nat
  BY Constants DEF Standings
<1>2. Len(s) \in Nat /\ d < Len(s)
  <2> HIDE DEF s
  <2>1. Len(s) \in Nat
    BY <1>1, LenProperties
  <2> QED BY <2>1 DEF s
<1>3. ToSet(s) \cap ToSet(t) = {}
  BY <1>1 DEF Standings
<1>4. r = [k \in Rows |-> r[k]]
  BY DEF Standings
<1>5. FirstOf(s, d) = f
  <2> DEFINE n == Len(s)
             x == Min({d, n})
  <2>1. n \in Int /\ d \in Int /\ d < n
    BY <1>2
  <2> HIDE DEF n, s
  <2>2. x \in Int /\ x <= d /\ x <= n /\ x \in {d, n}
    BY <2>1, Smaller, Zenon
  <2>3. x = d
    <3> HIDE DEF x
    <3> QED BY <2>1, <2>2
  <2> QED BY <2>3 DEF FirstOf, n
<1>6. q = [r EXCEPT ![i] = f, ![i + 1] = u]
  BY <1>1, <1>4, <1>5 DEF Rest
<1>7. Replaced(r, i + 1, u, i, f, q)
  <2> HIDE DEF u, f
  <2>1. [r EXCEPT ![i] = f, ![i + 1] = u] = [r EXCEPT ![i + 1] = u, ![i] = f]
    BY <1>1
  <2> QED BY <1>6, <2>1 DEF Replaced
<1>8. d \in 0 .. Len(s) /\ Cut(s, d, f, e) /\ Joined(e, t, u)
  BY <1>2 DEF Cut, Joined
<1> HIDE DEF s, t, C, f, e, u
<1>9. /\ f \in Seq(C) /\ e \in Seq(C) /\ Len(f) = d /\ Len(e) = Len(s) - d
      /\ Parts(f, e, ToSet(s))
  BY <1>1, <1>8, CutOnce
<1>10. /\ IsInjective(f) /\ IsInjective(e) /\ ToSet(f) \cap ToSet(e) = {}
       /\ ToSet(f) \cup ToSet(e) = ToSet(s)
  BY <1>9 DEF Parts
<1>11. Parts(e, t, ToSet(e) \cup ToSet(t))
  BY <1>1, <1>3, <1>10 DEF Parts
<1>12. /\ u \in Seq(C) /\ Len(u) = Len(e) + Len(t) /\ IsInjective(u)
       /\ ToSet(u) = ToSet(e) \cup ToSet(t)
  <2> DEFINE W == ToSet(e) \cup ToSet(t)
  <2>1. e \in Seq(C) /\ t \in Seq(C) /\ Joined(e, t, u)
    BY <1>1, <1>8, <1>9
  <2>2. Parts(e, t, W)
    BY <1>11
  <2> HIDE DEF W
  <2>3. u \in Seq(C) /\ Len(u) = Len(e) + Len(t) /\ IsInjective(u) /\ ToSet(u) = W
    BY <2>1, <2>2, JoinOnce
  <2> QED BY <2>3 DEF W
<1>13. Parts(u, f, ToSet(t) \cup ToSet(s))
  BY <1>3, <1>10, <1>12 DEF Parts
<1>14. u \in Seq(V \cup G) /\ f \in Seq(V \cup G) /\ Parts(u, f, ToSet(r[i + 1]) \cup ToSet(r[i]))
  BY <1>9, <1>12, <1>13 DEF C, s, t
<1>15. /\ g \in Nat /\ g \in Int /\ g <= Len(s) /\ d = Len(s) - g
  BY <1>2
<1>16. Len(t) \in Nat
  BY <1>1, LenProperties
<1> HIDE DEF g
<1>17. Len(u) = Len(t) + g /\ Len(f) = Len(s) - g
  BY <1>9, <1>12, <1>15, <1>16 DEF g
<1>18. /\ Len(u) = Len(r[i + 1]) + g /\ Len(f) = Len(r[i]) - g /\ g <= Len(r[i])
       /\ (g <= g \/ g = 0) /\ (g >= g \/ g = Len(r[i]))
  BY <1>15, <1>17 DEF s, t
<1>19. q \in Standings(V, G) /\ Gives(Lens(r), Lens(q), i, i + 1, g)
  BY <1>1, <1>7, <1>14, <1>15, <1>18, MovedAre
<1> QED BY <1>19 DEF g, s

\* How many stand in the rows up to each.
Ahead(r) == [k \in 0 .. MAX_TEAMROWS |-> Upto(r, k)]

\* Such a table: nothing comes before the first row, and no row is shorter than empty.
IsTable(p) ==
  /\ p \in [0 .. MAX_TEAMROWS -> Nat] /\ p[0] = 0
  /\ \A k \in Rows : p[k - 1] <= p[k]

LEMMA AheadIs ==
  ASSUME NEW V, NEW G, NEW r \in Standings(V, G)
  PROVE  /\ IsTable(Ahead(r))
         /\ \A k \in Rows : Ahead(r)[k] - Ahead(r)[k - 1] = Len(r[k])
<1> DEFINE R == MAX_TEAMROWS
           f == Lens(r)
           p == Ahead(r)
<1>1. Rows = 1 .. R /\ R \in Nat
  BY Constants
<1>2. ASSUME NEW i \in 1 .. R PROVE f[i] \in Int /\ f[i] >= 0 /\ f[i] = Len(r[i])
  <2>1. i \in Rows
    BY <1>1
  <2>2. Len(r[i]) \in Nat /\ f[i] = Len(r[i])
    BY <2>1, RowIs
  <2> QED BY <2>2
<1>3. \A k \in 0 .. R : p[k] = SumTo(f, k)
  BY DEF Ahead, Upto
<1>4. p = [k \in 0 .. R |-> p[k]]
  BY DEF Ahead
<1> HIDE DEF f, p
<1>5. SumTo(f, 0) = 0 /\ (\A k \in 0 .. R : SumTo(f, k) \in Int)
      /\ \A k \in 1 .. R : SumTo(f, k) = SumTo(f, k - 1) + f[k]
  BY <1>1, <1>2, SumToIs
<1>6. \A j, k \in 0 .. R : j <= k => 0 <= SumTo(f, j) /\ SumTo(f, j) <= SumTo(f, k)
  BY <1>1, <1>2, SumToGrows
<1>7. ASSUME NEW k \in 0 .. R PROVE p[k] \in Nat
  <2>1. SumTo(f, k) \in Int /\ 0 <= SumTo(f, k)
    <3>1. k <= k
      OBVIOUS
    <3> QED BY <1>5, <1>6, <3>1
  <2> QED BY <1>3, <2>1
<1>8. ASSUME NEW k \in 1 .. R PROVE p[k - 1] <= p[k] /\ p[k] - p[k - 1] = Len(r[k])
  <2>1. k \in 0 .. R /\ k - 1 \in 0 .. R
    BY <1>1
  <2>2. p[k] = p[k - 1] + f[k] /\ p[k] \in Nat /\ p[k - 1] \in Nat
    BY <1>3, <1>5, <1>7, <2>1
  <2> QED BY <1>2, <2>2
<1>9. p \in [0 .. R -> Nat]
  BY <1>4, <1>7
<1>10. p[0] = 0
  <2>1. 0 \in 0 .. R
    BY <1>1
  <2> QED BY <1>3, <1>5, <2>1
<1> QED BY <1>1, <1>8, <1>9, <1>10 DEF IsTable, p

\* What is ahead when row j gives to row i.
Shifts(p, q, j, i, d) ==
  \E g \in Nat : /\ g <= p[j] - p[j - 1] /\ (g <= d \/ g = 0) /\ (g >= d \/ g = p[j] - p[j - 1])
                 /\ \A k \in 0 .. MAX_TEAMROWS :
                      q[k] = p[k] + (IF i <= k /\ k < j THEN g ELSE 0)
                                  - (IF j <= k /\ k < i THEN g ELSE 0)

LEMMA GivesShifts ==
  ASSUME NEW V, NEW G, NEW r \in Standings(V, G), NEW s \in Standings(V, G),
         NEW i \in Rows, NEW j \in Rows, i # j, NEW d \in Int, Gives(Lens(r), Lens(s), j, i, d)
  PROVE  Shifts(Ahead(r), Ahead(s), j, i, d)
<1> DEFINE R == MAX_TEAMROWS
           a == Lens(r)
           b == Lens(s)
           p == Ahead(r)
           q == Ahead(s)
<1>1. Rows = 1 .. R /\ R \in Nat /\ i \in 1 .. R /\ j \in 1 .. R /\ i \in Nat /\ j \in Nat
  BY Constants
<1>2. PICK g \in Nat : /\ g <= a[j] /\ (g <= d \/ g = 0) /\ (g >= d \/ g = a[j])
                       /\ b[i] = a[i] + g /\ b[j] = a[j] - g
                       /\ \A k \in Rows : k \notin {i, j} => b[k] = a[k]
  BY DEF Gives
<1>3. ASSUME NEW k \in 1 .. R PROVE a[k] \in Int /\ b[k] \in Int /\ a[k] = Len(r[k])
  <2>1. k \in Rows
    BY <1>1
  <2>2. Len(r[k]) \in Nat /\ a[k] = Len(r[k])
    BY <2>1, RowIs
  <2>3. Len(s[k]) \in Nat /\ b[k] = Len(s[k])
    BY <2>1, RowIs
  <2> QED BY <2>2, <2>3
<1>4. \A k \in 0 .. R : p[k] = SumTo(a, k) /\ q[k] = SumTo(b, k)
  BY DEF Ahead, Upto
<1>5. a[j] = p[j] - p[j - 1]
  <2>1. p[j] - p[j - 1] = Len(r[j])
    BY AheadIs
  <2> QED BY <1>1, <1>3, <2>1
<1>6. \A k \in 0 .. R : p[k] \in Int
  <2>1. IsTable(p)
    BY AheadIs
  <2> HIDE DEF p
  <2>2. p \in [0 .. R -> Nat]
    BY <2>1 DEF IsTable
  <2> QED BY <2>2
<1> HIDE DEF a, b, p, q
<1>7. \A k \in 0 .. R : SumTo(b, k) = SumTo(a, k) + Share(i, k, g) - Share(j, k, g)
  <2>1. g \in Int
    OBVIOUS
  <2>2. Transfers(a, b, R, i, j, g)
    BY <1>1, <1>2 DEF Transfers
  <2>3. \A k \in 1 .. R : a[k] \in Int /\ b[k] \in Int
    BY <1>3
  <2>4. R \in Nat /\ i \in 1 .. R /\ j \in 1 .. R /\ i # j
    BY <1>1
  <2> HIDE DEF R
  <2> QED BY <2>1, <2>2, <2>3, <2>4, SumToMoved
<1>8. ASSUME NEW k \in 0 .. R
      PROVE  q[k] = p[k] + (IF i <= k /\ k < j THEN g ELSE 0) - (IF j <= k /\ k < i THEN g ELSE 0)
  <2>1. q[k] = p[k] + (IF i <= k THEN g ELSE 0) - (IF j <= k THEN g ELSE 0) /\ p[k] \in Int
    BY <1>4, <1>6, <1>7 DEF Share
  <2> QED BY <1>1, <2>1
<1>9. g <= p[j] - p[j - 1] /\ (g <= d \/ g = 0) /\ (g >= d \/ g = p[j] - p[j - 1])
  BY <1>2, <1>5
<1>10. Shifts(p, q, j, i, d)
  BY <1>8, <1>9 DEF Shifts
<1> QED BY <1>10 DEF p, q

-----------------------------------------------------------------------------
(* A row is filled up from others, one after the other.                    *)

\* From p to q row i has taken up to m from the rows behind it up to row j.
Behind(p, q, i, m, j) ==
  /\ \A k \in 0 .. MAX_TEAMROWS : k < i \/ k >= j => q[k] = p[k]
  /\ q[i] >= p[i]
  /\ q[i] = p[i] \/ q[i] - q[i - 1] <= m
  /\ q[i] - q[i - 1] >= m \/ q[i] = q[j]

LEMMA BehindStep ==
  ASSUME NEW p, NEW q, NEW r, IsTable(p), IsTable(q), IsTable(r),
         NEW i \in Rows, NEW j \in Rows, i < j, NEW m \in Int,
         Behind(p, q, i, m, j - 1), Shifts(q, r, j, i, m - (q[i] - q[i - 1]))
  PROVE  Behind(p, r, i, m, j)
<1> DEFINE R == MAX_TEAMROWS
           d == m - (q[i] - q[i - 1])
<1>1. /\ i \in 1 .. R /\ j \in 1 .. R /\ R \in Nat /\ i < j /\ m \in Int
      /\ i \in Int /\ j \in Int
  BY Constants
<1>2. \A k \in 0 .. R : p[k] \in Int /\ q[k] \in Int /\ r[k] \in Int
  BY DEF IsTable
<1>3. PICK g \in Nat : /\ g <= q[j] - q[j - 1] /\ (g <= d \/ g = 0) /\ (g >= d \/ g = q[j] - q[j - 1])
                       /\ \A k \in 0 .. R :
                            r[k] = q[k] + (IF i <= k /\ k < j THEN g ELSE 0)
                                        - (IF j <= k /\ k < i THEN g ELSE 0)
  BY DEF Shifts
<1>4. /\ \A k \in 0 .. R : k < i \/ k >= j - 1 => q[k] = p[k]
      /\ q[i] >= p[i]
      /\ q[i] = p[i] \/ q[i] - q[i - 1] <= m
      /\ q[i] - q[i - 1] >= m \/ q[i] = q[j - 1]
  BY DEF Behind
<1>5. d = m - (q[i] - q[i - 1])
  OBVIOUS
<1> HIDE DEF R, d
<1>6. ASSUME NEW k \in 0 .. R, k < i \/ k >= j PROVE r[k] = q[k] /\ r[k] = p[k]
  <2>1. k \in Int /\ (k < i \/ k >= j - 1)
    BY <1>1, <1>6
  <2>2. q[k] = p[k] /\ q[k] \in Int
    BY <1>2, <1>4, <2>1
  <2>3. r[k] = q[k] + 0 - 0
    BY <1>1, <1>3, <1>6, <2>1
  <2> QED BY <2>2, <2>3
<1>7. i \in 0 .. R /\ i - 1 \in 0 .. R /\ j \in 0 .. R /\ j - 1 \in 0 .. R
  BY <1>1
<1>8. r[i] = q[i] + g
  <2>1. r[i] = q[i] + g - 0
    BY <1>1, <1>3, <1>7
  <2> QED BY <1>2, <1>7, <2>1
<1>9. r[i - 1] = q[i - 1] /\ r[j] = q[j]
  BY <1>1, <1>6, <1>7
<1>10. /\ p[i] \in Int /\ q[i] \in Int /\ q[i - 1] \in Int /\ q[j] \in Int /\ q[j - 1] \in Int
  BY <1>2, <1>7
<1>11. r[i] >= p[i] /\ (r[i] = p[i] \/ r[i] - r[i - 1] <= m)
  BY <1>1, <1>3, <1>4, <1>5, <1>8, <1>9, <1>10
<1>12. r[i] - r[i - 1] >= m \/ r[i] = r[j]
  BY <1>1, <1>3, <1>4, <1>5, <1>8, <1>9, <1>10
<1> QED BY <1>6, <1>11, <1>12 DEF Behind, R

\* From p to q row i has taken up to m from the rows before it, down to row j.
Before(p, q, i, m, j) ==
  /\ \A k \in 0 .. MAX_TEAMROWS : k >= i \/ k < j => q[k] = p[k]
  /\ \A k \in Rows : k < i => q[k] - q[k - 1] <= p[k] - p[k - 1]
  /\ q[i - 1] = p[i - 1] \/ q[i] - q[i - 1] <= m
  /\ \A k \in 0 .. i - 1 : q[k] = p[k] \/ q[k] = q[i - 1]
  /\ q[i] - q[i - 1] >= m \/ q[i - 1] = q[j - 1]

\* Rows between which nobody is are empty.
LEMMA NoneBetween ==
  ASSUME NEW p, IsTable(p), NEW j \in 0 .. MAX_TEAMROWS, NEW i \in 0 .. MAX_TEAMROWS, p[i] = p[j]
  PROVE  \A k \in 0 .. MAX_TEAMROWS : j <= k /\ k <= i => p[k] = p[i]
<1> DEFINE R == MAX_TEAMROWS
           Up == {k \in 0 .. R : \A l \in 0 .. k : p[l] <= p[k]}
<1>1. R \in Nat /\ Rows = 1 .. R
  BY Constants
<1>2. (\A k \in 0 .. R : p[k] \in Int) /\ \A k \in 1 .. R : p[k - 1] <= p[k]
  BY <1>1 DEF IsTable
<1>3. 0 \in Up
  BY <1>1, <1>2
<1>4. ASSUME NEW k \in 1 .. R, k - 1 \in Up PROVE k \in Up
  <2>1. ASSUME NEW l \in 0 .. k PROVE p[l] <= p[k]
    <3>1. p[k - 1] <= p[k] /\ k \in 0 .. R /\ k - 1 \in 0 .. R /\ l \in 0 .. R /\ l \in Int /\ k \in Int
      BY <1>1, <1>2
    <3>2. p[k - 1] \in Int /\ p[k] \in Int /\ p[l] \in Int
      BY <1>2, <3>1
    <3>3. CASE l = k
      BY <3>2, <3>3
    <3>4. CASE l # k
      <4>1. l \in 0 .. k - 1
        BY <3>1, <3>4
      <4>2. p[l] <= p[k - 1]
        BY <1>4, <4>1
      <4> QED BY <3>1, <3>2, <4>2
    <3> QED BY <3>3, <3>4
  <2> QED BY <1>1, <2>1
<1>5. \A k \in 0 .. R : k \in Up
  <2> HIDE DEF Up
  <2> QED BY <1>1, <1>3, <1>4, Stepwise
<1>6. ASSUME NEW k \in 0 .. R, j <= k, k <= i PROVE p[k] = p[i]
  <2>1. j \in 0 .. k /\ k \in 0 .. i /\ j \in 0 .. R /\ i \in 0 .. R
    BY <1>1, <1>6
  <2>2. p[j] <= p[k] /\ p[k] <= p[i] /\ p[j] \in Int /\ p[k] \in Int
    BY <1>2, <1>5, <2>1
  <2>3. p[i] = p[j]
    OBVIOUS
  <2> QED BY <2>2, <2>3
<1> QED BY <1>6

LEMMA BeforeStep ==
  ASSUME NEW p, NEW q, NEW r, IsTable(p), IsTable(q), IsTable(r),
         NEW i \in Rows, NEW j \in Rows, j < i, NEW m \in Int,
         Before(p, q, i, m, j + 1), Shifts(q, r, j, i, m - (q[i] - q[i - 1]))
  PROVE  Before(p, r, i, m, j)
<1> DEFINE R == MAX_TEAMROWS
           d == m - (q[i] - q[i - 1])
<1>1. /\ i \in 1 .. R /\ j \in 1 .. R /\ R \in Nat /\ j < i /\ m \in Int
      /\ i \in Int /\ j \in Int
  BY Constants
<1>2. \A k \in 0 .. R : p[k] \in Int /\ q[k] \in Int /\ r[k] \in Int
  BY DEF IsTable
<1>3. PICK g \in Nat : /\ g <= q[j] - q[j - 1] /\ (g <= d \/ g = 0) /\ (g >= d \/ g = q[j] - q[j - 1])
                       /\ \A k \in 0 .. R :
                            r[k] = q[k] + (IF i <= k /\ k < j THEN g ELSE 0)
                                        - (IF j <= k /\ k < i THEN g ELSE 0)
  BY DEF Shifts
<1>4. /\ \A k \in 0 .. R : k >= i \/ k < j + 1 => q[k] = p[k]
      /\ \A k \in 1 .. R : k < i => q[k] - q[k - 1] <= p[k] - p[k - 1]
      /\ q[i - 1] = p[i - 1] \/ q[i] - q[i - 1] <= m
      /\ \A k \in 0 .. i - 1 : q[k] = p[k] \/ q[k] = q[i - 1]
      /\ q[i] - q[i - 1] >= m \/ q[i - 1] = q[j]
  <2>1. j + 1 - 1 = j
    BY <1>1
  <2> QED BY <2>1, Constants DEF Before
<1>5. d = m - (q[i] - q[i - 1])
  OBVIOUS
<1> HIDE DEF R, d
<1>6. ASSUME NEW k \in 0 .. R
      PROVE  /\ k >= i \/ k < j => r[k] = q[k] /\ r[k] = p[k]
             /\ j <= k /\ k < i => r[k] = q[k] - g
  <2>1. k \in Int /\ p[k] \in Int /\ q[k] \in Int /\ g \in Int
    BY <1>2
  <2>2. CASE k >= i \/ k < j
    <3>1. r[k] = q[k] + 0 - 0
      BY <1>1, <1>3, <2>1, <2>2
    <3>2. q[k] = p[k]
      BY <1>1, <1>4, <2>1, <2>2
    <3> QED BY <1>1, <2>1, <2>2, <3>1, <3>2
  <2>3. CASE j <= k /\ k < i
    <3>1. r[k] = q[k] + 0 - g
      BY <1>1, <1>3, <2>1, <2>3
    <3> QED BY <1>1, <2>1, <2>3, <3>1
  <2> QED BY <1>1, <2>1, <2>2, <2>3
<1>7. i \in 0 .. R /\ i - 1 \in 0 .. R /\ j \in 0 .. R /\ j - 1 \in 0 .. R
  BY <1>1
<1>8. r[i] = q[i] /\ r[i] = p[i] /\ r[i - 1] = q[i - 1] - g /\ r[j - 1] = q[j - 1] /\ r[j] = q[j] - g
  BY <1>1, <1>6, <1>7
<1>9. /\ p[i] \in Int /\ q[i] \in Int /\ q[i - 1] \in Int /\ q[j] \in Int /\ q[j - 1] \in Int
      /\ p[i - 1] \in Int
  BY <1>2, <1>7
<1>10. \A k \in 0 .. R : k >= i \/ k < j => r[k] = p[k]
  BY <1>6
<1>11. ASSUME NEW k \in 1 .. R, k < i PROVE r[k] - r[k - 1] <= p[k] - p[k - 1]
  <2>1. /\ k \in 0 .. R /\ k - 1 \in 0 .. R /\ k \in Int
    BY <1>1
  <2>2. /\ p[k] \in Int /\ q[k] \in Int /\ p[k - 1] \in Int /\ q[k - 1] \in Int
        /\ q[k] - q[k - 1] <= p[k] - p[k - 1]
    BY <1>2, <1>4, <1>11, <2>1
  <2>3. CASE k < j
    <3>1. r[k] = q[k] /\ r[k - 1] = q[k - 1]
      BY <1>1, <1>6, <2>1, <2>3
    <3> QED BY <2>2, <3>1
  <2>4. CASE k = j
    <3>1. r[k] = q[k] - g /\ r[k - 1] = q[k - 1]
      BY <1>8, <2>4
    <3> QED BY <2>2, <3>1
  <2>5. CASE k > j
    <3>1. r[k] = q[k] - g /\ r[k - 1] = q[k - 1] - g
      <4>1. j <= k /\ k < i /\ j <= k - 1 /\ k - 1 < i
        BY <1>1, <1>11, <2>1, <2>5
      <4> QED BY <1>6, <2>1, <4>1
    <3> QED BY <2>2, <3>1
  <2> QED BY <1>1, <2>1, <2>3, <2>4, <2>5
<1>12. r[i - 1] = p[i - 1] \/ r[i] - r[i - 1] <= m
  BY <1>1, <1>3, <1>4, <1>5, <1>8, <1>9
<1>13. r[i] - r[i - 1] >= m \/ r[i - 1] = r[j - 1]
  BY <1>1, <1>3, <1>4, <1>5, <1>8, <1>9
<1>14. ASSUME NEW k \in 0 .. i - 1 PROVE r[k] = p[k] \/ r[k] = r[i - 1]
  <2>1. k \in 0 .. R /\ k \in Int /\ k < i
    BY <1>1
  <2>2. p[k] \in Int /\ q[k] \in Int /\ (q[k] = p[k] \/ q[k] = q[i - 1])
    BY <1>2, <1>4, <2>1
  <2>3. CASE k < j
    BY <1>6, <2>1, <2>3
  <2>4. CASE k >= j /\ g = 0
    <3>1. r[k] = q[k] /\ r[i - 1] = q[i - 1]
      BY <1>1, <1>6, <1>8, <1>9, <2>1, <2>2, <2>4
    <3> QED BY <2>2, <3>1
  <2>5. CASE k >= j /\ g # 0
    <3>1. q[i - 1] = q[j]
      BY <1>1, <1>3, <1>4, <1>5, <1>9, <2>5
    <3>2. q[k] = q[i - 1]
      <4>1. j <= k /\ k <= i - 1
        BY <1>1, <2>1, <2>5
      <4> QED BY <1>7, <2>1, <3>1, <4>1, NoneBetween DEF R
    <3>3. r[k] = q[k] - g
      BY <1>1, <1>6, <2>1, <2>5
    <3> QED BY <1>8, <3>2, <3>3
  <2> QED BY <1>1, <2>1, <2>3, <2>4, <2>5
<1>15. \A k \in Rows : k < i => r[k] - r[k - 1] <= p[k] - p[k - 1]
  BY <1>11, Constants DEF R
<1> HIDE DEF Before
<1>16. Before(p, r, i, m, j)
  BY <1>10, <1>12, <1>13, <1>14, <1>15 DEF Before, R
<1> QED BY <1>16

-----------------------------------------------------------------------------
(* The folds of the formation, row by row.                                 *)

\* x is how row i is filled up from the rows js.
Filling(x, V, G, i, m, js) ==
  /\ \A k \in 0 .. Len(js) : x[k] \in Standings(V, G)
  /\ \A k \in 1 .. Len(js) : x[k] = Give(x[k - 1], js[k], i, m - Len(x[k - 1][i]))

LEMMA FillUpIs ==
  ASSUME NEW V, NEW G, NEW r \in Standings(V, G), NEW i \in Rows, NEW min, min[i] \in Int,
         NEW js \in Seq(Rows \ {i})
  PROVE  \E x : /\ Filling(x, V, G, i, min[i], js)
                /\ x[0] = r /\ x[Len(js)] = FillUp(r, min, i, js)
<1> DEFINE n == Len(js)
           T == Standings(V, G)
           C == Rows \ {i}
           Step(a, j) == Give(a, j, i, min[i] - Len(a[i]))
           g == [y \in T \X C |-> Step(y[1], y[2])]
           F(h) == [S \in SUBSET DOMAIN js |->
                      IF S = {} THEN r ELSE Step(h[S \ {Max(S)}], js[Max(S)])]
           z == CHOOSE h : h = F(h)
<1>1. n \in Nat /\ DOMAIN js = 1 .. n /\ (\A k \in 1 .. n : js[k] \in C) /\ js \in Seq(C)
  BY LenProperties
<1>2. ASSUME NEW a \in T, NEW j \in C PROVE Step(a, j) \in T
  <2> DEFINE d == min[i] - Len(a[i])
  <2>1. Len(a[i]) \in Int
    BY RowIs
  <2>2. d \in Int /\ j \in Rows /\ i # j
    BY <2>1
  <2> HIDE DEF d
  <2>3. Give(a, j, i, d) \in Standings(V, G)
    BY <2>2, GiveIs
  <2> QED BY <2>3 DEF d
<1>3. r \in T
  OBVIOUS
<1>4. FillUp(r, min, i, js) = z[DOMAIN js]
  BY DEF FillUp, FoldLeft, MapThenFoldSet
<1>5. \A a, j : Step(a, j) = Give(a, j, i, min[i] - Len(a[i]))
  OBVIOUS
<1> HIDE DEF T, C, Step, n
<1>6. PICK h : Folds(h, T, r, g, js)
  <2>1. g \in [T \X C -> T]
    BY <1>2
  <2> HIDE DEF g
  <2> QED BY <1>1, <1>3, <2>1, FoldExists
<1>7. h = F(h)
  <2>1. ASSUME NEW S \in SUBSET DOMAIN js, S # {}
        PROVE  g[<<h[S \ {Max(S)}], js[Max(S)]>>] = Step(h[S \ {Max(S)}], js[Max(S)])
    <3>1. Max(S) \in DOMAIN js
      BY <1>1, <2>1, MaxOfPositions
    <3>2. h[S \ {Max(S)}] \in T /\ js[Max(S)] \in C
      BY <1>1, <1>6, <3>1 DEF Folds
    <3> QED BY <3>2
  <2> HIDE DEF g
  <2> QED BY <1>6, <2>1 DEF Folds
<1>8. z = F(z)
  <2> HIDE DEF F
  <2> QED BY <1>7
<1> HIDE DEF z
<1> DEFINE x == [k \in 0 .. n |-> z[1 .. k]]
<1>9. x[0] = r
  <2>1. 1 .. 0 = {} /\ 0 \in 0 .. n
    BY <1>1
  <2> QED BY <1>8, <2>1
<1>10. ASSUME NEW k \in 1 .. n PROVE x[k] = Step(x[k - 1], js[k])
  <2>1. /\ 1 .. k # {} /\ 1 .. k \in SUBSET (1 .. n)
        /\ Max(1 .. k) = k /\ (1 .. k) \ {k} = 1 .. (k - 1)
    BY <1>1, MaxOfUpTo
  <2>2. k \in 0 .. n /\ k - 1 \in 0 .. n
    BY <1>1
  <2>3. z[1 .. k] = Step(z[1 .. (k - 1)], js[k])
    BY <1>1, <1>8, <2>1
  <2> QED BY <2>2, <2>3
<1>11. x[n] = FillUp(r, min, i, js)
  BY <1>1, <1>4
<1> HIDE DEF x
<1>12. \A k \in 0 .. n : x[k] \in T
  <2>1. \A k \in 1 .. n : x[k - 1] \in T => x[k] \in T
    BY <1>1, <1>2, <1>10
  <2> QED BY <1>1, <1>3, <1>9, <2>1, StaysIn
<1>13. Filling(x, V, G, i, min[i], js)
  BY <1>5, <1>10, <1>12 DEF Filling, T, n
<1> QED BY <1>9, <1>11, <1>13 DEF n

\* What is ahead in each state of it.
LEMMA FillingShifts ==
  ASSUME NEW V, NEW G, NEW i \in Rows, NEW m \in Int, NEW js \in Seq(Rows \ {i}),
         NEW x, Filling(x, V, G, i, m, js), NEW k \in 1 .. Len(js),
         NEW p, p = Ahead(x[k - 1]), NEW q, q = Ahead(x[k])
  PROVE  IsTable(p) /\ IsTable(q) /\ Shifts(p, q, js[k], i, m - (p[i] - p[i - 1]))
<1> DEFINE a == x[k - 1]
           b == x[k]
           j == js[k]
           d == m - Len(a[i])
<1>1. Len(js) \in Nat /\ DOMAIN js = 1 .. Len(js)
  BY LenProperties
<1>2. j \in Rows /\ i # j
  BY <1>1
<1>3. a \in Standings(V, G) /\ b \in Standings(V, G) /\ b = Give(a, j, i, d)
  BY <1>1 DEF Filling
<1>4. p = Ahead(a) /\ q = Ahead(b)
  OBVIOUS
<1> HIDE DEF a, b, j
<1>5. Len(a[i]) \in Int
  BY <1>3, RowIs
<1>6. d \in Int
  BY <1>5
<1>7. d = m - (p[i] - p[i - 1])
  <2>1. p[i] - p[i - 1] = Len(a[i])
    BY <1>3, <1>4, AheadIs
  <2> QED BY <2>1
<1> HIDE DEF d
<1>8. Gives(Lens(a), Lens(b), j, i, d)
  BY <1>2, <1>3, <1>6, GiveIs
<1>9. IsTable(p) /\ IsTable(q)
  BY <1>3, <1>4, AheadIs
<1>10. Shifts(p, q, j, i, d)
  BY <1>2, <1>3, <1>4, <1>6, <1>8, GivesShifts
<1> QED BY <1>7, <1>9, <1>10 DEF j

\* Rows behind i in their order, and rows before i from i back.
LEMMA RowsBehind ==
  ASSUME NEW i \in Rows, NEW js, js = SubSeq(Upwards, i + 1, MAX_TEAMROWS)
  PROVE  /\ js \in Seq(Rows \ {i}) /\ Len(js) = MAX_TEAMROWS - i
         /\ \A k \in 1 .. Len(js) : js[k] = i + k
<1> DEFINE R == MAX_TEAMROWS
           u == Upwards
<1>1. Rows = 1 .. R /\ R \in Nat /\ i \in 1 .. R /\ i \in Int
  BY Constants
<1>2. u \in Seq(Rows) /\ Len(u) = R /\ \A k \in 1 .. R : u[k] = k
  <2>1. u \in [1 .. R -> Rows] /\ \A k \in 1 .. R : u[k] = k
    BY <1>1 DEF Upwards
  <2>2. u \in Seq(Rows) /\ DOMAIN u = 1 .. R
    BY <1>1, <2>1
  <2> HIDE DEF u
  <2> QED BY <1>1, <2>1, <2>2, LenProperties
<1>3. js = SubSeq(u, i + 1, Len(u)) /\ i \in 0 .. Len(u)
  BY <1>1, <1>2
<1> HIDE DEF u, R
<1>4. /\ js \in Seq(Rows) /\ Len(js) = Len(u) - i
      /\ \A k \in 1 .. Len(u) - i : js[k] = u[i + k]
  <2> DEFINE v == SubSeq(u, i + 1, Len(u))
  <2>1. /\ v \in Seq(Rows) /\ Len(v) = Len(u) - i
        /\ \A k \in 1 .. Len(u) - i : v[k] = u[i + k]
    BY <1>2, <1>3, CutIs
  <2>2. js = v
    BY <1>3
  <2> HIDE DEF v
  <2> QED BY <2>1, <2>2
<1>5. Len(js) = R - i /\ \A k \in 1 .. R - i : js[k] = i + k
  <2>1. \A k \in 1 .. R - i : i + k \in 1 .. R
    BY <1>1
  <2> QED BY <1>2, <1>4, <2>1
<1>6. \A k \in 1 .. R - i : js[k] \in Rows \ {i}
  <2>1. \A k \in 1 .. R - i : i + k \in 1 .. R /\ i + k # i
    BY <1>1
  <2> QED BY <1>1, <1>5, <2>1
<1>7. js \in [1 .. R - i -> Rows \ {i}]
  <2>1. DOMAIN js = 1 .. R - i /\ js = [k \in DOMAIN js |-> js[k]]
    BY <1>4, <1>5, LenProperties
  <2> QED BY <1>6, <2>1
<1>8. js \in Seq(Rows \ {i})
  <2> DEFINE n == R - i
             S == Rows \ {i}
  <2>1. n \in Nat /\ js \in [1 .. n -> S]
    BY <1>1, <1>7
  <2> HIDE DEF n, S
  <2>2. js \in Seq(S)
    BY <2>1, IsSequence, Zenon
  <2> QED BY <2>2 DEF S
<1> QED BY <1>5, <1>8 DEF R

LEMMA RowsBefore ==
  ASSUME NEW i \in Rows, NEW js, js = Reverse(SubSeq(Upwards, 1, i - 1))
  PROVE  /\ js \in Seq(Rows \ {i}) /\ Len(js) = i - 1
         /\ \A k \in 1 .. Len(js) : js[k] = i - k
<1> DEFINE R == MAX_TEAMROWS
           u == Upwards
           v == SubSeq(u, 1, i - 1)
<1>1. Rows = 1 .. R /\ R \in Nat /\ i \in 1 .. R /\ i \in Int
  BY Constants
<1>2. u \in Seq(Rows) /\ Len(u) = R /\ \A k \in 1 .. R : u[k] = k
  <2>1. u \in [1 .. R -> Rows] /\ \A k \in 1 .. R : u[k] = k
    BY <1>1 DEF Upwards
  <2>2. u \in Seq(Rows) /\ DOMAIN u = 1 .. R
    BY <1>1, <2>1
  <2> HIDE DEF u
  <2> QED BY <1>1, <2>1, <2>2, LenProperties
<1>3. i - 1 \in 0 .. Len(u)
  BY <1>1, <1>2
<1>4. js = Reverse(v)
  OBVIOUS
<1> HIDE DEF u, R
<1>5. Len(v) = i - 1 /\ \A k \in 1 .. i - 1 : v[k] = u[k]
  BY <1>2, <1>3, CutIs
<1>6. \A k \in 1 .. i - 1 : v[k] = k
  <2>1. \A k \in 1 .. i - 1 : k \in 1 .. R
    BY <1>1
  <2> QED BY <1>2, <1>5, <2>1
<1> HIDE DEF v
<1>7. js = [k \in 1 .. i - 1 |-> v[(i - 1 - k) + 1]]
  BY <1>4, <1>5 DEF Reverse
<1>8. \A k \in 1 .. i - 1 : js[k] = i - k
  <2>1. \A k \in 1 .. i - 1 : (i - 1 - k) + 1 \in 1 .. i - 1 /\ (i - 1 - k) + 1 = i - k
    BY <1>1
  <2> QED BY <1>6, <1>7, <2>1
<1>9. js \in [1 .. i - 1 -> Rows \ {i}]
  <2>1. \A k \in 1 .. i - 1 : i - k \in 1 .. R /\ i - k # i
    BY <1>1
  <2> QED BY <1>1, <1>7, <1>8, <2>1
<1>10. js \in Seq(Rows \ {i}) /\ Len(js) = i - 1
  <2> DEFINE n == i - 1
             S == Rows \ {i}
  <2>1. n \in Nat /\ js \in [1 .. n -> S]
    BY <1>1, <1>9
  <2> HIDE DEF n, S
  <2>2. js \in Seq(S) /\ DOMAIN js = 1 .. n
    BY <2>1
  <2>3. Len(js) = n
    BY <2>1, <2>2, LenProperties
  <2> QED BY <2>2, <2>3 DEF n, S
<1> QED BY <1>8, <1>10

LEMMA FilledFromBehind ==
  ASSUME NEW V, NEW G, NEW r \in Standings(V, G), NEW i \in Rows, NEW min, min[i] \in Int,
         NEW q, q = FillUp(r, min, i, SubSeq(Upwards, i + 1, MAX_TEAMROWS))
  PROVE  q \in Standings(V, G) /\ Behind(Ahead(r), Ahead(q), i, min[i], MAX_TEAMROWS)
<1> DEFINE R == MAX_TEAMROWS
           js == SubSeq(Upwards, i + 1, R)
           n == R - i
           m == min[i]
<1>1. R \in Nat /\ i \in 1 .. R /\ Rows = 1 .. R /\ i \in Int /\ n \in Nat
  BY Constants
<1>2. js \in Seq(Rows \ {i}) /\ Len(js) = n /\ \A k \in 1 .. Len(js) : js[k] = i + k
  BY RowsBehind
<1>3. q = FillUp(r, min, i, js) /\ m \in Int
  OBVIOUS
<1> HIDE DEF js
<1>4. PICK x : /\ Filling(x, V, G, i, m, js) /\ x[0] = r /\ x[Len(js)] = FillUp(r, min, i, js)
  BY <1>2, FillUpIs
<1> HIDE DEF m
<1> DEFINE Q == {k \in 0 .. n : Behind(Ahead(r), Ahead(x[k]), i, m, i + k)}
<1>5. \A k \in 0 .. n : x[k] \in Standings(V, G)
  BY <1>2, <1>4 DEF Filling
<1>6. 0 \in Q
  <2> DEFINE p == Ahead(r)
  <2>1. IsTable(p)
    BY AheadIs
  <2> HIDE DEF p
  <2>2. \A k \in 0 .. R : p[k] \in Int
    BY <2>1 DEF IsTable
  <2>3. Behind(p, p, i, m, i)
    BY <1>1, <2>2 DEF Behind
  <2>4. i + 0 = i /\ 0 \in 0 .. n
    BY <1>1
  <2> QED BY <1>4, <2>3, <2>4 DEF p
<1>7. ASSUME NEW k \in 1 .. n, k - 1 \in Q PROVE k \in Q
  <2> DEFINE p == Ahead(r)
             a == Ahead(x[k - 1])
             b == Ahead(x[k])
             j == js[k]
  <2>1. j = i + k /\ j \in Rows /\ i < j /\ i + (k - 1) = j - 1
    BY <1>1, <1>2
  <2>2. IsTable(a) /\ IsTable(b) /\ Shifts(a, b, js[k], i, m - (a[i] - a[i - 1]))
    BY <1>2, <1>3, <1>4, FillingShifts
  <2>3. IsTable(p)
    BY AheadIs
  <2>4. Behind(p, a, i, m, j - 1)
    BY <1>7, <2>1
  <2>5. Shifts(a, b, j, i, m - (a[i] - a[i - 1]))
    BY <2>2
  <2> HIDE DEF p, a, b, j
  <2>6. Behind(p, b, i, m, j)
    BY <1>3, <2>1, <2>2, <2>3, <2>4, <2>5, BehindStep
  <2> QED BY <2>1, <2>6 DEF p, b
<1>8. \A k \in 0 .. n : k \in Q
  <2> HIDE DEF Q, n
  <2> QED BY <1>1, <1>6, <1>7, Stepwise
<1>9. n \in 0 .. n /\ i + n = R
  BY <1>1
<1>10. Behind(Ahead(r), Ahead(x[n]), i, m, R)
  BY <1>8, <1>9
<1> QED BY <1>2, <1>3, <1>4, <1>5, <1>9, <1>10 DEF m

LEMMA FilledFromBefore ==
  ASSUME NEW V, NEW G, NEW r \in Standings(V, G), NEW i \in Rows, NEW min, min[i] \in Int,
         NEW q, q = FillUp(r, min, i, Reverse(SubSeq(Upwards, 1, i - 1)))
  PROVE  q \in Standings(V, G) /\ Before(Ahead(r), Ahead(q), i, min[i], 1)
<1> DEFINE R == MAX_TEAMROWS
           js == Reverse(SubSeq(Upwards, 1, i - 1))
           n == i - 1
           m == min[i]
<1>1. R \in Nat /\ i \in 1 .. R /\ Rows = 1 .. R /\ i \in Int /\ n \in Nat
  BY Constants
<1>2. js \in Seq(Rows \ {i}) /\ Len(js) = n /\ \A k \in 1 .. Len(js) : js[k] = i - k
  BY RowsBefore
<1>3. q = FillUp(r, min, i, js) /\ m \in Int
  OBVIOUS
<1> HIDE DEF js
<1>4. PICK x : /\ Filling(x, V, G, i, m, js) /\ x[0] = r /\ x[Len(js)] = FillUp(r, min, i, js)
  BY <1>2, FillUpIs
<1> HIDE DEF m
<1> DEFINE Q == {k \in 0 .. n : Before(Ahead(r), Ahead(x[k]), i, m, i - k)}
<1>5. \A k \in 0 .. n : x[k] \in Standings(V, G)
  BY <1>2, <1>4 DEF Filling
<1>6. 0 \in Q
  <2> DEFINE p == Ahead(r)
  <2>1. IsTable(p)
    BY AheadIs
  <2> HIDE DEF p
  <2>2. \A k \in 0 .. R : p[k] \in Int
    BY <2>1 DEF IsTable
  <2>3. Before(p, p, i, m, i)
    <3>1. \A k \in Rows : p[k] - p[k - 1] <= p[k] - p[k - 1]
      BY <1>1, <2>2
    <3> QED BY <1>1, <2>2, <3>1 DEF Before
  <2>4. i - 0 = i /\ 0 \in 0 .. n
    BY <1>1
  <2> QED BY <1>4, <2>3, <2>4 DEF p
<1>7. ASSUME NEW k \in 1 .. n, k - 1 \in Q PROVE k \in Q
  <2> DEFINE p == Ahead(r)
             a == Ahead(x[k - 1])
             b == Ahead(x[k])
             j == js[k]
  <2>1. j = i - k /\ j \in Rows /\ j < i /\ i - (k - 1) = j + 1
    BY <1>1, <1>2
  <2>2. IsTable(a) /\ IsTable(b) /\ Shifts(a, b, js[k], i, m - (a[i] - a[i - 1]))
    BY <1>2, <1>3, <1>4, FillingShifts
  <2>3. IsTable(p)
    BY AheadIs
  <2>4. Before(p, a, i, m, j + 1)
    BY <1>7, <2>1
  <2>5. Shifts(a, b, j, i, m - (a[i] - a[i - 1]))
    BY <2>2
  <2> HIDE DEF p, a, b, j
  <2>6. Before(p, b, i, m, j)
    BY <1>3, <2>1, <2>2, <2>3, <2>4, <2>5, BeforeStep
  <2> QED BY <2>1, <2>6 DEF p, b
<1>8. \A k \in 0 .. n : k \in Q
  <2> HIDE DEF Q, n
  <2> QED BY <1>1, <1>6, <1>7, Stepwise
<1>9. n \in 0 .. n /\ i - n = 1
  BY <1>1
<1>10. Before(Ahead(r), Ahead(x[n]), i, m, 1)
  BY <1>8, <1>9
<1> QED BY <1>2, <1>3, <1>4, <1>5, <1>9, <1>10 DEF m

-----------------------------------------------------------------------------
(* There.                                                                  *)

\* The lengths and their sums.
LEMMA FormIs ==
  ASSUME NEW f \in Forms
  PROVE  /\ \A k \in Rows : /\ f.min[k] \in Int /\ f.max[k] \in Int
                            /\ 0 <= f.min[k] /\ f.min[k] <= f.max[k]
         /\ SumTo(f.min, 0) = 0 /\ SumTo(f.max, 0) = 0
         /\ \A k \in 0 .. MAX_TEAMROWS : SumTo(f.min, k) \in Int /\ SumTo(f.max, k) \in Int
         /\ \A k \in Rows : /\ SumTo(f.min, k) = SumTo(f.min, k - 1) + f.min[k]
                            /\ SumTo(f.max, k) = SumTo(f.max, k - 1) + f.max[k]
         /\ \A j, k \in 0 .. MAX_TEAMROWS : j <= k => SumTo(f.min, j) <= SumTo(f.min, k)
<1> DEFINE R == MAX_TEAMROWS
           a == f.min
           b == f.max
<1>1. Rows = 1 .. R /\ R \in Nat
  BY Constants
<1>2. \A k \in 1 .. R : a[k] \in Int /\ b[k] \in Int /\ 0 <= a[k] /\ a[k] <= b[k]
  BY <1>1 DEF Forms, Wishes
<1> HIDE DEF R, a, b
<1>3. /\ SumTo(a, 0) = 0
      /\ \A k \in 0 .. R : SumTo(a, k) \in Int
      /\ \A k \in 1 .. R : SumTo(a, k) = SumTo(a, k - 1) + a[k]
  BY <1>1, <1>2, SumToIs
<1>4. /\ SumTo(b, 0) = 0
      /\ \A k \in 0 .. R : SumTo(b, k) \in Int
      /\ \A k \in 1 .. R : SumTo(b, k) = SumTo(b, k - 1) + b[k]
  BY <1>1, <1>2, SumToIs
<1>5. \A j, k \in 0 .. R : j <= k => 0 <= SumTo(a, j) /\ SumTo(a, j) <= SumTo(a, k)
  <2>1. \A k \in 1 .. R : a[k] \in Int /\ a[k] >= 0
    BY <1>2
  <2> QED BY <1>1, <2>1, SumToGrows
<1> QED BY <1>1, <1>2, <1>3, <1>4, <1>5 DEF R, a, b

\* Up to row i there are enough for the minima, and no row is too long unless it
\* is the last one; and there are enough for all minima.
Advanced(f, p, i) ==
  /\ \A k \in 0 .. i : SumTo(f.min, k) <= p[k]
  /\ \A k \in 1 .. i : k < MAX_TEAMROWS => p[k] - p[k - 1] <= f.max[k]
  /\ SumTo(f.min, MAX_TEAMROWS) <= p[MAX_TEAMROWS]

\* A row that is full stays.
LEMMA AdvancedStays ==
  ASSUME NEW f \in Forms, NEW p, IsTable(p), NEW i \in Rows, Advanced(f, p, i - 1),
         SumTo(f.min, i) <= p[i], i = MAX_TEAMROWS \/ p[i] - p[i - 1] <= f.max[i]
  PROVE  Advanced(f, p, i)
<1>1. MAX_TEAMROWS \in Nat /\ i \in 1 .. MAX_TEAMROWS /\ i \in Int
  BY Constants
<1>2. \A k \in 0 .. i : k = i \/ k \in 0 .. i - 1
  BY <1>1
<1>3. \A k \in 1 .. i : k = i \/ k \in 1 .. i - 1
  BY <1>1
<1>4. SumTo(f.min, i) <= p[i] /\ (i = MAX_TEAMROWS \/ p[i] - p[i - 1] <= f.max[i])
  OBVIOUS
<1>5. \A k \in 0 .. i : SumTo(f.min, k) <= p[k]
  BY <1>2, <1>4 DEF Advanced
<1>6. \A k \in 1 .. i : k < MAX_TEAMROWS => p[k] - p[k - 1] <= f.max[k]
  BY <1>1, <1>3, <1>4 DEF Advanced
<1> QED BY <1>5, <1>6 DEF Advanced

\* A row that is too long gives to the one before.
LEMMA AdvancedBack ==
  ASSUME NEW f \in Forms, NEW p, NEW q, IsTable(p), IsTable(q), NEW i \in Rows, NEW j \in Rows, i = j + 1,
         Advanced(f, p, j), p[i] - p[j] > f.max[i],
         Shifts(p, q, i, j, f.max[j] - (p[j] - p[j - 1]))
  PROVE  Advanced(f, q, j) /\ SumTo(f.min, i) <= q[i]
<1> DEFINE R == MAX_TEAMROWS
           M(k) == SumTo(f.min, k)
           d == f.max[j] - (p[j] - p[j - 1])
<1>1. R \in Nat /\ i \in 1 .. R /\ j \in 1 .. R /\ i \in Int /\ j \in Int /\ Rows = 1 .. R /\ i = j + 1
  BY Constants
<1>2. \A k \in 0 .. R : p[k] \in Int /\ q[k] \in Int
  BY DEF IsTable
<1>3. PICK g \in Nat : /\ g <= p[i] - p[i - 1] /\ (g <= d \/ g = 0) /\ (g >= d \/ g = p[i] - p[i - 1])
                       /\ \A k \in 0 .. R :
                            q[k] = p[k] + (IF j <= k /\ k < i THEN g ELSE 0)
                                        - (IF i <= k /\ k < j THEN g ELSE 0)
  BY DEF Shifts
<1>4. /\ \A k \in 1 .. R : f.min[k] \in Int /\ f.max[k] \in Int /\ f.min[k] <= f.max[k]
      /\ \A k \in 0 .. R : M(k) \in Int
      /\ \A k \in 1 .. R : M(k) = M(k - 1) + f.min[k]
  BY <1>1, FormIs
<1>5. /\ \A k \in 0 .. j : M(k) <= p[k]
      /\ \A k \in 1 .. j : k < R => p[k] - p[k - 1] <= f.max[k]
      /\ M(R) <= p[R]
  BY DEF Advanced
<1>6. d = f.max[j] - (p[j] - p[j - 1]) /\ p[i] - p[j] > f.max[i]
  OBVIOUS
<1> HIDE DEF R, M, d
<1>7. ASSUME NEW k \in 0 .. R PROVE (k # j => q[k] = p[k]) /\ (k = j => q[k] = p[k] + g)
  <2>1. k \in Int /\ p[k] \in Int
    BY <1>2
  <2>2. CASE k # j
    <3>1. q[k] = p[k] + 0 - 0
      BY <1>1, <1>3, <2>1, <2>2
    <3> QED BY <2>1, <2>2, <3>1
  <2>3. CASE k = j
    <3>1. q[k] = p[k] + g - 0
      BY <1>1, <1>3, <2>1, <2>3
    <3> QED BY <2>1, <2>3, <3>1
  <2> QED BY <2>2, <2>3
<1>8. i \in 0 .. R /\ j \in 0 .. R /\ j - 1 \in 0 .. R /\ j # i /\ j - 1 # j /\ R \in 0 .. R /\ R # j /\ i - 1 = j /\ j < R
  BY <1>1
<1>9. /\ q[i] = p[i] /\ q[j] = p[j] + g /\ q[j - 1] = p[j - 1] /\ q[R] = p[R]
      /\ p[i] \in Int /\ p[j] \in Int /\ p[j - 1] \in Int /\ M(i) \in Int /\ M(j) \in Int
      /\ M(i) = M(j) + f.min[i] /\ f.min[i] \in Int /\ f.max[i] \in Int /\ f.max[j] \in Int
      /\ f.min[i] <= f.max[i]
  BY <1>1, <1>2, <1>4, <1>7, <1>8
<1>10. M(i) <= q[i]
  <2>1. M(j) <= p[j]
    BY <1>1, <1>5
  <2> QED BY <1>6, <1>9, <2>1
<1>11. q[j] - q[j - 1] <= f.max[j]
  <2>1. p[j] - p[j - 1] <= f.max[j]
    BY <1>1, <1>5, <1>8
  <2> QED BY <1>3, <1>6, <1>9, <2>1
<1>12. ASSUME NEW k \in 0 .. j PROVE M(k) <= q[k]
  <2>1. k \in 0 .. R /\ M(k) <= p[k]
    BY <1>1, <1>5
  <2>2. p[k] \in Int /\ M(k) \in Int /\ (q[k] = p[k] \/ q[k] = p[k] + g)
    BY <1>2, <1>4, <1>7, <2>1
  <2> QED BY <2>1, <2>2
<1>13. ASSUME NEW k \in 1 .. j, k < R PROVE q[k] - q[k - 1] <= f.max[k]
  <2>1. CASE k = j
    BY <1>11, <2>1
  <2>2. CASE k # j
    <3>1. k \in 0 .. R /\ k - 1 \in 0 .. R /\ k - 1 # j
      BY <1>1, <2>2
    <3>2. q[k] = p[k] /\ q[k - 1] = p[k - 1]
      BY <1>7, <2>2, <3>1
    <3> QED BY <1>5, <1>13, <3>2
  <2> QED BY <2>1, <2>2
<1>14. M(R) <= q[R]
  BY <1>5, <1>9
<1> QED BY <1>10, <1>12, <1>13, <1>14 DEF Advanced, R, M

\* It gives the rest to the one behind.
LEMMA AdvancedOn ==
  ASSUME NEW f \in Forms, NEW p, NEW q, IsTable(p), IsTable(q), NEW i \in Rows, NEW j \in Rows, j = i + 1,
         Advanced(f, p, i - 1), p[i] - p[i - 1] > f.max[i],
         Shifts(p, q, i, j, p[i] - p[i - 1] - f.max[i])
  PROVE  Advanced(f, q, i)
<1> DEFINE R == MAX_TEAMROWS
           M(k) == SumTo(f.min, k)
           d == p[i] - p[i - 1] - f.max[i]
<1>1. R \in Nat /\ i \in 1 .. R /\ j \in 1 .. R /\ i \in Int /\ j \in Int /\ Rows = 1 .. R /\ j = i + 1
  BY Constants
<1>2. \A k \in 0 .. R : p[k] \in Int /\ q[k] \in Int
  BY DEF IsTable
<1>3. PICK g \in Nat : /\ g <= p[i] - p[i - 1] /\ (g <= d \/ g = 0) /\ (g >= d \/ g = p[i] - p[i - 1])
                       /\ \A k \in 0 .. R :
                            q[k] = p[k] + (IF j <= k /\ k < i THEN g ELSE 0)
                                        - (IF i <= k /\ k < j THEN g ELSE 0)
  BY DEF Shifts
<1>4. /\ \A k \in 1 .. R : f.min[k] \in Int /\ f.max[k] \in Int /\ f.min[k] <= f.max[k] /\ 0 <= f.min[k]
      /\ \A k \in 0 .. R : M(k) \in Int
      /\ \A k \in 1 .. R : M(k) = M(k - 1) + f.min[k]
  BY <1>1, FormIs
<1>5. /\ \A k \in 0 .. i - 1 : M(k) <= p[k]
      /\ \A k \in 1 .. i - 1 : k < R => p[k] - p[k - 1] <= f.max[k]
      /\ M(R) <= p[R]
  BY DEF Advanced
<1>6. d = p[i] - p[i - 1] - f.max[i] /\ p[i] - p[i - 1] > f.max[i]
  OBVIOUS
<1> HIDE DEF R, M, d
<1>7. ASSUME NEW k \in 0 .. R PROVE (k # i => q[k] = p[k]) /\ (k = i => q[k] = p[k] - g)
  <2>1. k \in Int /\ p[k] \in Int
    BY <1>2
  <2>2. CASE k # i
    <3>1. q[k] = p[k] + 0 - 0
      BY <1>1, <1>3, <2>1, <2>2
    <3> QED BY <2>1, <2>2, <3>1
  <2>3. CASE k = i
    <3>1. q[k] = p[k] + 0 - g
      BY <1>1, <1>3, <2>1, <2>3
    <3> QED BY <2>1, <2>3, <3>1
  <2> QED BY <2>2, <2>3
<1>8. i \in 0 .. R /\ i - 1 \in 0 .. R /\ i - 1 # i /\ R \in 0 .. R /\ R # i
  BY <1>1
<1>9. /\ q[i] = p[i] - g /\ q[i - 1] = p[i - 1] /\ q[R] = p[R]
      /\ p[i] \in Int /\ p[i - 1] \in Int /\ M(i) \in Int /\ M(i - 1) \in Int
      /\ M(i) = M(i - 1) + f.min[i] /\ f.min[i] \in Int /\ f.max[i] \in Int
      /\ f.min[i] <= f.max[i] /\ 0 <= f.min[i] /\ M(i - 1) <= p[i - 1]
  BY <1>1, <1>2, <1>4, <1>5, <1>7, <1>8
<1>10. q[i] - q[i - 1] = f.max[i]
  BY <1>3, <1>6, <1>9
<1>11. M(i) <= q[i]
  BY <1>9, <1>10
<1>12. ASSUME NEW k \in 0 .. i - 1 PROVE M(k) <= q[k]
  <2>1. k \in 0 .. R /\ M(k) <= p[k] /\ k # i
    BY <1>1, <1>5
  <2> QED BY <1>7, <2>1
<1>13. ASSUME NEW k \in 1 .. i - 1, k < R PROVE q[k] - q[k - 1] <= f.max[k]
  <2>1. k \in 0 .. R /\ k - 1 \in 0 .. R /\ k - 1 # i /\ k # i
    BY <1>1
  <2>2. q[k] = p[k] /\ q[k - 1] = p[k - 1]
    BY <1>7, <2>1
  <2> QED BY <1>5, <1>13, <2>2
<1>14. M(R) <= q[R]
  BY <1>5, <1>9
<1>15. Advanced(f, q, i - 1)
  BY <1>12, <1>13, <1>14 DEF Advanced, R, M
<1>16. q[i] - q[i - 1] <= f.max[i]
  BY <1>9, <1>10
<1> QED BY <1>11, <1>15, <1>16, AdvancedStays DEF M

\* A row that is not too long takes from those behind.
LEMMA AdvancedFilled ==
  ASSUME NEW f \in Forms, NEW p, NEW q, IsTable(p), IsTable(q), NEW i \in Rows,
         Advanced(f, p, i - 1), p[i] - p[i - 1] <= f.max[i],
         Behind(p, q, i, f.min[i], MAX_TEAMROWS)
  PROVE  Advanced(f, q, i)
<1> DEFINE R == MAX_TEAMROWS
           M(k) == SumTo(f.min, k)
<1>1. R \in Nat /\ i \in 1 .. R /\ i \in Int /\ Rows = 1 .. R
  BY Constants
<1>2. \A k \in 0 .. R : p[k] \in Int /\ q[k] \in Int
  BY DEF IsTable
<1>3. /\ \A k \in 0 .. R : k < i \/ k >= R => q[k] = p[k]
      /\ q[i] >= p[i]
      /\ q[i] = p[i] \/ q[i] - q[i - 1] <= f.min[i]
      /\ q[i] - q[i - 1] >= f.min[i] \/ q[i] = q[R]
  BY DEF Behind
<1>4. /\ \A k \in 1 .. R : f.min[k] \in Int /\ f.max[k] \in Int /\ f.min[k] <= f.max[k] /\ 0 <= f.min[k]
      /\ \A k \in 0 .. R : M(k) \in Int
      /\ \A k \in 1 .. R : M(k) = M(k - 1) + f.min[k]
      /\ \A j, k \in 0 .. R : j <= k => M(j) <= M(k)
  BY <1>1, FormIs
<1>5. /\ \A k \in 0 .. i - 1 : M(k) <= p[k]
      /\ \A k \in 1 .. i - 1 : k < R => p[k] - p[k - 1] <= f.max[k]
      /\ M(R) <= p[R]
  BY DEF Advanced
<1>6. p[i] - p[i - 1] <= f.max[i]
  OBVIOUS
<1> HIDE DEF R, M
<1>7. i \in 0 .. R /\ i - 1 \in 0 .. R /\ R \in 0 .. R /\ i - 1 < i /\ i <= R /\ R >= R /\ i - 1 \in 0 .. i - 1
  BY <1>1
<1>8. /\ q[i - 1] = p[i - 1] /\ q[R] = p[R]
      /\ p[i] \in Int /\ q[i] \in Int /\ p[i - 1] \in Int /\ p[R] \in Int
      /\ M(i) \in Int /\ M(i - 1) \in Int /\ M(R) \in Int
      /\ M(i) = M(i - 1) + f.min[i] /\ f.min[i] \in Int /\ f.max[i] \in Int
      /\ f.min[i] <= f.max[i] /\ M(i - 1) <= p[i - 1] /\ M(i) <= M(R) /\ M(R) <= p[R]
  BY <1>1, <1>2, <1>3, <1>4, <1>5, <1>7
<1>9. M(i) <= q[i]
  BY <1>3, <1>8
<1>10. q[i] - q[i - 1] <= f.max[i]
  BY <1>3, <1>6, <1>8
<1>11. ASSUME NEW k \in 0 .. i - 1 PROVE q[k] = p[k]
  BY <1>1, <1>3
<1>12. Advanced(f, q, i - 1)
  <2>1. \A k \in 0 .. i - 1 : M(k) <= q[k]
    BY <1>5, <1>11
  <2>2. ASSUME NEW k \in 1 .. i - 1, k < R PROVE q[k] - q[k - 1] <= f.max[k]
    <3>1. q[k] = p[k] /\ q[k - 1] = p[k - 1]
      BY <1>1, <1>11
    <3> QED BY <1>5, <2>2, <3>1
  <2>3. M(R) <= q[R]
    BY <1>8
  <2> QED BY <2>1, <2>2, <2>3 DEF Advanced, R, M
<1> QED BY <1>9, <1>10, <1>12, AdvancedStays DEF M

LEMMA UpwardsIs ==
  /\ Upwards \in Seq(Rows) /\ Len(Upwards) = MAX_TEAMROWS /\ \A k \in Rows : Upwards[k] = k
  /\ Downwards \in Seq(Rows) /\ Len(Downwards) = MAX_TEAMROWS
  /\ \A k \in Rows : Downwards[k] = MAX_TEAMROWS + 1 - k
<1> DEFINE R == MAX_TEAMROWS
           u == Upwards
<1>1. Rows = 1 .. R /\ R \in Nat
  BY Constants
<1>2. u \in Seq(Rows) /\ Len(u) = R /\ \A k \in Rows : u[k] = k
  <2>1. u \in [1 .. R -> Rows] /\ \A k \in Rows : u[k] = k
    BY <1>1 DEF Upwards
  <2> HIDE DEF u
  <2> QED BY <1>1, <2>1, IsSequence
<1>3. Downwards = Reverse(u)
  BY DEF Downwards
<1> HIDE DEF u, R
<1>4. Downwards = [k \in 1 .. R |-> u[(R - k) + 1]]
  BY <1>2, <1>3 DEF Reverse
<1>5. ASSUME NEW k \in 1 .. R PROVE Downwards[k] = R + 1 - k /\ Downwards[k] \in Rows
  <2>1. (R - k) + 1 \in Rows /\ (R - k) + 1 = R + 1 - k
    BY <1>1
  <2> QED BY <1>2, <1>4, <2>1
<1>6. Downwards \in [1 .. R -> Rows]
  BY <1>4, <1>5
<1>7. Downwards \in Seq(Rows) /\ Len(Downwards) = R
  BY <1>1, <1>6, IsSequence
<1> QED BY <1>1, <1>2, <1>5, <1>7 DEF R, u

LEMMA ForwardsStands ==
  ASSUME NEW V, NEW G, NEW r \in Standings(V, G), NEW f \in Forms, NEW i \in Rows
  PROVE  Forwards(f, r, i) \in Standings(V, G)
<1> DEFINE R == MAX_TEAMROWS
           back == IF i = 1 THEN r ELSE Give(r, i, i - 1, f.max[i - 1] - Len(r[i - 1]))
           on == [back EXCEPT ![i] = FirstOf(@, f.max[i]), ![i + 1] = Rest(back[i], f.max[i]) \o @]
           filled == FillUp(r, f.min, i, SubSeq(Upwards, i + 1, MAX_TEAMROWS))
<1>1. R \in Nat /\ i \in 1 .. R /\ Rows = 1 .. R /\ i \in Int
  BY Constants
<1>2. \A k \in Rows : f.min[k] \in Int /\ f.max[k] \in Int /\ 0 <= f.max[k]
  BY FormIs
<1>3. Forwards(f, r, i) = IF Len(r[i]) > f.max[i]
                            THEN IF i < R /\ Len(back[i]) > f.max[i] THEN on ELSE back
                            ELSE filled
  BY DEF Forwards
<1> HIDE DEF back, on, filled
<1>4. back \in Standings(V, G)
  <2>1. CASE i = 1
    BY <2>1 DEF back
  <2>2. CASE i # 1
    <3> DEFINE j == i - 1
               d == f.max[j] - Len(r[j])
    <3>1. j \in Rows /\ j # i
      BY <1>1, <2>2
    <3>2. back = Give(r, i, j, d)
      BY <2>2 DEF back
    <3> HIDE DEF j
    <3>3. d \in Int
      <4>1. Len(r[j]) \in Nat
        BY <3>1, RowIs
      <4> QED BY <1>2, <3>1, <4>1
    <3> HIDE DEF d
    <3> QED BY <3>1, <3>2, <3>3, GiveIs
  <2> QED BY <2>1, <2>2
<1>5. i < R /\ Len(back[i]) > f.max[i] => on \in Standings(V, G)
  <2> SUFFICES ASSUME i < R, Len(back[i]) > f.max[i] PROVE on \in Standings(V, G)
    OBVIOUS
  <2> DEFINE m == f.max[i]
  <2>1. Len(back[i]) \in Nat
    BY <1>4, RowIs
  <2>2. i + 1 \in Rows /\ m \in Nat /\ m < Len(back[i])
    <3>1. m \in Nat
      BY <1>2
    <3> QED BY <1>1, <2>1, <3>1
  <2>3. on = [back EXCEPT ![i] = FirstOf(@, m), ![i + 1] = Rest(back[i], m) \o @]
    BY DEF on
  <2> HIDE DEF m
  <2> QED BY <1>4, <2>2, <2>3, PassOnIs
<1>6. filled \in Standings(V, G)
  <2>1. f.min[i] \in Int /\ filled = FillUp(r, f.min, i, SubSeq(Upwards, i + 1, MAX_TEAMROWS))
    BY <1>2 DEF filled
  <2> QED BY <2>1, FilledFromBehind
<1> QED BY <1>3, <1>4, <1>5, <1>6

LEMMA ForwardsIs ==
  ASSUME NEW V, NEW G, NEW r \in Standings(V, G), NEW f \in Forms, NEW i \in Rows,
         Advanced(f, Ahead(r), i - 1), NEW q, q = Forwards(f, r, i)
  PROVE  q \in Standings(V, G) /\ Advanced(f, Ahead(q), i)
<1> DEFINE R == MAX_TEAMROWS
           p == Ahead(r)
           back == IF i = 1 THEN r ELSE Give(r, i, i - 1, f.max[i - 1] - Len(r[i - 1]))
           on == [back EXCEPT ![i] = FirstOf(@, f.max[i]), ![i + 1] = Rest(back[i], f.max[i]) \o @]
           filled == FillUp(r, f.min, i, SubSeq(Upwards, i + 1, MAX_TEAMROWS))
<1>1. R \in Nat /\ i \in 1 .. R /\ Rows = 1 .. R /\ i \in Int
  BY Constants
<1>2. \A k \in Rows : f.min[k] \in Int /\ f.max[k] \in Int /\ 0 <= f.max[k]
  BY FormIs
<1>3. \A k \in Rows : Len(r[k]) \in Nat
  BY RowIs
<1>4. q = IF Len(r[i]) > f.max[i]
            THEN IF i < R /\ Len(back[i]) > f.max[i] THEN on ELSE back
            ELSE filled
  BY DEF Forwards
<1>5. IsTable(p) /\ \A k \in Rows : p[k] - p[k - 1] = Len(r[k])
  BY AheadIs
<1>6. Advanced(f, p, i - 1)
  OBVIOUS
<1> HIDE DEF back, on, filled, p
<1>7. ASSUME Len(r[i]) > f.max[i] PROVE q \in Standings(V, G) /\ Advanced(f, Ahead(q), i)
  <2> DEFINE b == Ahead(back)
  <2>1. /\ back \in Standings(V, G) /\ Advanced(f, b, i - 1) /\ SumTo(f.min, i) <= b[i]
    <3>1. CASE i = 1
      <4>1. back = r /\ b = p
        BY <3>1 DEF back, p
      <4>2. SumTo(f.min, 1) = SumTo(f.min, 1 - 1) + f.min[1] /\ SumTo(f.min, 0) = 0
            /\ f.min[1] <= f.max[1] /\ f.min[1] \in Int /\ f.max[1] \in Int
        BY <1>1, <3>1, FormIs
      <4>3. p[1] - p[1 - 1] = Len(r[1]) /\ p[0] = 0
        BY <1>5, <3>1 DEF IsTable
      <4>4. p[1] \in Int
        BY <1>1, <1>5, <3>1 DEF IsTable
      <4>5. SumTo(f.min, 1) <= p[1]
        <5>1. 1 - 1 = 0
          OBVIOUS
        <5> QED BY <1>3, <1>7, <3>1, <4>2, <4>3, <4>4, <5>1
      <4> QED BY <1>6, <3>1, <4>1, <4>5
    <3>2. CASE i # 1
      <4> DEFINE j == i - 1
                 d == f.max[j] - Len(r[j])
      <4>1. j \in Rows /\ i = j + 1 /\ j # i /\ i - 1 = j
        BY <1>1, <3>2
      <4>2. back = Give(r, i, j, d)
        BY <3>2 DEF back
      <4>3. d = f.max[j] - (p[j] - p[j - 1])
        <5> HIDE DEF j
        <5>1. p[j] - p[j - 1] = Len(r[j])
          BY <1>5, <4>1
        <5> QED BY <5>1
      <4>4. d \in Int
        <5> HIDE DEF j
        <5> QED BY <1>2, <1>3, <4>1
      <4> HIDE DEF j, d
      <4>5. back \in Standings(V, G) /\ Gives(Lens(r), Lens(back), i, j, d)
        BY <4>1, <4>2, <4>4, GiveIs
      <4>6. Shifts(p, b, i, j, d)
        BY <4>1, <4>4, <4>5, GivesShifts DEF p
      <4>7. IsTable(b)
        BY <4>5, AheadIs
      <4>8. p[i] - p[j] > f.max[i]
        <5>1. p[i] - p[i - 1] = Len(r[i])
          BY <1>5
        <5> QED BY <1>7, <4>1, <5>1
      <4>9. Advanced(f, p, j) /\ Shifts(p, b, i, j, f.max[j] - (p[j] - p[j - 1]))
        BY <1>6, <4>1, <4>3, <4>6
      <4> HIDE DEF b
      <4>10. Advanced(f, b, j) /\ SumTo(f.min, i) <= b[i]
        BY <1>5, <4>1, <4>7, <4>8, <4>9, AdvancedBack
      <4> QED BY <4>1, <4>5, <4>10
    <3> QED BY <3>1, <3>2
  <2>2. IsTable(b) /\ b[i] - b[i - 1] = Len(back[i])
    BY <2>1, AheadIs
  <2>3. Len(back[i]) \in Nat
    BY <2>1, RowIs
  <2>4. CASE i < R /\ Len(back[i]) > f.max[i]
    <3> DEFINE j == i + 1
               m == f.max[i]
               c == Ahead(on)
    <3>1. q = on
      BY <1>4, <1>7, <2>4
    <3>2. j \in Rows /\ j = i + 1 /\ m \in Nat /\ m < Len(back[i]) /\ i # j
      <4>1. m \in Nat
        BY <1>2
      <4> QED BY <1>1, <2>3, <2>4, <4>1
    <3>3. on = [back EXCEPT ![i] = FirstOf(@, m), ![i + 1] = Rest(back[i], m) \o @]
      BY DEF on
    <3> HIDE DEF m, b, c
    <3>4. on \in Standings(V, G) /\ Gives(Lens(back), Lens(on), i, i + 1, Len(back[i]) - m)
      BY <2>1, <3>2, <3>3, PassOnIs
    <3> HIDE DEF j
    <3>5. Shifts(b, c, i, j, Len(back[i]) - m)
      <4> DEFINE d == Len(back[i]) - m
      <4>1. d \in Int
        BY <2>3, <3>2
      <4>2. Gives(Lens(back), Lens(on), i, j, d)
        BY <3>2, <3>4
      <4> HIDE DEF d
      <4>3. Shifts(b, c, i, j, d)
        BY <2>1, <3>2, <3>4, <4>1, <4>2, GivesShifts DEF b, c
      <4> QED BY <4>3 DEF d
    <3>6. IsTable(c)
      BY <3>4, AheadIs DEF c
    <3>7. Shifts(b, c, i, j, b[i] - b[i - 1] - f.max[i]) /\ b[i] - b[i - 1] > f.max[i]
      BY <2>2, <2>4, <3>5 DEF m
    <3>8. Advanced(f, c, i)
      BY <2>1, <2>2, <3>2, <3>6, <3>7, AdvancedOn
    <3> QED BY <3>1, <3>4, <3>8 DEF c
  <2>5. CASE ~(i < R /\ Len(back[i]) > f.max[i])
    <3>1. q = back
      BY <1>4, <1>7, <2>5
    <3>2. i = R \/ b[i] - b[i - 1] <= f.max[i]
      <4>1. f.max[i] \in Int
        BY <1>2
      <4> HIDE DEF b
      <4> QED BY <1>1, <2>2, <2>3, <2>5, <4>1
    <3> HIDE DEF b
    <3>3. Advanced(f, b, i)
      BY <2>1, <2>2, <3>2, AdvancedStays
    <3> QED BY <2>1, <3>1, <3>3 DEF b
  <2> QED BY <2>4, <2>5
<1>8. ASSUME ~(Len(r[i]) > f.max[i]) PROVE q \in Standings(V, G) /\ Advanced(f, Ahead(q), i)
  <2> DEFINE b == Ahead(filled)
  <2>1. q = filled
    BY <1>4, <1>8
  <2>2. f.min[i] \in Int /\ filled = FillUp(r, f.min, i, SubSeq(Upwards, i + 1, MAX_TEAMROWS))
    BY <1>2 DEF filled
  <2>3. filled \in Standings(V, G) /\ Behind(Ahead(r), Ahead(filled), i, f.min[i], MAX_TEAMROWS)
    BY <2>2, FilledFromBehind
  <2>4. IsTable(b)
    BY <2>3, AheadIs
  <2>5. Behind(p, b, i, f.min[i], MAX_TEAMROWS)
    BY <2>3 DEF p
  <2>6. p[i] - p[i - 1] <= f.max[i]
    <3>1. p[i] - p[i - 1] = Len(r[i]) /\ Len(r[i]) \in Int /\ f.max[i] \in Int
      BY <1>2, <1>3, <1>5
    <3> QED BY <1>8, <3>1
  <2> HIDE DEF b
  <2>7. Advanced(f, b, i)
    BY <1>5, <1>6, <2>4, <2>5, <2>6, AdvancedFilled
  <2> QED BY <2>1, <2>3, <2>7 DEF b
<1> QED BY <1>7, <1>8

LEMMA ToRun ==
  ASSUME NEW V, NEW G, NEW r \in Standings(V, G), NEW f \in Forms
  PROVE  \E x : /\ x[0] = r /\ x[MAX_TEAMROWS] = To(f, r)
                /\ \A k \in 0 .. MAX_TEAMROWS : x[k] \in Standings(V, G)
                /\ \A k \in Rows : x[k] = Forwards(f, x[k - 1], Upwards[k])
<1> DEFINE n == MAX_TEAMROWS
           js == Upwards
           T == Standings(V, G)
           C == Rows
           Step(a, j) == Forwards(f, a, j)
           g == [y \in T \X C |-> Step(y[1], y[2])]
           F(h) == [S \in SUBSET DOMAIN js |->
                      IF S = {} THEN r ELSE Step(h[S \ {Max(S)}], js[Max(S)])]
           z == CHOOSE h : h = F(h)
<1>1. n \in Nat /\ DOMAIN js = 1 .. n /\ (\A k \in 1 .. n : js[k] \in C) /\ js \in Seq(C) /\ Rows = 1 .. n
  <2>1. js \in Seq(C) /\ Len(js) = n /\ n \in Nat
    BY Constants, UpwardsIs
  <2> HIDE DEF js, n, C
  <2>2. DOMAIN js = 1 .. n /\ \A k \in 1 .. n : js[k] \in C
    BY <2>1, LenProperties
  <2> QED BY <2>1, <2>2, Constants DEF n
<1>2. ASSUME NEW a \in T, NEW j \in C PROVE Step(a, j) \in T
  BY ForwardsStands
<1>3. r \in T
  OBVIOUS
<1>4. To(f, r) = z[DOMAIN js]
  BY DEF To, FoldLeft, MapThenFoldSet
<1>5. \A a, j : Step(a, j) = Forwards(f, a, j)
  OBVIOUS
<1> HIDE DEF T, C, Step, n, js
<1>6. PICK h : Folds(h, T, r, g, js)
  <2>1. g \in [T \X C -> T]
    BY <1>2
  <2> HIDE DEF g
  <2> QED BY <1>1, <1>3, <2>1, FoldExists
<1>7. h = F(h)
  <2>1. ASSUME NEW S \in SUBSET DOMAIN js, S # {}
        PROVE  g[<<h[S \ {Max(S)}], js[Max(S)]>>] = Step(h[S \ {Max(S)}], js[Max(S)])
    <3>1. Max(S) \in DOMAIN js
      BY <1>1, <2>1, MaxOfPositions
    <3>2. h[S \ {Max(S)}] \in T /\ js[Max(S)] \in C
      BY <1>1, <1>6, <3>1 DEF Folds
    <3> QED BY <3>2
  <2> HIDE DEF g
  <2> QED BY <1>6, <2>1 DEF Folds
<1>8. z = F(z)
  <2> HIDE DEF F
  <2> QED BY <1>7
<1> HIDE DEF z
<1> DEFINE x == [k \in 0 .. n |-> z[1 .. k]]
<1>9. x[0] = r
  <2>1. 1 .. 0 = {} /\ 0 \in 0 .. n
    BY <1>1
  <2> QED BY <1>8, <2>1
<1>10. ASSUME NEW k \in 1 .. n PROVE x[k] = Step(x[k - 1], js[k])
  <2>1. /\ 1 .. k # {} /\ 1 .. k \in SUBSET (1 .. n)
        /\ Max(1 .. k) = k /\ (1 .. k) \ {k} = 1 .. (k - 1)
    BY <1>1, MaxOfUpTo
  <2>2. k \in 0 .. n /\ k - 1 \in 0 .. n
    BY <1>1
  <2>3. z[1 .. k] = Step(z[1 .. (k - 1)], js[k])
    BY <1>1, <1>8, <2>1
  <2> QED BY <2>2, <2>3
<1>11. x[n] = To(f, r)
  BY <1>1, <1>4
<1> HIDE DEF x
<1>12. \A k \in 0 .. n : x[k] \in T
  <2>1. \A k \in 1 .. n : x[k - 1] \in T => x[k] \in T
    BY <1>1, <1>2, <1>10
  <2> QED BY <1>1, <1>3, <1>9, <2>1, StaysIn
<1>13. \A k \in Rows : x[k] = Forwards(f, x[k - 1], js[k])
  BY <1>1, <1>5, <1>10
<1> QED BY <1>9, <1>11, <1>12, <1>13 DEF n, T, js

\* From the first row to the last.
LEMMA ToIs ==
  ASSUME NEW V, NEW G, NEW r \in Standings(V, G), NEW f \in Forms,
         SumTo(f.min, MAX_TEAMROWS) <= Ahead(r)[MAX_TEAMROWS]
  PROVE  To(f, r) \in Standings(V, G) /\ Advanced(f, Ahead(To(f, r)), MAX_TEAMROWS)
<1> DEFINE n == MAX_TEAMROWS
<1>1. n \in Nat /\ Rows = 1 .. n
  BY Constants
<1>2. PICK x : /\ x[0] = r /\ x[n] = To(f, r)
               /\ \A k \in 0 .. n : x[k] \in Standings(V, G)
               /\ \A k \in Rows : x[k] = Forwards(f, x[k - 1], Upwards[k])
  BY ToRun
<1> DEFINE Q == {k \in 0 .. n : Advanced(f, Ahead(x[k]), k)}
<1>3. 0 \in Q
  <2> DEFINE p == Ahead(r)
  <2>1. p[0] = 0
    BY AheadIs DEF IsTable
  <2>2. SumTo(f.min, 0) = 0
    BY FormIs
  <2>3. SumTo(f.min, n) <= p[n]
    OBVIOUS
  <2> HIDE DEF p
  <2>4. Advanced(f, p, 0)
    <3>1. 0 .. 0 = {0} /\ 1 .. 0 = {}
      OBVIOUS
    <3> QED BY <2>1, <2>2, <2>3, <3>1 DEF Advanced
  <2> QED BY <1>1, <1>2, <2>4 DEF p
<1>4. ASSUME NEW k \in 1 .. n, k - 1 \in Q PROVE k \in Q
  <2> DEFINE a == x[k - 1]
             b == x[k]
  <2>1. k \in Rows /\ k \in 0 .. n /\ k - 1 \in 0 .. n
    BY <1>1
  <2>2. a \in Standings(V, G) /\ b = Forwards(f, a, k) /\ Advanced(f, Ahead(a), k - 1)
    BY <1>2, <1>4, <2>1, UpwardsIs
  <2> HIDE DEF a, b
  <2>3. Advanced(f, Ahead(b), k)
    BY <2>1, <2>2, ForwardsIs
  <2> QED BY <2>1, <2>3 DEF b
<1>5. \A k \in 0 .. n : k \in Q
  <2> HIDE DEF Q
  <2> QED BY <1>1, <1>3, <1>4, Stepwise
<1>6. n \in 0 .. n
  BY <1>1
<1> QED BY <1>2, <1>5, <1>6

-----------------------------------------------------------------------------
(* And back again.                                                         *)

\* The num members are in order from behind up to row i; before it no row but
\* the i-th is too long, and there are enough for the minima.
Returned(f, num, p, i) ==
  /\ p[MAX_TEAMROWS] = num
  /\ \A k \in 0 .. i : SumTo(f.min, k) <= p[k]
  /\ \A k \in Rows : k < i => p[k] - p[k - 1] <= f.max[k]
  /\ \A k \in Rows : k > i =>
       /\ f.min[k] <= p[k] - p[k - 1]
       /\ k > 1 \/ num <= SumTo(f.max, MAX_TEAMROWS) => p[k] - p[k - 1] <= f.max[k]
  /\ num <= SumTo(f.max, MAX_TEAMROWS) => p[i] <= SumTo(f.max, i)

\* In rows that are not too long there are not more than fit in.
LEMMA SumsWithin ==
  ASSUME NEW f \in Forms, NEW p, IsTable(p), NEW j \in 0 .. MAX_TEAMROWS,
         \A k \in Rows : k <= j => p[k] - p[k - 1] <= f.max[k]
  PROVE  p[j] <= SumTo(f.max, j)
<1> DEFINE R == MAX_TEAMROWS
           X(k) == SumTo(f.max, k)
           Q == {k \in 0 .. R : k <= j => p[k] <= X(k)}
<1>1. R \in Nat /\ Rows = 1 .. R /\ j \in 0 .. R
  BY Constants
<1>2. X(0) = 0 /\ (\A k \in 0 .. R : X(k) \in Int) /\ \A k \in 1 .. R : X(k) = X(k - 1) + f.max[k] /\ f.max[k] \in Int
  BY <1>1, FormIs
<1>3. p[0] = 0 /\ \A k \in 0 .. R : p[k] \in Int
  BY DEF IsTable
<1>4. \A k \in 1 .. R : k <= j => p[k] - p[k - 1] <= f.max[k]
  BY <1>1
<1> HIDE DEF X, R
<1>5. 0 \in Q
  BY <1>1, <1>2, <1>3
<1>6. ASSUME NEW k \in 1 .. R, k - 1 \in Q PROVE k \in Q
  <2> SUFFICES ASSUME k <= j PROVE p[k] <= X(k)
    BY <1>1
  <2>1. k \in 0 .. R /\ k - 1 \in 0 .. R /\ k - 1 <= j
    BY <1>1
  <2>2. p[k - 1] <= X(k - 1) /\ p[k] - p[k - 1] <= f.max[k] /\ X(k) = X(k - 1) + f.max[k]
    BY <1>2, <1>4, <1>6, <2>1
  <2>3. p[k] \in Int /\ p[k - 1] \in Int /\ X(k) \in Int /\ X(k - 1) \in Int /\ f.max[k] \in Int
    BY <1>2, <1>3, <2>1
  <2> QED BY <2>2, <2>3
<1>7. \A k \in 0 .. R : k \in Q
  <2> HIDE DEF Q
  <2> QED BY <1>1, <1>5, <1>6, Stepwise
<1>8. p[j] <= X(j)
  BY <1>1, <1>7
<1> QED BY <1>8 DEF X

\* A row takes from those before it.
LEMMA ReturnedFilled ==
  ASSUME NEW f \in Forms, NEW num, NEW p, NEW q, IsTable(p), IsTable(q), NEW i \in Rows,
         Returned(f, num, p, i), Before(p, q, i, f.min[i], 1)
  PROVE  Returned(f, num, q, i) /\ q[i] - q[i - 1] >= f.min[i]
<1> DEFINE R == MAX_TEAMROWS
           M(k) == SumTo(f.min, k)
           X(k) == SumTo(f.max, k)
<1>1. R \in Nat /\ i \in 1 .. R /\ i \in Int /\ Rows = 1 .. R
  BY Constants
<1>2. (\A k \in 0 .. R : p[k] \in Int /\ q[k] \in Int) /\ p[0] = 0 /\ q[0] = 0
  BY DEF IsTable
<1>3. /\ \A k \in 0 .. R : k >= i \/ k < 1 => q[k] = p[k]
      /\ \A k \in 1 .. R : k < i => q[k] - q[k - 1] <= p[k] - p[k - 1]
      /\ q[i - 1] = p[i - 1] \/ q[i] - q[i - 1] <= f.min[i]
      /\ \A k \in 0 .. i - 1 : q[k] = p[k] \/ q[k] = q[i - 1]
      /\ q[i] - q[i - 1] >= f.min[i] \/ q[i - 1] = q[0]
  <2>1. 1 - 1 = 0
    OBVIOUS
  <2> QED BY <1>1, <2>1 DEF Before
<1>4. /\ \A k \in 1 .. R : f.min[k] \in Int /\ f.max[k] \in Int
      /\ \A k \in 0 .. R : M(k) \in Int
      /\ \A k \in 1 .. R : M(k) = M(k - 1) + f.min[k]
      /\ \A j, k \in 0 .. R : j <= k => M(j) <= M(k)
      /\ M(0) = 0
  BY <1>1, FormIs
<1>5. /\ p[R] = num
      /\ \A k \in 0 .. i : M(k) <= p[k]
      /\ \A k \in 1 .. R : k < i => p[k] - p[k - 1] <= f.max[k]
      /\ \A k \in 1 .. R : k > i =>
           /\ f.min[k] <= p[k] - p[k - 1]
           /\ k > 1 \/ num <= X(R) => p[k] - p[k - 1] <= f.max[k]
      /\ num <= X(R) => p[i] <= X(i)
  BY <1>1 DEF Returned
<1> HIDE DEF R, M, X
<1>6. i \in 0 .. R /\ i - 1 \in 0 .. R /\ R \in 0 .. R /\ R >= i /\ i >= i /\ 0 \in 0 .. R
      /\ i \in 0 .. i /\ i - 1 \in 0 .. i /\ i - 1 \in 0 .. i - 1 /\ 0 <= i - 1
  BY <1>1
<1>7. /\ q[R] = p[R] /\ q[i] = p[i] /\ p[i] \in Int /\ p[i - 1] \in Int /\ q[i - 1] \in Int
      /\ M(i) \in Int /\ M(i - 1) \in Int /\ M(i) = M(i - 1) + f.min[i] /\ f.min[i] \in Int
      /\ M(i) <= p[i] /\ M(i - 1) <= p[i - 1] /\ M(0) <= M(i - 1)
  BY <1>1, <1>2, <1>3, <1>4, <1>5, <1>6
<1>8. q[i - 1] >= M(i - 1)
  BY <1>3, <1>7
<1>9. q[i] - q[i - 1] >= f.min[i]
  BY <1>2, <1>3, <1>4, <1>7
<1>10. ASSUME NEW k \in 0 .. i PROVE M(k) <= q[k]
  <2>1. k \in 0 .. R /\ M(k) <= p[k] /\ k \in Int
    BY <1>1, <1>5
  <2>2. M(k) \in Int /\ p[k] \in Int
    BY <1>2, <1>4, <2>1
  <2>3. CASE k = i
    BY <1>7, <2>1, <2>3
  <2>4. CASE k # i
    <3>1. k \in 0 .. i - 1 /\ k <= i - 1
      BY <1>1, <2>1, <2>4
    <3>2. M(k) <= M(i - 1)
      BY <1>4, <1>6, <2>1, <3>1
    <3>3. q[k] = p[k] \/ q[k] = q[i - 1]
      BY <1>3, <3>1
    <3> QED BY <1>7, <1>8, <2>1, <2>2, <3>2, <3>3
  <2> QED BY <2>3, <2>4
<1>11. ASSUME NEW k \in 1 .. R, k < i PROVE q[k] - q[k - 1] <= f.max[k]
  <2>1. q[k] - q[k - 1] <= p[k] - p[k - 1] /\ p[k] - p[k - 1] <= f.max[k]
    BY <1>3, <1>5, <1>11
  <2>2. k \in 0 .. R /\ k - 1 \in 0 .. R
    BY <1>1
  <2>3. p[k] \in Int /\ p[k - 1] \in Int /\ q[k] \in Int /\ q[k - 1] \in Int /\ f.max[k] \in Int
    BY <1>2, <1>4, <2>2
  <2> QED BY <2>1, <2>3
<1>12. ASSUME NEW k \in 1 .. R, k > i
       PROVE  /\ f.min[k] <= q[k] - q[k - 1]
              /\ k > 1 \/ num <= X(R) => q[k] - q[k - 1] <= f.max[k]
  <2>1. k \in 0 .. R /\ k - 1 \in 0 .. R /\ k >= i /\ k - 1 >= i
    BY <1>1, <1>12
  <2>2. q[k] = p[k] /\ q[k - 1] = p[k - 1]
    BY <1>3, <2>1
  <2> QED BY <1>5, <1>12, <2>2
<1>13. /\ q[R] = num
       /\ num <= X(R) => q[i] <= X(i)
  BY <1>5, <1>7
<1>14. Returned(f, num, q, i)
  <2>1. /\ \A k \in Rows : k < i => q[k] - q[k - 1] <= f.max[k]
        /\ \A k \in Rows : k > i =>
             /\ f.min[k] <= q[k] - q[k - 1]
             /\ k > 1 \/ num <= X(R) => q[k] - q[k - 1] <= f.max[k]
    BY <1>1, <1>11, <1>12
  <2> QED BY <1>10, <1>13, <2>1 DEF Returned, R, M, X
<1> QED BY <1>9, <1>14

\* It gives what is too much to the one before.
LEMMA ReturnedOn ==
  ASSUME NEW f \in Forms, NEW num, NEW p, NEW q, IsTable(p), IsTable(q),
         NEW i \in Rows, NEW j \in Rows, i = j + 1,
         Returned(f, num, p, i), p[i] - p[i - 1] >= f.min[i],
         Shifts(p, q, i, j, p[i] - p[i - 1] - f.max[i])
  PROVE  Returned(f, num, q, j)
<1> DEFINE R == MAX_TEAMROWS
           M(k) == SumTo(f.min, k)
           X(k) == SumTo(f.max, k)
           d == p[i] - p[i - 1] - f.max[i]
<1>1. /\ R \in Nat /\ i \in 1 .. R /\ j \in 1 .. R /\ i \in Int /\ j \in Int /\ Rows = 1 .. R
      /\ i = j + 1
  BY Constants
<1>2. \A k \in 0 .. R : p[k] \in Int /\ q[k] \in Int
  BY DEF IsTable
<1>3. PICK g \in Nat : /\ g <= p[i] - p[i - 1] /\ (g <= d \/ g = 0) /\ (g >= d \/ g = p[i] - p[i - 1])
                       /\ \A k \in 0 .. R :
                            q[k] = p[k] + (IF j <= k /\ k < i THEN g ELSE 0)
                                        - (IF i <= k /\ k < j THEN g ELSE 0)
  BY DEF Shifts
<1>4. /\ \A k \in 1 .. R : /\ f.min[k] \in Int /\ f.max[k] \in Int
                           /\ f.min[k] <= f.max[k] /\ 0 <= f.min[k]
      /\ \A k \in 0 .. R : M(k) \in Int /\ X(k) \in Int
      /\ \A k \in 1 .. R : X(k) = X(k - 1) + f.max[k]
  BY <1>1, FormIs
<1>5. /\ p[R] = num
      /\ \A k \in 0 .. i : M(k) <= p[k]
      /\ \A k \in 1 .. R : k < i => p[k] - p[k - 1] <= f.max[k]
      /\ \A k \in 1 .. R : k > i =>
           /\ f.min[k] <= p[k] - p[k - 1]
           /\ k > 1 \/ num <= X(R) => p[k] - p[k - 1] <= f.max[k]
      /\ num <= X(R) => p[i] <= X(i)
  BY <1>1 DEF Returned
<1>6. d = p[i] - p[i - 1] - f.max[i] /\ p[i] - p[i - 1] >= f.min[i]
  OBVIOUS
<1>7. p[j] <= X(j)
  <2>1. \A k \in Rows : k <= j => p[k] - p[k - 1] <= f.max[k]
    BY <1>1, <1>5
  <2>2. j \in 0 .. R
    BY <1>1
  <2> HIDE DEF X, M, d
  <2> QED BY <2>1, <2>2, SumsWithin DEF X
<1> HIDE DEF R, M, X, d
<1>8. ASSUME NEW k \in 0 .. R PROVE (k # j => q[k] = p[k]) /\ (k = j => q[k] = p[k] + g)
  <2>1. k \in Int /\ p[k] \in Int
    BY <1>2
  <2>2. CASE k # j
    <3>1. q[k] = p[k] + 0 - 0
      BY <1>1, <1>3, <2>1, <2>2
    <3> QED BY <2>1, <2>2, <3>1
  <2>3. CASE k = j
    <3>1. q[k] = p[k] + g - 0
      BY <1>1, <1>3, <2>1, <2>3
    <3> QED BY <2>1, <2>3, <3>1
  <2> QED BY <2>2, <2>3
<1>9. i \in 0 .. R /\ j \in 0 .. R /\ R \in 0 .. R /\ R # j /\ i # j /\ i - 1 = j
  BY <1>1
<1>10. /\ q[i] = p[i] /\ q[j] = p[j] + g /\ q[R] = p[R] /\ p[i - 1] = p[j]
       /\ p[i] \in Int /\ p[j] \in Int /\ X(i) \in Int /\ X(j) \in Int /\ X(i) = X(j) + f.max[i]
       /\ f.min[i] \in Int /\ f.max[i] \in Int /\ f.min[i] <= f.max[i] /\ 0 <= f.min[i]
  BY <1>1, <1>2, <1>4, <1>8, <1>9
<1>11. f.min[i] <= q[i] - q[j] /\ q[i] - q[j] <= f.max[i]
  BY <1>3, <1>6, <1>10
<1>12. num <= X(R) => q[j] <= X(j)
  BY <1>3, <1>5, <1>6, <1>7, <1>10
<1>13. ASSUME NEW k \in 0 .. j PROVE M(k) <= q[k]
  <2>1. k \in 0 .. R /\ M(k) <= p[k]
    BY <1>1, <1>5
  <2>2. p[k] \in Int /\ M(k) \in Int /\ (q[k] = p[k] \/ q[k] = p[k] + g)
    BY <1>2, <1>4, <1>8, <2>1
  <2> QED BY <2>1, <2>2
<1>14. ASSUME NEW k \in 1 .. R, k < j PROVE q[k] - q[k - 1] <= f.max[k]
  <2>1. k \in 0 .. R /\ k - 1 \in 0 .. R /\ k # j /\ k - 1 # j /\ k < i
    BY <1>1, <1>14
  <2>2. q[k] = p[k] /\ q[k - 1] = p[k - 1]
    BY <1>8, <2>1
  <2> QED BY <1>5, <2>1, <2>2
<1>15. ASSUME NEW k \in 1 .. R, k > j
       PROVE  /\ f.min[k] <= q[k] - q[k - 1]
              /\ k > 1 \/ num <= X(R) => q[k] - q[k - 1] <= f.max[k]
  <2>1. CASE k = i
    BY <1>9, <1>11, <2>1
  <2>2. CASE k # i
    <3>1. k \in 0 .. R /\ k - 1 \in 0 .. R /\ k # j /\ k - 1 # j /\ k > i
      BY <1>1, <1>15, <2>2
    <3>2. q[k] = p[k] /\ q[k - 1] = p[k - 1]
      BY <1>8, <3>1
    <3> QED BY <1>5, <3>1, <3>2
  <2> QED BY <2>1, <2>2
<1>16. q[R] = num
  BY <1>5, <1>10
<1>17. Returned(f, num, q, j)
  <2>1. /\ \A k \in Rows : k < j => q[k] - q[k - 1] <= f.max[k]
        /\ \A k \in Rows : k > j =>
             /\ f.min[k] <= q[k] - q[k - 1]
             /\ k > 1 \/ num <= X(R) => q[k] - q[k - 1] <= f.max[k]
    BY <1>1, <1>14, <1>15
  <2> QED BY <1>12, <1>13, <1>16, <2>1 DEF Returned, R, M, X
<1> QED BY <1>17

\* What is left for the first row.
LEMMA ReturnedFirst ==
  ASSUME NEW f \in Forms, NEW num, NEW p, IsTable(p), Returned(f, num, p, 1)
  PROVE  Returned(f, num, p, 0)
<1>1. 1 \in Rows /\ 1 \in 0 .. MAX_TEAMROWS /\ 1 - 1 = 0 /\ \A k \in Rows : k = 1 \/ k > 1
  BY Constants
<1>2. p[0] = 0 /\ p[1] \in Int
  BY <1>1 DEF IsTable
<1>3. /\ SumTo(f.min, 0) = 0 /\ SumTo(f.max, 0) = 0 /\ f.min[1] \in Int /\ f.max[1] \in Int
      /\ SumTo(f.min, 1) = SumTo(f.min, 0) + f.min[1]
      /\ SumTo(f.max, 1) = SumTo(f.max, 0) + f.max[1]
  BY <1>1, FormIs
<1>4. /\ p[MAX_TEAMROWS] = num
      /\ \A k \in 0 .. 1 : SumTo(f.min, k) <= p[k]
      /\ \A k \in Rows : k > 1 =>
           /\ f.min[k] <= p[k] - p[k - 1]
           /\ k > 1 \/ num <= SumTo(f.max, MAX_TEAMROWS) => p[k] - p[k - 1] <= f.max[k]
      /\ num <= SumTo(f.max, MAX_TEAMROWS) => p[1] <= SumTo(f.max, 1)
  BY DEF Returned
<1>5. f.min[1] <= p[1] - p[1 - 1] /\ (num <= SumTo(f.max, MAX_TEAMROWS) => p[1] - p[1 - 1] <= f.max[1])
  <2>1. SumTo(f.min, 1) <= p[1]
    BY <1>4
  <2> QED BY <1>1, <1>2, <1>3, <1>4, <2>1
<1>6. \A k \in Rows : k > 0 =>
        /\ f.min[k] <= p[k] - p[k - 1]
        /\ k > 1 \/ num <= SumTo(f.max, MAX_TEAMROWS) => p[k] - p[k - 1] <= f.max[k]
  BY <1>1, <1>4, <1>5
<1>7. \A k \in Rows : ~(k < 0)
  BY Constants
<1>8. \A k \in 0 .. 0 : SumTo(f.min, k) <= p[k]
  BY <1>2, <1>3
<1>9. num <= SumTo(f.max, MAX_TEAMROWS) => p[0] <= SumTo(f.max, 0)
  BY <1>2, <1>3
<1> QED BY <1>4, <1>6, <1>7, <1>8, <1>9 DEF Returned

LEMMA BackwardsStands ==
  ASSUME NEW V, NEW G, NEW r \in Standings(V, G), NEW f \in Forms, NEW i \in Rows
  PROVE  Backwards(f, r, i) \in Standings(V, G)
<1> DEFINE j == i - 1
           filled == FillUp(r, f.min, i, Reverse(SubSeq(Upwards, 1, i - 1)))
           d == Len(filled[i]) - f.max[i]
<1>1. MAX_TEAMROWS \in Nat /\ i \in 1 .. MAX_TEAMROWS /\ Rows = 1 .. MAX_TEAMROWS /\ f.min[i] \in Int /\ f.max[i] \in Int
  BY Constants, FormIs
<1>2. Backwards(f, r, i) = IF i = 1 THEN r ELSE Give(filled, i, j, d)
  BY DEF Backwards
<1>3. filled \in Standings(V, G)
  BY <1>1, FilledFromBefore
<1> HIDE DEF filled
<1>4. CASE i = 1
  BY <1>2, <1>4
<1>5. CASE i # 1
  <2>1. j \in Rows /\ j # i
    BY <1>1, <1>5
  <2>2. d \in Int
    <3>1. Len(filled[i]) \in Nat
      BY <1>3, RowIs
    <3> QED BY <1>1, <3>1
  <2> HIDE DEF j, d
  <2>3. Give(filled, i, j, d) \in Standings(V, G)
    BY <1>3, <2>1, <2>2, GiveIs
  <2> QED BY <1>2, <1>5, <2>3
<1> QED BY <1>4, <1>5

LEMMA BackwardsIs ==
  ASSUME NEW V, NEW G, NEW r \in Standings(V, G), NEW f \in Forms, NEW i \in Rows, NEW num,
         Returned(f, num, Ahead(r), i), NEW q, q = Backwards(f, r, i)
  PROVE  Returned(f, num, Ahead(q), i - 1)
<1> DEFINE j == i - 1
           p == Ahead(r)
           filled == FillUp(r, f.min, i, Reverse(SubSeq(Upwards, 1, i - 1)))
           b == Ahead(filled)
           c == Ahead(q)
           d == Len(filled[i]) - f.max[i]
<1>1. MAX_TEAMROWS \in Nat /\ i \in 1 .. MAX_TEAMROWS /\ Rows = 1 .. MAX_TEAMROWS /\ f.min[i] \in Int /\ f.max[i] \in Int
  BY Constants, FormIs
<1>2. q = IF i = 1 THEN r ELSE Give(filled, i, j, d)
  BY DEF Backwards
<1>3. filled \in Standings(V, G) /\ Before(p, b, i, f.min[i], 1)
  BY <1>1, FilledFromBefore
<1>4. IsTable(p) /\ Returned(f, num, p, i)
  BY AheadIs
<1> HIDE DEF filled, p
<1>5. IsTable(b) /\ b[i] - b[i - 1] = Len(filled[i]) /\ Len(filled[i]) \in Nat
  BY <1>3, AheadIs, RowIs
<1>6. CASE i = 1
  <2>1. c = p /\ i - 1 = 0
    BY <1>2, <1>6 DEF p
  <2> HIDE DEF c
  <2>2. Returned(f, num, p, 0)
    BY <1>4, <1>6, ReturnedFirst
  <2> QED BY <2>1, <2>2 DEF c
<1>7. CASE i # 1
  <2>1. j \in Rows /\ j # i /\ i = j + 1
    BY <1>1, <1>7
  <2>2. d \in Int
    BY <1>1, <1>5
  <2>3. d = b[i] - b[i - 1] - f.max[i]
    BY <1>5
  <2>4. q = Give(filled, i, j, d)
    BY <1>2, <1>7
  <2> HIDE DEF j, d
  <2>5. q \in Standings(V, G) /\ Gives(Lens(filled), Lens(q), i, j, d)
    BY <1>3, <2>1, <2>2, <2>4, GiveIs
  <2>6. Shifts(b, c, i, j, d)
    BY <1>3, <2>1, <2>2, <2>5, GivesShifts
  <2>7. IsTable(c)
    BY <2>5, AheadIs
  <2> HIDE DEF b, c
  <2>8. Returned(f, num, b, i) /\ b[i] - b[i - 1] >= f.min[i]
    BY <1>3, <1>4, <1>5, ReturnedFilled
  <2>9. Shifts(b, c, i, j, b[i] - b[i - 1] - f.max[i])
    BY <2>3, <2>6
  <2>10. Returned(f, num, c, j)
    BY <1>5, <2>1, <2>7, <2>8, <2>9, ReturnedOn
  <2> QED BY <2>10 DEF c, j
<1> QED BY <1>6, <1>7

LEMMA FroRun ==
  ASSUME NEW V, NEW G, NEW r \in Standings(V, G), NEW f \in Forms
  PROVE  \E x : /\ x[0] = r /\ x[MAX_TEAMROWS] = Fro(f, r)
                /\ \A k \in 0 .. MAX_TEAMROWS : x[k] \in Standings(V, G)
                /\ \A k \in Rows : x[k] = Backwards(f, x[k - 1], Downwards[k])
<1> DEFINE n == MAX_TEAMROWS
           js == Downwards
           T == Standings(V, G)
           C == Rows
           Step(a, j) == Backwards(f, a, j)
           g == [y \in T \X C |-> Step(y[1], y[2])]
           F(h) == [S \in SUBSET DOMAIN js |->
                      IF S = {} THEN r ELSE Step(h[S \ {Max(S)}], js[Max(S)])]
           z == CHOOSE h : h = F(h)
<1>1. n \in Nat /\ DOMAIN js = 1 .. n /\ (\A k \in 1 .. n : js[k] \in C) /\ js \in Seq(C) /\ Rows = 1 .. n
  <2>1. js \in Seq(C) /\ Len(js) = n /\ n \in Nat
    BY Constants, UpwardsIs
  <2> HIDE DEF js, n, C
  <2>2. DOMAIN js = 1 .. n /\ \A k \in 1 .. n : js[k] \in C
    BY <2>1, LenProperties
  <2> QED BY <2>1, <2>2, Constants DEF n
<1>2. ASSUME NEW a \in T, NEW j \in C PROVE Step(a, j) \in T
  BY BackwardsStands
<1>3. r \in T
  OBVIOUS
<1>4. Fro(f, r) = z[DOMAIN js]
  BY DEF Fro, FoldLeft, MapThenFoldSet
<1>5. \A a, j : Step(a, j) = Backwards(f, a, j)
  OBVIOUS
<1> HIDE DEF T, C, Step, n, js
<1>6. PICK h : Folds(h, T, r, g, js)
  <2>1. g \in [T \X C -> T]
    BY <1>2
  <2> HIDE DEF g
  <2> QED BY <1>1, <1>3, <2>1, FoldExists
<1>7. h = F(h)
  <2>1. ASSUME NEW S \in SUBSET DOMAIN js, S # {}
        PROVE  g[<<h[S \ {Max(S)}], js[Max(S)]>>] = Step(h[S \ {Max(S)}], js[Max(S)])
    <3>1. Max(S) \in DOMAIN js
      BY <1>1, <2>1, MaxOfPositions
    <3>2. h[S \ {Max(S)}] \in T /\ js[Max(S)] \in C
      BY <1>1, <1>6, <3>1 DEF Folds
    <3> QED BY <3>2
  <2> HIDE DEF g
  <2> QED BY <1>6, <2>1 DEF Folds
<1>8. z = F(z)
  <2> HIDE DEF F
  <2> QED BY <1>7
<1> HIDE DEF z
<1> DEFINE x == [k \in 0 .. n |-> z[1 .. k]]
<1>9. x[0] = r
  <2>1. 1 .. 0 = {} /\ 0 \in 0 .. n
    BY <1>1
  <2> QED BY <1>8, <2>1
<1>10. ASSUME NEW k \in 1 .. n PROVE x[k] = Step(x[k - 1], js[k])
  <2>1. /\ 1 .. k # {} /\ 1 .. k \in SUBSET (1 .. n)
        /\ Max(1 .. k) = k /\ (1 .. k) \ {k} = 1 .. (k - 1)
    BY <1>1, MaxOfUpTo
  <2>2. k \in 0 .. n /\ k - 1 \in 0 .. n
    BY <1>1
  <2>3. z[1 .. k] = Step(z[1 .. (k - 1)], js[k])
    BY <1>1, <1>8, <2>1
  <2> QED BY <2>2, <2>3
<1>11. x[n] = Fro(f, r)
  BY <1>1, <1>4
<1> HIDE DEF x
<1>12. \A k \in 0 .. n : x[k] \in T
  <2>1. \A k \in 1 .. n : x[k - 1] \in T => x[k] \in T
    BY <1>1, <1>2, <1>10
  <2> QED BY <1>1, <1>3, <1>9, <2>1, StaysIn
<1>13. \A k \in Rows : x[k] = Backwards(f, x[k - 1], js[k])
  BY <1>1, <1>5, <1>10
<1> QED BY <1>9, <1>11, <1>12, <1>13 DEF n, T, js

\* From the last row to the first.
LEMMA FroIs ==
  ASSUME NEW V, NEW G, NEW r \in Standings(V, G), NEW f \in Forms, NEW num,
         Returned(f, num, Ahead(r), MAX_TEAMROWS)
  PROVE  Fro(f, r) \in Standings(V, G) /\ Returned(f, num, Ahead(Fro(f, r)), 0)
<1> DEFINE n == MAX_TEAMROWS
<1>1. n \in Nat /\ Rows = 1 .. n
  BY Constants
<1>2. PICK x : /\ x[0] = r /\ x[n] = Fro(f, r)
               /\ \A k \in 0 .. n : x[k] \in Standings(V, G)
               /\ \A k \in Rows : x[k] = Backwards(f, x[k - 1], Downwards[k])
  BY FroRun
<1> DEFINE Q == {k \in 0 .. n : Returned(f, num, Ahead(x[k]), n - k)}
<1>3. 0 \in Q
  <2>1. n - 0 = n /\ 0 \in 0 .. n
    BY <1>1
  <2> QED BY <1>2, <2>1
<1>4. ASSUME NEW k \in 1 .. n, k - 1 \in Q PROVE k \in Q
  <2> DEFINE a == x[k - 1]
             b == x[k]
             i == n + 1 - k
  <2>1. k \in Rows /\ k \in 0 .. n /\ k - 1 \in 0 .. n /\ i \in Rows /\ n - (k - 1) = i /\ i - 1 = n - k
    BY <1>1
  <2>2. a \in Standings(V, G) /\ b = Backwards(f, a, i) /\ Returned(f, num, Ahead(a), i)
    BY <1>2, <1>4, <2>1, UpwardsIs
  <2> HIDE DEF a, b, i
  <2>3. Returned(f, num, Ahead(b), i - 1)
    BY <2>1, <2>2, BackwardsIs
  <2> QED BY <2>1, <2>3 DEF b
<1>5. \A k \in 0 .. n : k \in Q
  <2> HIDE DEF Q
  <2> QED BY <1>1, <1>3, <1>4, Stepwise
<1>6. n \in 0 .. n /\ n - n = 0
  BY <1>1
<1> QED BY <1>2, <1>5, <1>6

\* No row is too short, and none too long if they hold everybody.
Settled(f, r, num) ==
  /\ \A i \in Rows : f.min[i] <= Len(r[i])
  /\ num <= SumTo(f.max, MAX_TEAMROWS) => InOrder(f, r)

LEMMA BackAndForth ==
  ASSUME NEW V, NEW r \in Standings(V, {}), NEW f \in Forms,
         SumTo(f.min, MAX_TEAMROWS) <= Cardinality(V)
  PROVE  /\ Fro(f, To(f, r)) \in Standings(V, {})
         /\ Settled(f, Fro(f, To(f, r)), Cardinality(V))
<1> DEFINE R == MAX_TEAMROWS
           N == Cardinality(V)
           t == To(f, r)
           q == Fro(f, t)
           p == Ahead(t)
           b == Ahead(q)
<1>1. R \in Nat /\ Rows = 1 .. R /\ R \in 0 .. R /\ R \in Rows
  BY Constants
<1>2. \A s \in Standings(V, {}) : Ahead(s)[R] = N
  BY <1>1, AllCounted DEF Ahead
<1>3. t \in Standings(V, {}) /\ Advanced(f, p, R)
  <2>1. SumTo(f.min, R) <= Ahead(r)[R]
    BY <1>2
  <2> QED BY <2>1, ToIs
<1>4. IsTable(p) /\ p[R] = N
  BY <1>2, <1>3, AheadIs
<1> HIDE DEF t, q, p, b, N
<1>5. Returned(f, N, p, R)
  <2>1. \A k \in Rows : ~(k > R)
    BY <1>1
  <2>2. \A k \in Rows : k < R => p[k] - p[k - 1] <= f.max[k]
    BY <1>1, <1>3 DEF Advanced
  <2>3. \A k \in 0 .. R : SumTo(f.min, k) <= p[k]
    BY <1>3 DEF Advanced
  <2>4. N <= SumTo(f.max, R) => p[R] <= SumTo(f.max, R)
    BY <1>4
  <2> QED BY <1>4, <2>1, <2>2, <2>3, <2>4 DEF Returned
<1>6. q \in Standings(V, {}) /\ Returned(f, N, b, 0)
  BY <1>3, <1>5, FroIs DEF q, p, b
<1>7. \A k \in Rows : b[k] - b[k - 1] = Len(q[k])
  BY <1>6, AheadIs DEF b
<1>8. \A k \in Rows : /\ f.min[k] <= Len(q[k])
                      /\ N <= SumTo(f.max, R) => Len(q[k]) <= f.max[k]
  <2>1. \A k \in Rows : k > 0
    BY Constants
  <2>2. \A k \in Rows : k > 0 =>
          /\ f.min[k] <= b[k] - b[k - 1]
          /\ k > 1 \/ N <= SumTo(f.max, R) => b[k] - b[k - 1] <= f.max[k]
    BY <1>6 DEF Returned
  <2> QED BY <1>7, <2>1, <2>2
<1>9. Settled(f, q, N)
  BY <1>8 DEF Settled, InOrder
<1> QED BY <1>6, <1>9 DEF q, t, N

\* However the members stood: whoever forms the rows forms them as was wanted.
LEMMA FormationSettles ==
  ASSUME NEW V \in SUBSET Living, NEW x, NEW order \in Orders, NEW f \in Forms,
         SumTo(f.min, MAX_TEAMROWS) <= Cardinality(V)
  PROVE  Settled(f, MakeFormation(f, x, V, order), Cardinality(V))
<1> DEFINE N == Cardinality(V)
           first == UpdateActRow(x, V, order)
           then == Fro(f, To(f, first))
           last == UpdateActRow(then, V, order)
<1>1. MakeFormation(f, x, V, order) = IF InOrder(f, first) THEN first ELSE last
  BY DEF MakeFormation
<1>2. first \in Standings(V, {})
  BY UpdateIs
<1> HIDE DEF first
<1>3. InOrder(f, first) => Settled(f, first, N)
  BY DEF Settled, InOrder
<1>4. then \in Standings(V, {}) /\ Settled(f, then, N)
  BY <1>2, BackAndForth
<1> HIDE DEF then
<1>5. \A i \in Rows : Len(last[i]) = Len(then[i])
  BY <1>4, UpdateKeeps
<1> HIDE DEF last
<1>6. Settled(f, last, N)
  BY <1>4, <1>5 DEF Settled, InOrder
<1> QED BY <1>1, <1>3, <1>6

-----------------------------------------------------------------------------
(* Who is there of the team.                                               *)

\* Rows with those of V, and the row that gives next.
Fillings(V) == [res : Standings(V, {}), j : Int]

LEMMA FillFromIs ==
  ASSUME NEW V, NEW f \in Forms, NEW s \in Fillings(V), NEW i \in Rows, NEW j \in Rows, i # j,
         NEW t, t = FillFrom(f, s, i, j)
  PROVE  t \in Fillings(V) /\ t.res = Give(s.res, j, i, f.min[i] - Len(s.res[i]))
<1> DEFINE d == f.min[i] - Len(s.res[i])
           r == Give(s.res, j, i, d)
<1>1. s.res \in Standings(V, {}) /\ s.j \in Int /\ s = [res |-> s.res, j |-> s.j]
  BY DEF Fillings
<1>2. Len(s.res[i]) \in Nat /\ f.min[i] \in Int /\ j \in Int
  BY <1>1, RowIs, FormIs, Constants
<1>3. d \in Int
  BY <1>2
<1>4. t = IF Len(s.res[i]) >= f.min[i] THEN s ELSE [res |-> r, j |-> j + 1]
  BY DEF FillFrom
<1>5. d <= 0 <=> Len(s.res[i]) >= f.min[i]
  BY <1>2
<1>6. d <= 0 => r = s.res
  BY DEF Give
<1> HIDE DEF d
<1>7. r \in Standings(V, {})
  BY <1>1, <1>3, GiveIs
<1> HIDE DEF r
<1>8. t.res = r
  BY <1>4, <1>5, <1>6
<1>9. t \in Fillings(V)
  BY <1>2, <1>4, <1>7 DEF Fillings
<1> QED BY <1>8, <1>9 DEF r, d

RowsAfter(i) == {k \in Rows : k > i}

LEMMA RowsFrom ==
  ASSUME NEW i \in Rows, NEW a \in Int, a > i, NEW js, js = SubSeq(Upwards, a, MAX_TEAMROWS)
  PROVE  js \in Seq(RowsAfter(i))
<1> DEFINE R == MAX_TEAMROWS
           C == RowsAfter(i)
           u == Upwards
<1>1. Rows = 1 .. R /\ R \in Int /\ i \in 1 .. R /\ i \in Int /\ \A k \in Rows : u[k] = k
  BY Constants, UpwardsIs
<1>2. js = SubSeq(u, a, R)
  OBVIOUS
<1> HIDE DEF R, u
<1>3. \A k \in a .. R : k \in Rows /\ k > i
  BY <1>1
<1>4. \A k \in a .. R : u[k] \in C
  BY <1>1, <1>3 DEF RowsAfter
<1> HIDE DEF C
<1>5. SubSeq(u, a, R) \in Seq(C)
  BY <1>1, <1>4, SubSeqProperties
<1> QED BY <1>2, <1>5 DEF C

\* x is how row i is filled up.
FillsRow(x, V, f, s, i, js) ==
  /\ x[0] = s /\ x[Len(js)] = FillRow(f, s, i)
  /\ \A k \in 0 .. Len(js) : x[k] \in Fillings(V)
  /\ \A k \in 1 .. Len(js) : x[k] = FillFrom(f, x[k - 1], i, js[k])

LEMMA FillRowRun ==
  ASSUME NEW V, NEW f \in Forms, NEW s \in Fillings(V), NEW i \in Rows,
         NEW js, js = SubSeq(Upwards, Max({s.j, i + 1}), MAX_TEAMROWS)
  PROVE  /\ js \in Seq(RowsAfter(i))
         /\ \E x : FillsRow(x, V, f, s, i, js)
<1> DEFINE n == Len(js)
           T == Fillings(V)
           C == RowsAfter(i)
           Step(a, j) == FillFrom(f, a, i, j)
           g == [y \in T \X C |-> Step(y[1], y[2])]
           F(h) == [S \in SUBSET DOMAIN js |->
                      IF S = {} THEN s ELSE Step(h[S \ {Max(S)}], js[Max(S)])]
           z == CHOOSE h : h = F(h)
<1>0. js \in Seq(C)
  <2> DEFINE b == s.j
             c == i + 1
             a == Max({b, c})
  <2>1. b \in Int /\ c \in Int /\ i \in Int /\ c = i + 1
    BY Constants DEF Fillings
  <2>2. js = SubSeq(Upwards, a, MAX_TEAMROWS) /\ a = Max({b, c})
    OBVIOUS
  <2> HIDE DEF a, b, c, C
  <2>3. a \in Int /\ a >= c
    BY <2>1, <2>2, Larger, Zenon
  <2>4. a > i
    BY <2>1, <2>3
  <2> QED BY <2>2, <2>3, <2>4, RowsFrom DEF C
<1>1. n \in Nat /\ DOMAIN js = 1 .. n /\ \A k \in 1 .. n : js[k] \in C
  <2> HIDE DEF C
  <2> QED BY <1>0, LenProperties
<1>2. ASSUME NEW a \in T, NEW j \in C PROVE Step(a, j) \in T
  <2>1. j \in Rows /\ i # j
    BY Constants DEF RowsAfter
  <2> QED BY <2>1, FillFromIs
<1>3. s \in T
  OBVIOUS
<1>4. FillRow(f, s, i) = z[DOMAIN js]
  BY DEF FillRow, FoldLeft, MapThenFoldSet
<1>5. \A a, j : Step(a, j) = FillFrom(f, a, i, j)
  OBVIOUS
<1> HIDE DEF T, C, Step, n
<1>6. PICK h : Folds(h, T, s, g, js)
  <2>1. g \in [T \X C -> T]
    BY <1>2
  <2> HIDE DEF g
  <2> QED BY <1>0, <1>3, <2>1, FoldExists
<1>7. h = F(h)
  <2>1. ASSUME NEW S \in SUBSET DOMAIN js, S # {}
        PROVE  g[<<h[S \ {Max(S)}], js[Max(S)]>>] = Step(h[S \ {Max(S)}], js[Max(S)])
    <3>1. Max(S) \in DOMAIN js
      BY <1>1, <2>1, MaxOfPositions
    <3>2. h[S \ {Max(S)}] \in T /\ js[Max(S)] \in C
      BY <1>1, <1>6, <3>1 DEF Folds
    <3> QED BY <3>2
  <2> HIDE DEF g
  <2> QED BY <1>6, <2>1 DEF Folds
<1>8. z = F(z)
  <2> HIDE DEF F
  <2> QED BY <1>7
<1> HIDE DEF z
<1> DEFINE x == [k \in 0 .. n |-> z[1 .. k]]
<1>9. x[0] = s
  <2>1. 1 .. 0 = {} /\ 0 \in 0 .. n
    BY <1>1
  <2> QED BY <1>8, <2>1
<1>10. ASSUME NEW k \in 1 .. n PROVE x[k] = Step(x[k - 1], js[k])
  <2>1. /\ 1 .. k # {} /\ 1 .. k \in SUBSET (1 .. n)
        /\ Max(1 .. k) = k /\ (1 .. k) \ {k} = 1 .. (k - 1)
    BY <1>1, MaxOfUpTo
  <2>2. k \in 0 .. n /\ k - 1 \in 0 .. n
    BY <1>1
  <2>3. z[1 .. k] = Step(z[1 .. (k - 1)], js[k])
    BY <1>1, <1>8, <2>1
  <2> QED BY <2>2, <2>3
<1>11. x[n] = FillRow(f, s, i)
  BY <1>1, <1>4
<1> HIDE DEF x
<1>12. \A k \in 0 .. n : x[k] \in T
  <2>1. \A k \in 1 .. n : x[k - 1] \in T => x[k] \in T
    BY <1>1, <1>2, <1>10
  <2> QED BY <1>1, <1>3, <1>9, <2>1, StaysIn
<1>13. \A k \in 1 .. n : x[k] = FillFrom(f, x[k - 1], i, js[k])
  BY <1>1, <1>5, <1>10
<1>14. FillsRow(x, V, f, s, i, js)
  BY <1>9, <1>11, <1>12, <1>13 DEF n, T, FillsRow
<1> QED BY <1>0, <1>14 DEF C

\* The first row is filled up as FillUp() does it.
LEMMA FirstFilled ==
  ASSUME NEW V, NEW f \in Forms, NEW s \in Fillings(V), s.j = 1, NEW t, t = FillRow(f, s, 1)
  PROVE  t \in Fillings(V) /\ Behind(Ahead(s.res), Ahead(t.res), 1, f.min[1], MAX_TEAMROWS)
<1> DEFINE js == SubSeq(Upwards, 1 + 1, MAX_TEAMROWS)
           r == s.res
           m == f.min
           n == Len(js)
           q == FillUp(r, m, 1, js)
<1>1. 1 \in Rows /\ m[1] \in Int /\ r \in Standings(V, {})
  BY Constants, FormIs DEF Fillings
<1>2. Max({s.j, 1 + 1}) = 1 + 1
  <2> DEFINE b == s.j
             c == 1 + 1
             a == Max({b, c})
  <2>1. b \in Int /\ c \in Int /\ b = 1 /\ c = 2 /\ a = Max({b, c})
    BY DEF Fillings
  <2> HIDE DEF a, b, c
  <2>2. a \in Int /\ a >= c /\ a \in {b, c}
    BY <2>1, Larger, Zenon
  <2>3. a = c
    BY <2>1, <2>2
  <2> QED BY <2>3 DEF a, b, c
<1>3. js \in Seq(Rows \ {1}) /\ n \in Nat /\ \A k \in 1 .. n : js[k] \in Rows \ {1}
  <2>1. js \in Seq(Rows \ {1})
    BY <1>1, RowsBehind
  <2> HIDE DEF js
  <2> QED BY <2>1, LenProperties
<1>4. js = SubSeq(Upwards, Max({s.j, 1 + 1}), MAX_TEAMROWS)
  BY <1>2
<1> HIDE DEF js, r, m
<1>5. PICK x : /\ x[0] = s /\ x[n] = t
               /\ \A k \in 0 .. n : x[k] \in Fillings(V)
               /\ \A k \in 1 .. n : x[k] = FillFrom(f, x[k - 1], 1, js[k])
  <2>1. \E x : FillsRow(x, V, f, s, 1, js)
    BY <1>1, <1>4, FillRowRun
  <2> QED BY <2>1 DEF FillsRow
<1>6. PICK y : Filling(y, V, {}, 1, m[1], js) /\ y[0] = r /\ y[n] = q
  BY <1>1, <1>3, FillUpIs
<1> DEFINE Q == {k \in 0 .. n : x[k].res = y[k]}
<1>7. 0 \in Q
  BY <1>3, <1>5, <1>6 DEF r
<1>8. ASSUME NEW k \in 1 .. n, k - 1 \in Q PROVE k \in Q
  <2> DEFINE a == x[k - 1]
             b == x[k]
             c == y[k - 1]
             j == js[k]
  <2>1. k \in 0 .. n /\ k - 1 \in 0 .. n
    BY <1>3
  <2>2. a \in Fillings(V) /\ b = FillFrom(f, a, 1, j) /\ j \in Rows /\ j # 1 /\ a.res = c
    BY <1>3, <1>5, <1>8, <2>1
  <2>3. y[k] = Give(c, j, 1, m[1] - Len(c[1]))
    BY <1>6 DEF Filling
  <2> HIDE DEF a, b, c, j
  <2>4. b.res = Give(a.res, j, 1, f.min[1] - Len(a.res[1]))
    BY <1>1, <2>2, FillFromIs
  <2> QED BY <2>1, <2>2, <2>3, <2>4 DEF b, m
<1>9. \A k \in 0 .. n : k \in Q
  <2> HIDE DEF Q
  <2> QED BY <1>3, <1>7, <1>8, Stepwise
<1>10. n \in 0 .. n
  BY <1>3
<1>11. t \in Fillings(V) /\ t.res = q
  BY <1>5, <1>6, <1>9, <1>10
<1>12. Behind(Ahead(r), Ahead(q), 1, m[1], MAX_TEAMROWS)
  <2>1. q = FillUp(r, m, 1, SubSeq(Upwards, 1 + 1, MAX_TEAMROWS))
    BY DEF js
  <2> HIDE DEF q
  <2> QED BY <1>1, <2>1, FilledFromBehind
<1> QED BY <1>11, <1>12 DEF r, m

\* The others do not take from it.
LEMMA OthersFilled ==
  ASSUME NEW V, NEW f \in Forms, NEW s \in Fillings(V), NEW i \in Rows, i # 1,
         NEW t, t = FillRow(f, s, i)
  PROVE  t \in Fillings(V) /\ Ahead(t.res)[1] = Ahead(s.res)[1]
<1> DEFINE js == SubSeq(Upwards, Max({s.j, i + 1}), MAX_TEAMROWS)
           n == Len(js)
           C == RowsAfter(i)
           m == f.min[i]
<1>1. js = SubSeq(Upwards, Max({s.j, i + 1}), MAX_TEAMROWS)
  OBVIOUS
<1> HIDE DEF js
<1>2. js \in Seq(C)
  BY <1>1, FillRowRun
<1>3. PICK x : /\ x[0] = s /\ x[n] = t
               /\ \A k \in 0 .. n : x[k] \in Fillings(V)
               /\ \A k \in 1 .. n : x[k] = FillFrom(f, x[k - 1], i, js[k])
  <2>1. \E x : FillsRow(x, V, f, s, i, js)
    BY <1>1, FillRowRun
  <2> QED BY <2>1 DEF FillsRow
<1>4. n \in Nat /\ \A k \in 1 .. n : js[k] \in Rows /\ js[k] > i
  <2> HIDE DEF C
  <2>1. n \in Nat /\ \A k \in 1 .. n : js[k] \in C
    BY <1>2, LenProperties
  <2> QED BY <2>1 DEF C, RowsAfter
<1>5. m \in Int /\ i \in Int /\ i > 1
  BY FormIs, Constants
<1> DEFINE Q == {k \in 0 .. n : Ahead(x[k].res)[1] = Ahead(s.res)[1]}
<1>6. 0 \in Q
  BY <1>3, <1>4
<1>7. ASSUME NEW k \in 1 .. n, k - 1 \in Q PROVE k \in Q
  <2> DEFINE a == x[k - 1]
             b == x[k]
             j == js[k]
             u == a.res
             v == b.res
             p == Ahead(u)
             q == Ahead(v)
             d == m - Len(u[i])
  <2>1. k \in 0 .. n /\ k - 1 \in 0 .. n
    BY <1>4
  <2>2. a \in Fillings(V) /\ b \in Fillings(V) /\ b = FillFrom(f, a, i, j) /\ j \in Rows /\ j > i
    BY <1>3, <1>4, <2>1
  <2>3. u \in Standings(V, {}) /\ v \in Standings(V, {})
    BY <2>2 DEF Fillings
  <2> HIDE DEF a, b, j
  <2>4. v = Give(u, j, i, d)
    BY <1>5, <2>2, FillFromIs
  <2> HIDE DEF u, v, m
  <2>5. Len(u[i]) \in Int
    BY <2>3, RowIs
  <2>6. d \in Int /\ i # j /\ j \in Int
    BY <1>5, <2>2, <2>5, Constants
  <2> HIDE DEF d
  <2>7. Gives(Lens(u), Lens(v), j, i, d)
    BY <2>2, <2>3, <2>4, <2>6, GiveIs
  <2>8. Shifts(p, q, j, i, d)
    BY <2>2, <2>3, <2>6, <2>7, GivesShifts
  <2>9. 1 \in 0 .. MAX_TEAMROWS /\ p[1] \in Int
    <3>1. IsTable(p)
      BY <2>3, AheadIs
    <3>2. 1 \in 0 .. MAX_TEAMROWS
      BY Constants
    <3> HIDE DEF p
    <3> QED BY <3>1, <3>2 DEF IsTable
  <2> HIDE DEF p, q
  <2>10. q[1] = p[1] + 0 - 0
    BY <1>5, <2>2, <2>6, <2>8, <2>9 DEF Shifts
  <2>11. q[1] = p[1]
    BY <2>9, <2>10
  <2>12. p[1] = Ahead(s.res)[1]
    BY <1>7 DEF p, u, a
  <2> QED BY <2>1, <2>11, <2>12 DEF q, v, b
<1>8. \A k \in 0 .. n : k \in Q
  <2> HIDE DEF Q
  <2> QED BY <1>4, <1>6, <1>7, Stepwise
<1>9. n \in 0 .. n
  BY <1>4
<1> QED BY <1>3, <1>8, <1>9

LEMMA FillRowStands ==
  ASSUME NEW V, NEW f \in Forms, NEW s \in Fillings(V), NEW i \in Rows
  PROVE  FillRow(f, s, i) \in Fillings(V)
<1> DEFINE js == SubSeq(Upwards, Max({s.j, i + 1}), MAX_TEAMROWS)
           t == FillRow(f, s, i)
<1>1. js \in Seq(RowsAfter(i)) /\ \E x : FillsRow(x, V, f, s, i, js)
  BY FillRowRun
<1>2. PICK x : FillsRow(x, V, f, s, i, js)
  BY <1>1
<1>3. Len(js) \in Nat
  <2> HIDE DEF js
  <2> QED BY <1>1, LenProperties
<1>4. Len(js) \in 0 .. Len(js)
  <2> DEFINE n == Len(js)
  <2> HIDE DEF n
  <2>1. n \in Nat
    BY <1>3 DEF n
  <2>2. n \in 0 .. n
    BY <2>1
  <2> QED BY <2>2 DEF n
<1> QED BY <1>2, <1>4 DEF FillsRow

\* Row by row.
LEMMA FillRowsRun ==
  ASSUME NEW V, NEW r \in Fillings(V), r.j = 1, NEW f \in Forms,
         NEW there, r = [res |-> there, j |-> 1]
  PROVE  \E x : /\ x[0] = r /\ x[MAX_TEAMROWS].res = FillRows(f, there)
                /\ \A k \in 0 .. MAX_TEAMROWS : x[k] \in Fillings(V)
                /\ \A k \in Rows : x[k] = FillRow(f, x[k - 1], Upwards[k])
<1> DEFINE n == MAX_TEAMROWS
           js == Upwards
           T == Fillings(V)
           C == Rows
           Step(a, j) == FillRow(f, a, j)
           g == [y \in T \X C |-> Step(y[1], y[2])]
           F(h) == [S \in SUBSET DOMAIN js |->
                      IF S = {} THEN r ELSE Step(h[S \ {Max(S)}], js[Max(S)])]
           z == CHOOSE h : h = F(h)
<1>1. n \in Nat /\ DOMAIN js = 1 .. n /\ (\A k \in 1 .. n : js[k] \in C) /\ js \in Seq(C) /\ Rows = 1 .. n
  <2>1. js \in Seq(C) /\ Len(js) = n /\ n \in Nat
    BY Constants, UpwardsIs
  <2> HIDE DEF js, n, C
  <2>2. DOMAIN js = 1 .. n /\ \A k \in 1 .. n : js[k] \in C
    BY <2>1, LenProperties
  <2> QED BY <2>1, <2>2, Constants DEF n
<1>2. ASSUME NEW a \in T, NEW j \in C PROVE Step(a, j) \in T
  BY FillRowStands
<1>3. r \in T
  OBVIOUS
<1>4. FillRows(f, there) = z[DOMAIN js].res
  BY DEF FillRows, FoldLeft, MapThenFoldSet
<1>5. \A a, j : Step(a, j) = FillRow(f, a, j)
  OBVIOUS
<1> HIDE DEF T, C, Step, n, js
<1>6. PICK h : Folds(h, T, r, g, js)
  <2>1. g \in [T \X C -> T]
    BY <1>2
  <2> HIDE DEF g
  <2> QED BY <1>1, <1>3, <2>1, FoldExists
<1>7. h = F(h)
  <2>1. ASSUME NEW S \in SUBSET DOMAIN js, S # {}
        PROVE  g[<<h[S \ {Max(S)}], js[Max(S)]>>] = Step(h[S \ {Max(S)}], js[Max(S)])
    <3>1. Max(S) \in DOMAIN js
      BY <1>1, <2>1, MaxOfPositions
    <3>2. h[S \ {Max(S)}] \in T /\ js[Max(S)] \in C
      BY <1>1, <1>6, <3>1 DEF Folds
    <3> QED BY <3>2
  <2> HIDE DEF g
  <2> QED BY <1>6, <2>1 DEF Folds
<1>8. z = F(z)
  <2> HIDE DEF F
  <2> QED BY <1>7
<1> HIDE DEF z
<1> DEFINE x == [k \in 0 .. n |-> z[1 .. k]]
<1>9. x[0] = r
  <2>1. 1 .. 0 = {} /\ 0 \in 0 .. n
    BY <1>1
  <2> QED BY <1>8, <2>1
<1>10. ASSUME NEW k \in 1 .. n PROVE x[k] = Step(x[k - 1], js[k])
  <2>1. /\ 1 .. k # {} /\ 1 .. k \in SUBSET (1 .. n)
        /\ Max(1 .. k) = k /\ (1 .. k) \ {k} = 1 .. (k - 1)
    BY <1>1, MaxOfUpTo
  <2>2. k \in 0 .. n /\ k - 1 \in 0 .. n
    BY <1>1
  <2>3. z[1 .. k] = Step(z[1 .. (k - 1)], js[k])
    BY <1>1, <1>8, <2>1
  <2> QED BY <2>2, <2>3
<1>11. x[n].res = FillRows(f, there)
  BY <1>1, <1>4
<1> HIDE DEF x
<1>12. \A k \in 0 .. n : x[k] \in T
  <2>1. \A k \in 1 .. n : x[k - 1] \in T => x[k] \in T
    BY <1>1, <1>2, <1>10
  <2> QED BY <1>1, <1>3, <1>9, <2>1, StaysIn
<1>13. \A k \in Rows : x[k] = FillRow(f, x[k - 1], js[k])
  BY <1>1, <1>5, <1>10
<1> QED BY <1>9, <1>11, <1>12, <1>13 DEF n, T, js

\* Somebody stands in the first row, if it should have anyone.
LEMMA FillRowsIs ==
  ASSUME NEW V, V # {}, NEW r \in Standings(V, {}), NEW f \in Forms, f.min[1] >= 1
  PROVE  FillRows(f, r) \in Standings(V, {}) /\ Len(FillRows(f, r)[1]) >= 1
<1> DEFINE R == MAX_TEAMROWS
           s == [res |-> r, j |-> 1]
           q == FillRows(f, r)
<1>1. s \in Fillings(V) /\ s.j = 1 /\ s.res = r /\ f.min[1] \in Int
  BY FormIs, Constants DEF Fillings
<1>2. R \in Nat /\ Rows = 1 .. R /\ R >= 1 /\ 1 \in Rows
  BY Constants
<1>3. PICK x : /\ x[0] = s /\ x[R].res = q
               /\ \A k \in 0 .. R : x[k] \in Fillings(V)
               /\ \A k \in Rows : x[k] = FillRow(f, x[k - 1], Upwards[k])
  <2> HIDE DEF s
  <2>1. s = [res |-> r, j |-> 1]
    BY DEF s
  <2> QED BY <1>1, <2>1, FillRowsRun
<1> HIDE DEF s, q
<1> DEFINE Q == {k \in 0 .. R : k >= 1 => Ahead(x[k].res)[1] >= 1}
<1>4. 0 \in Q
  BY <1>2
<1>5. ASSUME NEW k \in 1 .. R, k - 1 \in Q PROVE k \in Q
  <2> DEFINE a == x[k - 1]
             b == x[k]
  <2>1. k \in 0 .. R /\ k - 1 \in 0 .. R /\ k \in Int /\ k \in Rows
    BY <1>2
  <2>2. a \in Fillings(V) /\ b \in Fillings(V) /\ b = FillRow(f, a, k)
    BY <1>3, <2>1, UpwardsIs
  <2>3. k # 1 => Ahead(a.res)[1] >= 1
    BY <1>5, <2>1
  <2>4. k = 1 => a = s
    BY <1>3
  <2> HIDE DEF a, b
  <2>5. CASE k # 1
    <3>1. Ahead(b.res)[1] = Ahead(a.res)[1]
      BY <2>1, <2>2, <2>5, OthersFilled
    <3> QED BY <2>1, <2>3, <2>5, <3>1 DEF b
  <2>6. CASE k = 1
    <3> DEFINE v == b.res
               p == Ahead(s.res)
               c == Ahead(v)
    <3>1. Behind(p, c, 1, f.min[1], R)
      BY <1>1, <2>2, <2>4, <2>6, FirstFilled
    <3>2. v \in Standings(V, {})
      BY <2>2 DEF Fillings
    <3> HIDE DEF v
    <3>3. IsTable(c)
      BY <3>2, AheadIs
    <3>4. c[R] >= 1
      <4>1. IsFiniteSet(V) /\ Upto(v, R) = Cardinality(V)
        BY <3>2, AllCounted
      <4>2. Cardinality(V) \in Nat /\ Cardinality(V) # 0
        BY <4>1, FS_CardinalityType, FS_EmptySet
      <4>3. c[R] = Cardinality(V)
        BY <1>2, <4>1 DEF Ahead
      <4> QED BY <4>2, <4>3
    <3> HIDE DEF c, p, R
    <3>5. c[0] = 0 /\ c[1] \in Int
      BY <1>2, <3>3 DEF IsTable, R
    <3>6. c[1] - c[1 - 1] >= f.min[1] \/ c[1] = c[R]
      BY <3>1 DEF Behind
    <3>7. c[1] >= 1
      <4>1. 1 - 1 = 0
        OBVIOUS
      <4> QED BY <1>1, <3>4, <3>5, <3>6, <4>1
    <3> QED BY <2>1, <2>6, <3>7 DEF c, v, b
  <2> QED BY <2>5, <2>6
<1>6. \A k \in 0 .. R : k \in Q
  <2> HIDE DEF Q
  <2> QED BY <1>2, <1>4, <1>5, Stepwise
<1>7. R \in 0 .. R
  BY <1>2
<1>8. q \in Standings(V, {}) /\ Ahead(q)[1] >= 1
  BY <1>2, <1>3, <1>6, <1>7 DEF Fillings
<1>9. Ahead(q)[0] = 0 /\ Ahead(q)[1] - Ahead(q)[1 - 1] = Len(q[1]) /\ Len(q[1]) \in Nat /\ Ahead(q)[1] \in Int
  <2>1. IsTable(Ahead(q)) /\ Ahead(q)[1] - Ahead(q)[1 - 1] = Len(q[1]) /\ Len(q[1]) \in Nat
    BY <1>2, <1>8, AheadIs, RowIs
  <2>2. 1 \in 0 .. R
    BY <1>2
  <2> DEFINE c == Ahead(q)
  <2> HIDE DEF c, R
  <2>3. IsTable(c) => c[0] = 0 /\ c[1] \in Int
    BY <2>2 DEF IsTable, R
  <2> QED BY <2>1, <2>3 DEF c
<1>10. Len(q[1]) >= 1
  <2> DEFINE c == Ahead(q)
             l == Len(q[1])
  <2>1. c[1] >= 1 /\ c[0] = 0 /\ c[1] - c[1 - 1] = l /\ l \in Nat /\ c[1] \in Int
    BY <1>8, <1>9
  <2> HIDE DEF c, l
  <2>2. 1 - 1 = 0
    OBVIOUS
  <2>3. l >= 1
    BY <2>1, <2>2
  <2> QED BY <2>3 DEF l
<1> QED BY <1>8, <1>10 DEF q

\* Those who are there stand as they stood.
There(r, W) == SubSeq([i \in Rows |-> Those(r[i], W)], 1, MAX_TEAMROWS)

LEMMA ThereIs ==
  ASSUME NEW M, NEW G, NEW r \in Standings(M, G), NEW W \in SUBSET M,
         NEW q, q = There(r, W)
  PROVE  q \in Standings(W, {})
<1> DEFINE C == M \cup G
           p == [i \in Rows |-> Those(r[i], W)]
<1>1. q = p
  <2>1. p = [i \in Rows |-> p[i]]
    OBVIOUS
  <2>2. q = SubSeq(p, 1, MAX_TEAMROWS)
    BY DEF There
  <2> HIDE DEF p
  <2> QED BY <2>1, <2>2, RowsOf
<1>2. ASSUME NEW i \in Rows
      PROVE  p[i] \in Seq(W \cup {}) /\ IsInjective(p[i]) /\ ToSet(p[i]) = ToSet(r[i]) \cap W
  <2> DEFINE s == r[i]
             t == Those(s, W)
  <2>1. s \in Seq(C) /\ IsInjective(s)
    BY DEF Standings
  <2>2. p[i] = t
    OBVIOUS
  <2> HIDE DEF s, C, p
  <2>3. t \in Seq(C \cap W) /\ IsInjective(t) /\ ToSet(t) = ToSet(s) \cap W
    BY <2>1, ThoseIn, ThoseOnce, ThoseHas
  <2> HIDE DEF t
  <2>4. C \cap W = W \cup {}
    BY DEF C
  <2> QED BY <2>2, <2>3, <2>4 DEF s
<1>3. p \in [Rows -> Seq(W \cup {})]
  <2>1. p = [i \in Rows |-> p[i]]
    OBVIOUS
  <2> HIDE DEF p
  <2> QED BY <1>2, <2>1
<1> HIDE DEF p
<1>4. \A m \in W : \E i \in Rows : m \in ToSet(p[i])
  <2>1. \A m \in M : \E i \in Rows : m \in ToSet(r[i])
    BY DEF Standings
  <2> QED BY <1>2, <2>1
<1>5. \A i, j \in Rows : i # j => ToSet(p[i]) \cap ToSet(p[j]) = {}
  <2>1. \A i, j \in Rows : i # j => ToSet(r[i]) \cap ToSet(r[j]) = {}
    BY DEF Standings
  <2> QED BY <1>2, <2>1
<1> QED BY <1>1, <1>2, <1>3, <1>4, <1>5 DEF Standings

\* One row after the other is that row, if there is one.
LEMMA FlattenOne ==
  ASSUME NEW s, Len(s) = 1
  PROVE  FlattenSeq(s) = s[1]
<1> DEFINE F(h) == [i \in 1 .. Len(s) |-> IF i = 1 THEN s[i] ELSE h[i - 1] \o s[i]]
           flat == CHOOSE h : h = F(h)
           w == [i \in 1 .. 1 |-> s[1]]
<1>1. FlattenSeq(s) = flat[1]
  BY DEF FlattenSeq
<1>2. F(w) = w
  OBVIOUS
<1>3. flat = F(flat)
  <2> HIDE DEF F, w
  <2> QED BY <1>2
<1> HIDE DEF flat
<1> QED BY <1>1, <1>3

LEMMA PresentFirst ==
  ASSUME NEW M, NEW G, NEW r \in Standings(M, G), NEW f \in Forms,
         f.min[1] >= 1, f.min[1] <= Len(r[1]),
         NEW here \in SUBSET M, NEW dead, here \ dead # {}
  PROVE  PresentRows(f, r, here, dead)[1] # <<>>
<1> DEFINE R == MAX_TEAMROWS
           W == here \ dead
           there == There(r, W)
           lost == Those(FlattenSeq(r), here \cap dead)
           q == FillRows(f, there)
           p == PresentRows(f, r, here, dead)
<1>1. R \in Nat /\ 1 \in Rows /\ Rows = 1 .. R /\ R \in Rows /\ f.min[1] \in Int
  BY Constants, FormIs
<1>2. p = IF there = r THEN r ELSE [q EXCEPT ![R] = q[R] \o lost]
  BY DEF PresentRows, ByRow, There
<1>3. \A t : Len(t) >= 1 => t # <<>>
  <2>1. Len(<<>>) = 0
    OBVIOUS
  <2> QED BY <2>1
<1>4. CASE there = r
  <2>1. Len(r[1]) \in Nat
    BY <1>1, RowIs
  <2>2. Len(r[1]) >= 1
    BY <1>1, <2>1
  <2> QED BY <1>2, <1>3, <1>4, <2>2
<1>5. CASE there # r
  <2>1. there \in Standings(W, {})
    BY ThereIs
  <2> HIDE DEF there, W
  <2>2. q \in Standings(W, {}) /\ Len(q[1]) >= 1
    BY <2>1, FillRowsIs DEF W
  <2> HIDE DEF q, p, lost
  <2>3. q[1] \in Seq(W) /\ Len(q[1]) \in Nat /\ DOMAIN q = Rows
    <3>1. q[1] \in Seq(W \cup {}) /\ Len(q[1]) \in Nat
      BY <1>1, <2>2, RowIs
    <3>2. W \cup {} = W
      OBVIOUS
    <3> QED BY <2>2, <3>1, <3>2 DEF Standings
  <2>4. CASE R # 1
    <3>1. p[1] = q[1]
      BY <1>1, <1>2, <1>5, <2>3, <2>4
    <3> QED BY <1>3, <2>2, <3>1 DEF p
  <2>5. CASE R = 1
    <3>1. p[1] = q[1] \o lost
      BY <1>1, <1>2, <1>5, <2>3, <2>5
    <3> DEFINE C == M \cup G \cup W
    <3>2. lost \in Seq(C) /\ q[1] \in Seq(C)
      <4> DEFINE X == here \cap dead
                 a == r[1]
      <4>1. r[1] \in Seq(M \cup G)
        BY <1>1, RowIs
      <4>2. FlattenSeq(r) = r[1]
        <5>1. r \in [1 .. 1 -> Seq(M \cup G)] /\ 1 \in Nat
          BY <1>1, <2>5 DEF Standings
        <5> DEFINE S == Seq(M \cup G)
        <5> HIDE DEF S
        <5>2. Len(r) = 1
          BY <5>1, IsSequence DEF S
        <5> QED BY <5>2, FlattenOne
      <4>3. lost = Those(a, X)
        BY <4>2 DEF lost
      <4>4. a \in Seq(M \cup G)
        BY <4>1
      <4> HIDE DEF X, a, C
      <4>5. lost \in Seq((M \cup G) \cap X)
        BY <4>3, <4>4, ThoseIn
      <4>6. (M \cup G) \cap X \subseteq C /\ W \subseteq C
        BY DEF C
      <4> QED BY <2>3, <4>5, <4>6
    <3> HIDE DEF C
    <3>3. Len(q[1] \o lost) = Len(q[1]) + Len(lost) /\ Len(lost) \in Nat
      BY <3>2, ConcatProperties, LenProperties
    <3>4. Len(p[1]) >= 1
      BY <2>2, <2>3, <3>1, <3>3
    <3> QED BY <1>3, <3>4 DEF p
  <2> QED BY <2>4, <2>5
<1> QED BY <1>4, <1>5

-----------------------------------------------------------------------------
(* One comes, one goes.                                                    *)

Raw == [members : SUBSET Living, leader : Living \cup {None},
        caster : [Npcs -> Players \cup {None}],
        form : Forms, rows : [Rows -> Seq(Living)]]

Places == MAX_TEAMROWS * MAX_TEAM_ROWLEN

\* The rows are as long as was wanted; roomy says that there was a place for
\* everybody all the time.
Formed(roomy, t) ==
  /\ t.form.min[1] >= 1
  /\ \A i \in Rows : t.form.min[i] <= Len(t.rows[i])
  /\ roomy /\ Cardinality(t.members) <= Places => InOrder(t.form, t.rows)

\* t with other rows, which have lengths that there are.
Arranged(t, u) ==
  /\ u \in Raw
  /\ u.members = t.members /\ u.leader = t.leader /\ u.caster = t.caster
  /\ Short(u.form) /\ u.rows \in Standings(t.members, {})
  /\ t.members # {} => Formed(TRUE, u)

LEMMA SizeIs ==
  ASSUME NEW V \in SUBSET Living, NEW order \in Orders
  PROVE  Cardinality(V) \in Nat /\ (V # {} => Cardinality(V) >= 1)
<1>1. order \in Seq(Living) /\ ToSet(order) = Living
  BY Constants
<1>2. IsFiniteSet(DOMAIN order)
  <2>1. Len(order) \in Int /\ DOMAIN order = 1 .. Len(order) /\ 1 \in Int
    BY <1>1, LenProperties
  <2> QED BY <2>1, FS_Interval
<1>3. Living = {order[i] : i \in DOMAIN order}
  BY <1>1 DEF ToSet
<1>4. IsFiniteSet(Living)
  <2> DEFINE D == DOMAIN order
             f == [i \in D |-> order[i]]
  <2>1. f \in Surjection(D, Living)
    BY <1>3 DEF Surjection
  <2> HIDE DEF D, f
  <2> QED BY <1>2, <2>1, FS_Surjection DEF D
<1>5. IsFiniteSet(V)
  BY <1>4, FS_Subset
<1>6. Cardinality(V) \in Nat /\ (Cardinality(V) = 0 <=> V = {})
  BY <1>5, FS_CardinalityType, FS_EmptySet
<1> QED BY <1>6

LEMMA RearrangedIs ==
  ASSUME NEW t \in Raw, NEW form \in Wishes, NEW x, NEW order \in Orders, NEW f,
         f = CheckFormation(form, Cardinality(t.members))
  PROVE  /\ Arranged(t, [t EXCEPT !.form = f, !.rows = MakeFormation(f, x, t.members, order)])
         /\ Arranged(t, [t EXCEPT !.rows = MakeFormation(f, x, t.members, order), !.form = f])
<1> DEFINE r == MakeFormation(f, x, t.members, order)
           u == [t EXCEPT !.form = f, !.rows = r]
<1>1. t.members \in SUBSET Living
  BY DEF Raw
<1> DEFINE num == Cardinality(t.members)
<1>0. num \in Nat /\ (t.members # {} => num >= 1)
  BY <1>1, SizeIs
<1>2. /\ f \in Forms /\ Short(f) /\ SumTo(f.min, MAX_TEAMROWS) <= num
      /\ num >= 1 => f.min[1] >= 1
      /\ num <= Places => num <= SumTo(f.max, MAX_TEAMROWS)
  <2> HIDE DEF num
  <2>1. Fits(CheckFormation(form, num), num)
    BY <1>0, CheckFormationIs
  <2> QED BY <2>1 DEF num, Fits, Places
<1>3. r \in Standings(t.members, {})
  BY <1>1, MakeFormationIs
<1>4. r \in [Rows -> Seq(Living)]
  <2>1. \A i \in Rows : r[i] \in Seq(t.members \cup {})
    BY <1>3 DEF Standings
  <2>2. t.members \cup {} \subseteq Living
    BY <1>1
  <2>3. r = [i \in Rows |-> r[i]]
    BY <1>3 DEF Standings
  <2> HIDE DEF r
  <2>4. \A i \in Rows : r[i] \in Seq(Living)
    BY <2>1, <2>2
  <2> QED BY <2>3, <2>4
<1>6. Settled(f, r, num)
  BY <1>1, <1>2, FormationSettles
<1> HIDE DEF r
<1>5. /\ u \in Raw /\ u.members = t.members /\ u.leader = t.leader /\ u.caster = t.caster
      /\ u.form = f /\ u.rows = r /\ u = [t EXCEPT !.rows = r, !.form = f]
  BY <1>2, <1>4 DEF Raw
<1>7. t.members # {} => Formed(TRUE, u)
  BY <1>0, <1>2, <1>5, <1>6 DEF Formed, Settled
<1> QED BY <1>2, <1>3, <1>5, <1>7 DEF Arranged, r

LEMMA DoChangeRowIs ==
  ASSUME NEW t \in Raw, NEW pl, NEW dest, NEW order \in Orders
  PROVE  Arranged(t, DoChangeRow(t, pl, dest, order))
<1> DEFINE form == CheckFormation(t.form, Cardinality(t.members))
           moved == Moved(t, form, pl, dest, order)
<1>1. t.form \in Wishes
  BY DEF Raw, Forms
<1>2. DoChangeRow(t, pl, dest, order) =
        [t EXCEPT !.form = form, !.rows = MakeFormation(form, moved, t.members, order)]
  BY DEF DoChangeRow
<1> HIDE DEF form, moved
<1>3. form = CheckFormation(t.form, Cardinality(t.members))
  BY DEF form
<1>4. Arranged(t, [t EXCEPT !.form = form, !.rows = MakeFormation(form, moved, t.members, order)])
  BY <1>1, <1>3, RearrangedIs, Zenon
<1> QED BY <1>2, <1>4

LEMMA NewTeamIs ==
  /\ NewTeam \in Raw /\ NewTeam.members = {} /\ NewTeam.leader = None
  /\ NewTeam.caster = [n \in Npcs |-> None]
  /\ \A G : NewTeam.rows \in Standings({}, G)
<1> DEFINE min == [i \in Rows |-> IF i = 1 THEN 1 ELSE 0]
           max == [i \in Rows |-> MAX_TEAMROWS + 1 - i]
           none == <<>>
           rows == [i \in Rows |-> none]
<1>1. NewTeam = [members |-> {}, leader |-> None, caster |-> [n \in Npcs |-> None],
                 form |-> [min |-> min, max |-> max], rows |-> rows]
  <2>1. /\ min = [i \in Rows |-> min[i]] /\ max = [i \in Rows |-> max[i]]
        /\ rows = [i \in Rows |-> rows[i]]
    OBVIOUS
  <2>2. NewTeam = [members |-> {}, leader |-> None, caster |-> [n \in Npcs |-> None],
                   form |-> [min |-> SubSeq(min, 1, MAX_TEAMROWS),
                             max |-> SubSeq(max, 1, MAX_TEAMROWS)],
                   rows |-> SubSeq(rows, 1, MAX_TEAMROWS)]
    BY DEF NewTeam, ByRow
  <2> HIDE DEF min, max, rows
  <2>3. /\ SubSeq(min, 1, MAX_TEAMROWS) = min /\ SubSeq(max, 1, MAX_TEAMROWS) = max
        /\ SubSeq(rows, 1, MAX_TEAMROWS) = rows
    BY <2>1, RowsOf
  <2> QED BY <2>2, <2>3
<1>2. [min |-> min, max |-> max] \in Forms
  <2>1. \A i \in Rows : /\ min[i] \in Int /\ max[i] \in Int
                        /\ 0 <= min[i] /\ min[i] <= max[i]
    BY Constants
  <2>2. min \in [Rows -> Int] /\ max \in [Rows -> Int]
    BY <2>1
  <2> HIDE DEF min, max
  <2> QED BY <2>1, <2>2 DEF Forms, Wishes
<1>3. \A S : none \in Seq(S) /\ ToSet(none) = {} /\ IsInjective(none)
  <2>1. ToSet(none) = {} /\ IsInjective(none)
    BY DEF ToSet, IsInjective
  <2> QED BY <2>1, EmptySeq
<1> HIDE DEF none, min, max
<1>4. \A G : rows \in Standings({}, G)
  BY <1>3 DEF Standings
<1>5. rows \in [Rows -> Seq(Living)]
  BY <1>3
<1> HIDE DEF rows
<1> QED BY <1>1, <1>2, <1>4, <1>5 DEF Raw

\* What is true of a team of members of A, when the players list the NPCs known:
\* who leads, how they stand, and whom an NPC is associated with.
Good(roomy, A, known) ==
  {t \in Raw :
     /\ t.members \subseteq A /\ t.leader \in A \cup {None}
     /\ t.members # {} => /\ Short(t.form) /\ Formed(roomy, t)
                          /\ t.leader \in t.members \cup {None}
     /\ t.rows \in Standings(t.members, Living \ A)
     /\ \A n \in Npcs, c \in Players : t.caster[n] = c => {n, c} \subseteq t.members /\ n \in known[c]}

LEMMA NewTeamGood ==
  ASSUME NEW roomy, NEW A, NEW known
  PROVE  NewTeam \in Good(roomy, A, known)
<1>1. \A n \in Npcs : NewTeam.caster[n] = None
  BY NewTeamIs
<1>2. None \notin Players
  BY Constants
<1>3. NewTeam.rows \in Standings({}, Living \ A)
  BY NewTeamIs
<1> QED BY <1>1, <1>2, <1>3, NewTeamIs DEF Good

\* t with the members V, the leader l and the casters cs, in some order.
LEMMA ArrangedGood ==
  ASSUME NEW roomy, NEW A, NEW known, NEW t \in Raw, NEW u, Arranged(t, u),
         t.members \subseteq A, t.leader \in A \cup {None},
         t.members # {} => t.leader \in t.members \cup {None},
         \A n \in Npcs, c \in Players : t.caster[n] = c => {n, c} \subseteq t.members /\ n \in known[c]
  PROVE  u \in Good(roomy, A, known)
<1>1. /\ u \in Raw
      /\ u.members = t.members /\ u.leader = t.leader /\ u.caster = t.caster
      /\ Short(u.form) /\ u.rows \in Standings(t.members, {})
  BY DEF Arranged
<1>2. u.rows \in Standings(u.members, Living \ A)
  BY <1>1, StandingsGrow
<1>3. u.members # {} => Formed(roomy, u)
  BY <1>1 DEF Arranged, Formed
<1> QED BY <1>1, <1>2, <1>3 DEF Good

\* Somebody joins, perhaps an NPC that has just been associated with c.
LEMMA DoAddMemberIs ==
  ASSUME NEW t \in Raw, NEW ob \in Living, NEW dest, NEW order \in Orders,
         NEW u, u = DoAddMember(t, ob, dest, order)
  PROVE  /\ ob \in t.members => u = IF t.leader \in t.members THEN t ELSE [t EXCEPT !.leader = ob]
         /\ ob \notin t.members =>
              Arranged([t EXCEPT !.members = t.members \cup {ob},
                                 !.leader = IF t.leader \in t.members THEN t.leader ELSE ob], u)
<1> DEFINE led == IF t.leader \in t.members THEN t ELSE [t EXCEPT !.leader = ob]
           more == [led EXCEPT !.members = @ \cup {ob}]
<1>1. u = IF ob \in t.members THEN led ELSE DoChangeRow(more, ob, dest, order)
  BY DEF DoAddMember
<1>2. more \in Raw
  BY DEF Raw
<1>3. more = [t EXCEPT !.members = t.members \cup {ob},
                       !.leader = IF t.leader \in t.members THEN t.leader ELSE ob]
  BY DEF Raw
<1>4. Arranged(more, DoChangeRow(more, ob, dest, order))
  <2> HIDE DEF more
  <2> QED BY <1>2, DoChangeRowIs
<1> HIDE DEF more
<1> QED BY <1>1, <1>3, <1>4

LEMMA DoAddMemberGood ==
  ASSUME NEW roomy, NEW A \in SUBSET Living, NEW known, NEW t \in Good(roomy, A, known), NEW ob \in A,
         NEW dest, NEW order \in Orders
  PROVE  /\ DoAddMember(t, ob, dest, order) \in Good(roomy, A, known)
         /\ t.members \cup {ob} \subseteq DoAddMember(t, ob, dest, order).members
<1> DEFINE u == DoAddMember(t, ob, dest, order)
           led == [t EXCEPT !.leader = ob]
           more == [t EXCEPT !.members = t.members \cup {ob},
                             !.leader = IF t.leader \in t.members THEN t.leader ELSE ob]
<1>1. t \in Raw /\ ob \in Living
  BY DEF Good
<1>2. /\ ob \in t.members => u = IF t.leader \in t.members THEN t ELSE led
      /\ ob \notin t.members => Arranged(more, u)
  BY <1>1, DoAddMemberIs
<1>3. led \in Raw /\ led.members = t.members /\ led.leader = ob /\ led.caster = t.caster
      /\ led.form = t.form /\ led.rows = t.rows
  BY <1>1 DEF Raw
<1>4. more \in Raw /\ more.members = t.members \cup {ob} /\ more.caster = t.caster
      /\ more.leader = IF t.leader \in t.members THEN t.leader ELSE ob
  BY <1>1 DEF Raw
<1> HIDE DEF u, led, more
<1>5. CASE ob \in t.members
  <2>1. led \in Good(roomy, A, known)
    BY <1>3, <1>5 DEF Good, Formed
  <2> QED BY <1>2, <1>3, <1>5, <2>1 DEF u
<1>6. CASE ob \notin t.members
  <2>1. /\ more.members \subseteq A /\ more.leader \in A \cup {None}
        /\ more.members # {} => more.leader \in more.members \cup {None}
        /\ \A n \in Npcs, c \in Players :
             more.caster[n] = c => {n, c} \subseteq more.members /\ n \in known[c]
    BY <1>4 DEF Good
  <2>2. u \in Good(roomy, A, known)
    BY <1>2, <1>4, <1>6, <2>1, ArrangedGood
  <2>3. u.members = t.members \cup {ob}
    BY <1>2, <1>4, <1>6 DEF Arranged
  <2> QED BY <2>2, <2>3 DEF u
<1> QED BY <1>5, <1>6

LEMMA AddAssocMemberGood ==
  ASSUME NEW roomy, NEW A \in SUBSET Living, NEW known, NEW t \in Good(roomy, A, known),
         NEW c \in Players, NEW n \in known[c], n \in A \cap Npcs,
         NEW dest, NEW order \in Orders
  PROVE  /\ AddAssocMember(t, c, n, dest, order) \in Good(roomy, A, known)
         /\ t.members \subseteq AddAssocMember(t, c, n, dest, order).members
<1> DEFINE u == AddAssocMember(t, c, n, dest, order)
           cast == [t EXCEPT !.caster[n] = c]
           more == [cast EXCEPT !.members = cast.members \cup {n},
                                !.leader = IF cast.leader \in cast.members THEN cast.leader ELSE n]
<1>1. CASE c \notin t.members \/ n \in t.members \/ t.caster[n] # None
  <2>1. u = t
    BY <1>1 DEF AddAssocMember
  <2> QED BY <2>1
<1>2. CASE c \in t.members /\ n \notin t.members /\ t.caster[n] = None
  <2>1. u = DoAddMember(cast, n, dest, order)
    BY <1>2 DEF AddAssocMember
  <2>2. t \in Raw /\ n \in Living
    BY DEF Good
  <2>3. cast \in Raw /\ cast.members = t.members /\ cast.leader = t.leader
        /\ \A x \in Npcs : cast.caster[x] = IF x = n THEN c ELSE t.caster[x]
    BY <2>2 DEF Raw
  <2> HIDE DEF cast
  <2>4. Arranged(more, u)
    <3> HIDE DEF u
    <3> QED BY <1>2, <2>1, <2>2, <2>3, DoAddMemberIs
  <2>5. more \in Raw /\ more.members = t.members \cup {n} /\ more.caster = cast.caster
        /\ more.leader = IF t.leader \in t.members THEN t.leader ELSE n
    BY <2>2, <2>3 DEF Raw
  <2> HIDE DEF more, u
  <2>6. /\ more.members \subseteq A /\ more.leader \in A \cup {None}
        /\ more.members # {} => more.leader \in more.members \cup {None}
        /\ \A x \in Npcs, d \in Players :
             more.caster[x] = d => {x, d} \subseteq more.members /\ x \in known[d]
    BY <1>2, <2>3, <2>5 DEF Good
  <2>7. u \in Good(roomy, A, known)
    BY <2>4, <2>5, <2>6, ArrangedGood
  <2>8. u.members = t.members \cup {n}
    BY <2>4, <2>5 DEF Arranged
  <2> QED BY <2>7, <2>8 DEF u
<1> QED BY <1>1, <1>2

\* The NPCs of a player, one after the other.
LEMMA AddAssocsGood ==
  ASSUME NEW roomy, NEW A \in SUBSET Living, NEW known, NEW t \in Good(roomy, A, known),
         NEW c, NEW C, \A x \in C : c \in Players /\ x \in known[c] /\ x \in A \cap Npcs,
         NEW npcs \in Seq(C),
         NEW dest, NEW order \in Orders
  PROVE  /\ AddAssocs(t, c, npcs, dest, order) \in Good(roomy, A, known)
         /\ t.members \subseteq AddAssocs(t, c, npcs, dest, order).members
<1> DEFINE n == Len(npcs)
           T == {u \in Good(roomy, A, known) : t.members \subseteq u.members}
           b == t
           Step(a, x) == AddAssocMember(a, c, x, dest, order)
           g == [y \in T \X C |-> Step(y[1], y[2])]
           F(h) == [S \in SUBSET DOMAIN npcs |->
                      IF S = {} THEN b ELSE Step(h[S \ {Max(S)}], npcs[Max(S)])]
           z == CHOOSE h : h = F(h)
<1>1. n \in Nat /\ DOMAIN npcs = 1 .. n /\ \A i \in 1 .. n : npcs[i] \in C
  BY LenProperties
<1>2. ASSUME NEW a \in T, NEW x \in C PROVE Step(a, x) \in T
  <2>1. /\ a \in Good(roomy, A, known) /\ t.members \subseteq a.members
        /\ c \in Players /\ x \in known[c] /\ x \in A \cap Npcs
    OBVIOUS
  <2>2. Step(a, x) \in Good(roomy, A, known) /\ a.members \subseteq Step(a, x).members
    BY <2>1, AddAssocMemberGood
  <2> HIDE DEF Step
  <2> QED BY <2>1, <2>2
<1>3. b \in T
  OBVIOUS
<1>4. AddAssocs(t, c, npcs, dest, order) = z[DOMAIN npcs]
  BY DEF AddAssocs, FoldLeft, MapThenFoldSet
<1> HIDE DEF T, b, Step, n
<1>5. PICK h : Folds(h, T, b, g, npcs)
  <2>1. g \in [T \X C -> T]
    BY <1>2
  <2> HIDE DEF g
  <2> QED BY <1>3, <2>1, FoldExists
<1>6. h = F(h)
  <2>1. ASSUME NEW S \in SUBSET DOMAIN npcs, S # {}
        PROVE  g[<<h[S \ {Max(S)}], npcs[Max(S)]>>] = Step(h[S \ {Max(S)}], npcs[Max(S)])
    <3>1. Max(S) \in DOMAIN npcs
      BY <1>1, <2>1, MaxOfPositions
    <3>2. h[S \ {Max(S)}] \in T /\ npcs[Max(S)] \in C
      BY <1>1, <1>5, <3>1 DEF Folds
    <3> QED BY <3>2
  <2> HIDE DEF g
  <2> QED BY <1>5, <2>1 DEF Folds
<1>7. z = F(z)
  <2> HIDE DEF F
  <2> QED BY <1>6
<1> HIDE DEF z
<1> DEFINE r == [k \in 0 .. n |-> z[1 .. k]]
<1>8. r[0] = b
  <2>1. 1 .. 0 = {} /\ 0 \in 0 .. n
    BY <1>1
  <2> QED BY <1>7, <2>1
<1>9. ASSUME NEW k \in 1 .. n PROVE r[k] = Step(r[k - 1], npcs[k])
  <2>1. /\ 1 .. k # {} /\ 1 .. k \in SUBSET (1 .. n)
        /\ Max(1 .. k) = k /\ (1 .. k) \ {k} = 1 .. (k - 1)
    BY <1>1, MaxOfUpTo
  <2>2. k \in 0 .. n /\ k - 1 \in 0 .. n
    BY <1>1
  <2>3. z[1 .. k] = Step(z[1 .. (k - 1)], npcs[k])
    BY <1>1, <1>7, <2>1
  <2> QED BY <2>2, <2>3
<1>10. AddAssocs(t, c, npcs, dest, order) = r[n]
  BY <1>1, <1>4
<1> HIDE DEF r
<1>11. \A k \in 0 .. n : r[k] \in T
  <2>1. \A k \in 1 .. n : r[k - 1] \in T => r[k] \in T
    BY <1>1, <1>2, <1>9
  <2> QED BY <1>1, <1>3, <1>8, <2>1, StaysIn
<1>12. AddAssocs(t, c, npcs, dest, order) \in T
  BY <1>1, <1>10, <1>11
<1> QED BY <1>12 DEF T

\* What the players list: their NPCs, none of which is anyone else's.
Listed(A, known) == known \in [Players -> SUBSET (Npcs \cap A)]

LEMMA AddMemberAndAssocsGood ==
  ASSUME NEW roomy, NEW A \in SUBSET Living, Listed(A, pets), NEW t \in Good(roomy, A, pets), NEW ob \in A,
         NEW enemies, NEW dest, NEW order \in Orders
  PROVE  /\ AddMemberAndAssocs(t, ob, enemies, dest, order) \in Good(roomy, A, pets)
         /\ t.members \subseteq AddMemberAndAssocs(t, ob, enemies, dest, order).members
<1> DEFINE u == DoAddMember(t, ob, dest, order)
           P == PetsOf(ob) \ enemies
           s == Those(order, P)
<1>1. u \in Good(roomy, A, pets) /\ t.members \subseteq u.members
  BY DoAddMemberGood
<1>2. AddMemberAndAssocs(t, ob, enemies, dest, order) = AddAssocs(u, ob, s, dest, order)
  BY DEF AddMemberAndAssocs
<1>3. order \in Seq(Living)
  BY Constants
<1>4. s \in Seq(Living \cap P)
  <2> HIDE DEF P
  <2> QED BY <1>3, ThoseIn
<1>5. \A x \in Living \cap P : ob \in Players /\ x \in pets[ob] /\ x \in A \cap Npcs
  BY DEF Listed, PetsOf
<1> HIDE DEF u, P, s
<1>6. /\ AddAssocs(u, ob, s, dest, order) \in Good(roomy, A, pets)
      /\ u.members \subseteq AddAssocs(u, ob, s, dest, order).members
  BY <1>1, <1>4, <1>5, AddAssocsGood
<1> QED BY <1>1, <1>2, <1>6

-----------------------------------------------------------------------------
(* Somebody leaves.                                                        *)

\* u is t without ob, and somebody leads it if anybody is left.
LeftBy(t, ob, u) ==
  /\ u.members = t.members \ {ob}
  /\ u.members # {} => u.leader \in u.members
  /\ u.members # {} => \A x \in Npcs : u.caster[x] = IF x = ob THEN None ELSE t.caster[x]
  /\ u.members = {} => u = NewTeam

\* With whom nobody is associated any more.
LEMMA DoRemoveMemberGood ==
  ASSUME NEW roomy, NEW A \in SUBSET Living, NEW known, NEW t \in Good(roomy, A, known), NEW ob \in t.members,
         \A x \in Npcs : t.caster[x] # ob, NEW heirs \in Orders, NEW order \in Orders
  PROVE  /\ DoRemoveMember(t, ob, heirs, order) \in Good(roomy, A, known)
         /\ LeftBy(t, ob, DoRemoveMember(t, ob, heirs, order))
<1> DEFINE cs == [n \in Npcs |-> IF n = ob THEN None ELSE t.caster[n]]
           left == [t EXCEPT !.members = t.members \ {ob}, !.caster = cs]
           u == DoChangeRow(left, ob, 0, order)
           heir == Those(heirs, u.members)[1]
           v == [u EXCEPT !.leader = heir]
           w == DoRemoveMember(t, ob, heirs, order)
<1>1. w = IF u.leader \in u.members THEN u ELSE IF u.members = {} THEN NewTeam ELSE v
  BY DEF DoRemoveMember, Good, Raw
<1>2. t \in Raw
  BY DEF Good
<1>3. cs \in [Npcs -> Players \cup {None}] /\ \A x \in Npcs : cs[x] = IF x = ob THEN None ELSE t.caster[x]
  BY <1>2 DEF Raw
<1> HIDE DEF cs
<1>4. left \in Raw /\ left.members = t.members \ {ob} /\ left.leader = t.leader /\ left.caster = cs
  BY <1>2, <1>3 DEF Raw
<1> HIDE DEF left
<1>5. Arranged(left, u)
  BY <1>4, DoChangeRowIs
<1> HIDE DEF u
<1>6. /\ u \in Raw /\ u.members = t.members \ {ob} /\ u.leader = t.leader /\ u.caster = cs
      /\ Short(u.form) /\ u.rows \in Standings(u.members, {})
      /\ u.members # {} => Formed(roomy, u)
  BY <1>4, <1>5 DEF Arranged, Formed
<1>7. u.rows \in Standings(u.members, Living \ A)
  BY <1>6, StandingsGrow
<1>8. \A n \in Npcs, c \in Players : u.caster[n] = c => {n, c} \subseteq u.members /\ n \in known[c]
  BY <1>3, <1>6, Constants DEF Good
<1>9. u.members \subseteq A /\ u.leader \in A \cup {None}
  BY <1>6 DEF Good
<1>10. CASE u.leader \in u.members
  <2>1. u \in Good(roomy, A, known)
    BY <1>6, <1>7, <1>8, <1>9, <1>10 DEF Good
  <2>2. LeftBy(t, ob, u)
    BY <1>3, <1>6, <1>10 DEF LeftBy
  <2> QED BY <1>1, <1>10, <2>1, <2>2
<1>11. CASE u.leader \notin u.members /\ u.members = {}
  <2>1. NewTeam \in Good(roomy, A, known)
    BY NewTeamGood
  <2>2. LeftBy(t, ob, NewTeam)
    BY <1>6, <1>11, NewTeamIs DEF LeftBy
  <2> QED BY <1>1, <1>11, <2>1, <2>2
<1>12. CASE u.leader \notin u.members /\ u.members # {}
  <2>1. heir \in u.members
    <3> DEFINE s == Those(heirs, u.members)
    <3>1. heirs \in Seq(Living) /\ ToSet(heirs) = Living /\ u.members \subseteq Living
      BY <1>6, Constants DEF Raw
    <3>2. ToSet(s) = Living \cap u.members /\ s \in Seq(Living \cap u.members)
      BY <3>1, ThoseHas, ThoseIn
    <3>3. ToSet(s) # {}
      BY <1>12, <3>1, <3>2
    <3> HIDE DEF s
    <3>4. Len(s) \in Nat /\ DOMAIN s = 1 .. Len(s) /\ \A i \in 1 .. Len(s) : s[i] \in Living \cap u.members
      BY <3>2, LenProperties
    <3>5. DOMAIN s # {}
      BY <3>3 DEF ToSet
    <3>6. s[1] \in u.members
      BY <3>4, <3>5
    <3> QED BY <3>6 DEF s
  <2> HIDE DEF heir
  <2>2. /\ v \in Raw /\ v.members = u.members /\ v.leader = heir /\ v.caster = u.caster
        /\ v.form = u.form /\ v.rows = u.rows
    BY <1>6, <2>1 DEF Raw
  <2> HIDE DEF v
  <2>3. v \in Good(roomy, A, known)
    BY <1>6, <1>7, <1>8, <1>9, <2>1, <2>2 DEF Good, Formed
  <2>4. LeftBy(t, ob, v)
    BY <1>3, <1>6, <1>12, <2>1, <2>2 DEF LeftBy
  <2> QED BY <1>1, <1>12, <2>3, <2>4
<1> QED BY <1>10, <1>11, <1>12

\* u is t without n, if that is associated with c.
Relieved(t, c, n, u) ==
  IF t.caster[n] = c
    THEN /\ u.members = t.members \ {n}
         /\ \A x \in Npcs : u.caster[x] = IF x = n THEN None ELSE t.caster[x]
    ELSE u = t

LEMMA RemoveAssocMemberGood ==
  ASSUME NEW roomy, NEW A \in SUBSET Living, NEW known, NEW t \in Good(roomy, A, known), NEW c \in t.members,
         NEW n \in Npcs, NEW heirs \in Orders, NEW order \in Orders,
         NEW u, u = RemoveAssocMember(t, c, n, heirs, order)
  PROVE  u \in Good(roomy, A, known) /\ c \in u.members /\ u.caster[n] # c /\ Relieved(t, c, n, u)
<1>1. u = IF t.caster[n] # c THEN t ELSE DoRemoveMember(t, n, heirs, order)
  BY DEF RemoveAssocMember
<1>2. c \in Living /\ t.caster \in [Npcs -> Players \cup {None}]
  BY DEF Good, Raw
<1>3. CASE t.caster[n] # c
  BY <1>1, <1>3 DEF Relieved
<1>4. CASE t.caster[n] = c
  <2>1. c \in Players /\ c # n /\ c # None
    BY <1>2, <1>4, Constants
  <2>2. n \in t.members /\ \A x \in Npcs : t.caster[x] # n
    BY <1>2, <1>4, <2>1, Constants DEF Good
  <2>3. u \in Good(roomy, A, known) /\ LeftBy(t, n, u)
    BY <1>1, <1>4, <2>2, DoRemoveMemberGood
  <2>4. u.members = t.members \ {n} /\ c \in u.members
    BY <2>1, <2>3 DEF LeftBy
  <2>5. \A x \in Npcs : u.caster[x] = IF x = n THEN None ELSE t.caster[x]
    BY <2>3, <2>4 DEF LeftBy
  <2> QED BY <1>4, <2>1, <2>3, <2>4, <2>5 DEF Relieved
<1> QED BY <1>3, <1>4

\* Teams that t becomes while NPCs of c leave it.
Leaving(roomy, A, known, t, c) ==
  {u \in Good(roomy, A, known) :
     /\ c \in u.members /\ u.members \subseteq t.members
     /\ \A m \in t.members \ u.members : m \in Npcs /\ t.caster[m] = c
     /\ \A x \in Npcs : \/ u.caster[x] = t.caster[x]
                        \/ u.caster[x] = None /\ t.caster[x] = c /\ x \notin u.members}

\* Nobody is associated with c in v who is not in u, and n is not.
Fewer(u, c, n, v) == v.caster[n] # c /\ \A x \in Npcs : u.caster[x] # c => v.caster[x] # c

LEMMA RemoveAssocMemberLeaves ==
  ASSUME NEW roomy, NEW A \in SUBSET Living, NEW known, NEW t, NEW c, NEW u \in Leaving(roomy, A, known, t, c),
         NEW n \in Npcs, NEW heirs \in Orders, NEW order \in Orders,
         NEW v, v = RemoveAssocMember(u, c, n, heirs, order)
  PROVE  v \in Leaving(roomy, A, known, t, c) /\ Fewer(u, c, n, v)
<1>1. u \in Good(roomy, A, known) /\ c \in u.members
  BY DEF Leaving
<1>2. v \in Good(roomy, A, known) /\ c \in v.members /\ v.caster[n] # c /\ Relieved(u, c, n, v)
  BY <1>1, RemoveAssocMemberGood
<1>3. CASE u.caster[n] # c
  BY <1>2, <1>3 DEF Relieved, Fewer
<1>4. CASE u.caster[n] = c
  <2>1. c # None /\ t.caster[n] = c
    BY <1>1, <1>4, Constants DEF Leaving, Good
  <2>2. v \in Leaving(roomy, A, known, t, c)
    BY <1>2, <1>4, <2>1 DEF Leaving, Relieved
  <2> QED BY <1>2, <1>4, <2>1, <2>2 DEF Relieved, Fewer
<1> QED BY <1>3, <1>4

\* All of them leave.
LEMMA RemoveAssocsGood ==
  ASSUME NEW roomy, NEW A \in SUBSET Living, NEW known, NEW t \in Good(roomy, A, known), NEW c \in t.members,
         NEW npcs \in Seq(Npcs), NEW heirs \in Orders, NEW order \in Orders
  PROVE  /\ RemoveAssocs(t, c, npcs, heirs, order) \in Leaving(roomy, A, known, t, c)
         /\ \A x \in ToSet(npcs) : RemoveAssocs(t, c, npcs, heirs, order).caster[x] # c
<1> DEFINE n == Len(npcs)
           T == Leaving(roomy, A, known, t, c)
           b == t
           Step(a, x) == RemoveAssocMember(a, c, x, heirs, order)
           g == [y \in T \X Npcs |-> Step(y[1], y[2])]
           F(h) == [S \in SUBSET DOMAIN npcs |->
                      IF S = {} THEN b ELSE Step(h[S \ {Max(S)}], npcs[Max(S)])]
           z == CHOOSE h : h = F(h)
<1>1. n \in Nat /\ DOMAIN npcs = 1 .. n /\ \A i \in 1 .. n : npcs[i] \in Npcs
  BY LenProperties
<1>2. ASSUME NEW a \in T, NEW x \in Npcs
      PROVE  Step(a, x) \in T /\ Fewer(a, c, x, Step(a, x))
  BY RemoveAssocMemberLeaves
<1>3. b \in T
  BY DEF Leaving
<1>4. RemoveAssocs(t, c, npcs, heirs, order) = z[DOMAIN npcs]
  BY DEF RemoveAssocs, FoldLeft, MapThenFoldSet
<1> HIDE DEF T, b, Step, n
<1>5. PICK h : Folds(h, T, b, g, npcs)
  <2>1. g \in [T \X Npcs -> T]
    BY <1>2
  <2> HIDE DEF g
  <2> QED BY <1>3, <2>1, FoldExists
<1>6. h = F(h)
  <2>1. ASSUME NEW S \in SUBSET DOMAIN npcs, S # {}
        PROVE  g[<<h[S \ {Max(S)}], npcs[Max(S)]>>] = Step(h[S \ {Max(S)}], npcs[Max(S)])
    <3>1. Max(S) \in DOMAIN npcs
      BY <1>1, <2>1, MaxOfPositions
    <3>2. h[S \ {Max(S)}] \in T /\ npcs[Max(S)] \in Npcs
      BY <1>1, <1>5, <3>1 DEF Folds
    <3> QED BY <3>2
  <2> HIDE DEF g
  <2> QED BY <1>5, <2>1 DEF Folds
<1>7. z = F(z)
  <2> HIDE DEF F
  <2> QED BY <1>6
<1> HIDE DEF z
<1> DEFINE r == [k \in 0 .. n |-> z[1 .. k]]
<1>8. r[0] = b
  <2>1. 1 .. 0 = {} /\ 0 \in 0 .. n
    BY <1>1
  <2> QED BY <1>7, <2>1
<1>9. ASSUME NEW k \in 1 .. n PROVE r[k] = Step(r[k - 1], npcs[k])
  <2>1. /\ 1 .. k # {} /\ 1 .. k \in SUBSET (1 .. n)
        /\ Max(1 .. k) = k /\ (1 .. k) \ {k} = 1 .. (k - 1)
    BY <1>1, MaxOfUpTo
  <2>2. k \in 0 .. n /\ k - 1 \in 0 .. n
    BY <1>1
  <2>3. z[1 .. k] = Step(z[1 .. (k - 1)], npcs[k])
    BY <1>1, <1>7, <2>1
  <2> QED BY <2>2, <2>3
<1>10. RemoveAssocs(t, c, npcs, heirs, order) = r[n]
  BY <1>1, <1>4
<1> HIDE DEF r
<1>11. \A k \in 0 .. n : r[k] \in T
  <2>1. \A k \in 1 .. n : r[k - 1] \in T => r[k] \in T
    BY <1>1, <1>2, <1>9
  <2> QED BY <1>1, <1>3, <1>8, <2>1, StaysIn
<1>12. \A j \in 1 .. n : r[n].caster[npcs[j]] # c
  <2> DEFINE Q == {k \in 0 .. n : \A j \in 1 .. k : r[k].caster[npcs[j]] # c}
  <2>1. 0 \in Q
    BY <1>1
  <2>2. ASSUME NEW k \in 1 .. n, k - 1 \in Q PROVE k \in Q
    <3>1. r[k - 1] \in T /\ k \in 0 .. n /\ k - 1 \in 0 .. n
      BY <1>1, <1>11
    <3>2. /\ r[k].caster[npcs[k]] # c
          /\ \A y \in Npcs : r[k - 1].caster[y] # c => r[k].caster[y] # c
      BY <1>1, <1>2, <1>9, <3>1 DEF Fewer
    <3>3. \A j \in 1 .. k : j = k \/ j \in 1 .. k - 1
      BY <1>1
    <3>4. \A j \in 1 .. k : npcs[j] \in Npcs
      BY <1>1
    <3> QED BY <2>2, <3>1, <3>2, <3>3, <3>4
  <2> HIDE DEF Q
  <2>3. \A k \in 0 .. n : k \in Q
    BY <1>1, <2>1, <2>2, Stepwise
  <2>4. n \in Q
    BY <1>1, <2>3
  <2> QED BY <1>1, <2>4 DEF Q
<1>13. r[n] \in T
  BY <1>1, <1>11
<1>14. \A x \in ToSet(npcs) : r[n].caster[x] # c
  BY <1>1, <1>12 DEF ToSet
<1> QED BY <1>10, <1>13, <1>14 DEF T

\* Who is left when ob and his NPCs have gone.
LEMMA RemoveMemberAndAssocsGood ==
  ASSUME NEW roomy, NEW A \in SUBSET Living, Listed(A, pets), NEW t \in Good(roomy, A, pets), NEW ob \in t.members,
         NEW heirs \in Orders, NEW order \in Orders,
         NEW u, u = RemoveMemberAndAssocs(t, ob, heirs, order)
  PROVE  /\ u \in Good(roomy, A, pets)
         /\ u.members = t.members \ ({ob} \cup {x \in Npcs : t.caster[x] = ob})
         /\ u.members # {} => u.leader \in u.members
         /\ \A x \in Npcs \cap u.members : u.caster[x] = t.caster[x]
<1> DEFINE P == PetsOf(ob)
           s == Those(order, P)
           v == RemoveAssocs(t, ob, s, heirs, order)
<1>1. u = DoRemoveMember(v, ob, heirs, order)
  BY DEF RemoveMemberAndAssocs
<1>2. P \subseteq Npcs /\ Npcs \subseteq Living
  BY Constants DEF PetsOf, Listed
<1>3. s \in Seq(Npcs) /\ ToSet(s) = P
  <2>1. order \in Seq(Living) /\ ToSet(order) = Living
    BY Constants
  <2> HIDE DEF P
  <2>2. s \in Seq(Living \cap P) /\ ToSet(s) = Living \cap P
    BY <2>1, ThoseIn, ThoseHas
  <2>3. Living \cap P = P /\ Seq(P) \subseteq Seq(Npcs)
    BY <1>2
  <2> QED BY <2>2, <2>3
<1> HIDE DEF P, s
<1>4. v \in Leaving(roomy, A, pets, t, ob) /\ \A x \in P : v.caster[x] # ob
  BY <1>3, RemoveAssocsGood
<1> HIDE DEF v
<1>5. \A x \in Npcs : t.caster[x] = ob => x \in P
  <2>1. ob \in Living /\ ob # None
    BY Constants DEF Good, Raw
  <2> SUFFICES ASSUME NEW x \in Npcs, t.caster[x] = ob PROVE x \in P
    OBVIOUS
  <2>2. ob \in Players
    BY <2>1 DEF Good, Raw
  <2> QED BY <2>2 DEF Good, PetsOf, P
<1>6. \A x \in Npcs : v.caster[x] # ob
  BY <1>4, <1>5, Constants DEF Leaving, Good, Raw
<1>7. v \in Good(roomy, A, pets) /\ ob \in v.members
  BY <1>4 DEF Leaving
<1>8. u \in Good(roomy, A, pets) /\ LeftBy(v, ob, u)
  BY <1>1, <1>6, <1>7, DoRemoveMemberGood
<1>9. \A x \in Npcs : t.caster[x] = ob => x \notin v.members
  BY <1>4, <1>6 DEF Leaving
<1>10. v.members \subseteq t.members /\ \A m \in t.members \ v.members : m \in Npcs /\ t.caster[m] = ob
  BY <1>4 DEF Leaving
<1>11. \A x \in Npcs \cap u.members : u.caster[x] = t.caster[x]
  <2> SUFFICES ASSUME NEW x \in Npcs, x \in u.members PROVE u.caster[x] = t.caster[x]
    OBVIOUS
  <2>1. x \in v.members /\ x # ob /\ u.caster[x] = v.caster[x]
    BY <1>8 DEF LeftBy
  <2>2. v.caster[x] = t.caster[x]
    BY <1>4, <2>1 DEF Leaving
  <2> QED BY <2>1, <2>2
<1>12. u.members = v.members \ {ob} /\ (u.members # {} => u.leader \in u.members)
  BY <1>8 DEF LeftBy
<1> QED BY <1>8, <1>9, <1>10, <1>11, <1>12

\* A team of somebody and his NPCs ends with nobody: they leave with him.
LEMMA RemoveSinglesGood ==
  ASSUME NEW roomy, NEW A \in SUBSET Living, Listed(A, pets), NEW t \in Good(roomy, A, pets),
         NEW heirs \in Orders, NEW order \in Orders,
         NEW u, u = RemoveSingles(t, heirs, order)
  PROVE  u \in Good(roomy, A, pets) /\ IF Single(t) THEN u.members = {} ELSE u = t
<1>1. u = IF Single(t) THEN RemoveMemberAndAssocs(t, t.leader, heirs, order) ELSE t
  BY DEF RemoveSingles
<1>2. CASE Single(t)
  <2>1. t.leader \in t.members /\ t.members \subseteq {t.leader} \cup {x \in Npcs : t.caster[x] = t.leader}
    BY <1>2 DEF Single, Assocs
  <2>2. u \in Good(roomy, A, pets) /\ u.members = {}
    BY <1>1, <1>2, <2>1, RemoveMemberAndAssocsGood
  <2> QED BY <1>2, <2>2
<1>3. CASE ~ Single(t)
  BY <1>1, <1>3
<1> QED BY <1>2, <1>3

-----------------------------------------------------------------------------
(* The invariant.                                                          *)

\* An NPC that a player lists holds him; the rest is said by Good.  IInv(TRUE)
\* is kept while there is a place for everybody.
IInv(roomy) ==
  /\ gone \subseteq Living
  /\ team \in Good(roomy, Alive, pets)
  /\ Listed(Alive, pets)
  /\ owner \in [Npcs -> (Players \cap Alive) \cup {None}]
  /\ \A p \in Players : \A n \in pets[p] : owner[n] = p

LEMMA InitInv ==
  ASSUME NEW roomy, Init
  PROVE  IInv(roomy)
<1>1. team \in Good(roomy, Alive, pets)
  BY NewTeamGood DEF Init
<1>2. /\ gone = {} /\ pets = [p \in Players |-> {}] /\ owner = [n \in Npcs |-> None]
  BY DEF Init
<1> QED BY <1>1, <1>2 DEF IInv, Listed

LEMMA TeamOnly ==
  ASSUME NEW roomy, IInv(roomy), UNCHANGED <<pets, owner, gone>>, team' \in Good(roomy, Alive, pets)
  PROVE  IInv(roomy)'
<1>1. Alive' = Alive
  BY DEF Alive
<1>2. team' \in Good(roomy, Alive', pets')
  BY <1>1
<1> QED BY <1>1, <1>2 DEF IInv, Listed

LEMMA AddMemberInv ==
  ASSUME NEW roomy, IInv(roomy), NEW by \in Living, NEW ob \in Living, AddMember(by, ob)
  PROVE  IInv(roomy)'
<1>0. Alive \in SUBSET Living /\ Listed(Alive, pets) /\ team \in Good(roomy, Alive, pets)
  BY DEF Alive, IInv
<1>1. by \in Alive /\ ob \in Alive
  BY DEF AddMember
<1>2. PICK order \in Orders, enemies \in SUBSET Npcs, dest \in Rows :
        LET t == IF team.leader \in team.members THEN team
                 ELSE AddMemberAndAssocs(team, by, enemies, dest, order)
        IN team' = IF t.leader = by THEN AddMemberAndAssocs(t, ob, enemies, dest, order) ELSE t
  BY DEF AddMember
<1> DEFINE first == AddMemberAndAssocs(team, by, enemies, dest, order)
           t == IF team.leader \in team.members THEN team ELSE first
           then == AddMemberAndAssocs(t, ob, enemies, dest, order)
<1>3. team' = IF t.leader = by THEN then ELSE t
  BY <1>2
<1>4. t \in Good(roomy, Alive, pets) /\ team.members \subseteq t.members
  <2>1. first \in Good(roomy, Alive, pets) /\ team.members \subseteq first.members
    BY <1>0, <1>1, AddMemberAndAssocsGood
  <2> HIDE DEF first
  <2> QED BY <1>0, <2>1
<1> HIDE DEF t
<1>5. then \in Good(roomy, Alive, pets) /\ t.members \subseteq then.members
  BY <1>0, <1>1, <1>4, AddMemberAndAssocsGood
<1> HIDE DEF then
<1>6. team' \in Good(roomy, Alive, pets) /\ team.members \subseteq team'.members
  BY <1>3, <1>4, <1>5
<1>7. UNCHANGED <<pets, owner, gone>>
  BY DEF AddMember
<1> QED BY <1>6, <1>7, TeamOnly

LEMMA JoinNpcInv ==
  ASSUME NEW roomy, IInv(roomy), NEW n \in Npcs, JoinNpc(n)
  PROVE  IInv(roomy)'
<1>0. /\ Alive \in SUBSET Living /\ Listed(Alive, pets) /\ team \in Good(roomy, Alive, pets) /\ n \in Alive
      /\ UNCHANGED <<pets, owner, gone>>
  BY DEF Alive, IInv, JoinNpc
<1>1. PICK order \in Orders, dest \in Rows : team' = AddMemberAndAssocs(team, n, {}, dest, order)
  BY DEF JoinNpc
<1>2. team' \in Good(roomy, Alive, pets) /\ team.members \subseteq team'.members
  BY <1>0, <1>1, AddMemberAndAssocsGood
<1> QED BY <1>0, <1>2, TeamOnly

LEMMA RemoveMemberInv ==
  ASSUME NEW roomy, IInv(roomy), NEW by \in Living, NEW ob \in Living, RemoveMember(by, ob)
  PROVE  IInv(roomy)'
<1>0. /\ Alive \in SUBSET Living /\ Listed(Alive, pets) /\ team \in Good(roomy, Alive, pets)
      /\ ob \in team.members /\ UNCHANGED <<pets, owner, gone>>
  BY DEF Alive, IInv, RemoveMember
<1>1. PICK order, heirs \in Orders :
        team' = RemoveSingles(RemoveMemberAndAssocs(team, ob, heirs, order), heirs, order)
  BY DEF RemoveMember
<1> DEFINE t == RemoveMemberAndAssocs(team, ob, heirs, order)
<1>2. t \in Good(roomy, Alive, pets)
  BY <1>0, RemoveMemberAndAssocsGood
<1> HIDE DEF t
<1>3. team' = RemoveSingles(t, heirs, order)
  BY <1>1 DEF t
<1>4. team' \in Good(roomy, Alive, pets)
  BY <1>0, <1>2, <1>3, RemoveSinglesGood
<1> QED BY <1>0, <1>4, TeamOnly

LEMMA ResetInv ==
  ASSUME NEW roomy, IInv(roomy), Reset
  PROVE  IInv(roomy)'
<1>0. /\ Alive \in SUBSET Living /\ Listed(Alive, pets) /\ team \in Good(roomy, Alive, pets)
      /\ UNCHANGED <<pets, owner, gone>>
  BY DEF Alive, IInv, Reset
<1>1. PICK order, heirs \in Orders : team' = RemoveSingles(team, heirs, order)
  BY DEF Reset
<1>2. team' \in Good(roomy, Alive, pets)
  BY <1>0, <1>1, RemoveSinglesGood
<1> QED BY <1>0, <1>2, TeamOnly

LEMMA AssocMemberInv ==
  ASSUME NEW roomy, IInv(roomy), NEW c \in Players, NEW n \in Npcs, AssocMember(c, n)
  PROVE  IInv(roomy)'
<1>0. /\ Alive \in SUBSET Living /\ Listed(Alive, pets) /\ team \in Good(roomy, Alive, pets)
      /\ owner \in [Npcs -> (Players \cap Alive) \cup {None}]
      /\ \A p \in Players : \A x \in pets[p] : owner[x] = p
  BY DEF Alive, IInv
<1>1. /\ c \in Alive /\ n \in Alive /\ owner[n] = None /\ UNCHANGED gone
      /\ pets' = [pets EXCEPT ![c] = @ \cup {n}] /\ owner' = [owner EXCEPT ![n] = c]
  BY DEF AssocMember
<1>2. /\ Listed(Alive, pets') /\ n \in pets'[c]
      /\ \A p \in Players : pets[p] \subseteq pets'[p] /\ pets'[p] \subseteq pets[p] \cup (IF p = c THEN {n} ELSE {})
  BY <1>0, <1>1 DEF Listed
<1>3. team \in Good(roomy, Alive, pets')
  BY <1>0, <1>2 DEF Good
<1>4. PICK order \in Orders, dest \in Rows : team' = AddAssocMember(team, c, n, dest, order)
  BY DEF AssocMember
<1>5. team' \in Good(roomy, Alive, pets') /\ team.members \subseteq team'.members
  <2>1. n \in Alive \cap Npcs
    BY <1>1
  <2> DEFINE known == pets'
  <2>2. team \in Good(roomy, Alive, known) /\ n \in known[c]
    BY <1>2, <1>3
  <2> HIDE DEF known
  <2>3. team' \in Good(roomy, Alive, known) /\ team.members \subseteq team'.members
    BY <1>0, <1>4, <2>1, <2>2, AddAssocMemberGood
  <2> QED BY <2>3 DEF known
<1>6. \A p \in Players : \A x \in pets'[p] : owner'[x] = p
  <2>1. c # None
    BY Constants
  <2>2. \A p \in Players : n \notin pets[p]
    BY <1>0, <1>1, Constants
  <2>3. \A p \in Players : \A x \in pets'[p] : x \in Npcs
    BY <1>2 DEF Listed
  <2> QED BY <1>0, <1>1, <1>2, <2>2, <2>3
<1>7. owner' \in [Npcs -> (Players \cap Alive) \cup {None}]
  BY <1>0, <1>1
<1>8. Alive' = Alive
  BY <1>1 DEF Alive
<1>9. IInv(roomy)'
  <2>1. team' \in Good(roomy, Alive', pets') /\ Listed(Alive', pets')
    BY <1>2, <1>5, <1>8
  <2> QED BY <1>1, <1>6, <1>7, <1>8, <2>1 DEF IInv
<1> QED BY <1>5, <1>9

LEMMA DeAssocMemberInv ==
  ASSUME NEW roomy, IInv(roomy), NEW c \in Players, NEW n \in Npcs, DeAssocMember(c, n)
  PROVE  IInv(roomy)'
<1>0. /\ Alive \in SUBSET Living /\ Listed(Alive, pets) /\ team \in Good(roomy, Alive, pets)
      /\ \A p \in Players : \A x \in pets[p] : owner[x] = p
  BY DEF Alive, IInv
<1>1. pets' = [pets EXCEPT ![c] = @ \ {n}] /\ UNCHANGED <<owner, gone>>
  BY DEF DeAssocMember
<1>2. /\ Listed(Alive, pets')
      /\ \A p \in Players : pets'[p] = IF p = c THEN pets[p] \ {n} ELSE pets[p]
  BY <1>0, <1>1 DEF Listed
<1>3. PICK order, heirs \in Orders :
        team' = IF c \in team.members THEN RemoveAssocMember(team, c, n, heirs, order) ELSE team
  BY DEF DeAssocMember
<1>4. /\ team' \in Good(roomy, Alive, pets) /\ team'.caster[n] # c
      /\ \A m \in team.members \ team'.members : m = n
  <2>1. CASE c \in team.members
    <3>1. team' = RemoveAssocMember(team, c, n, heirs, order)
      BY <1>3, <2>1
    <3>2. team' \in Good(roomy, Alive, pets) /\ team'.caster[n] # c /\ Relieved(team, c, n, team')
      BY <1>0, <2>1, <3>1, RemoveAssocMemberGood
    <3> QED BY <3>2 DEF Relieved
  <2>2. CASE c \notin team.members
    BY <1>0, <1>3, <2>2 DEF Good
  <2> QED BY <2>1, <2>2
<1>5. team' \in Good(roomy, Alive, pets')
  BY <1>2, <1>4 DEF Good
<1>6. Alive' = Alive
  BY <1>1 DEF Alive
<1>7. IInv(roomy)'
  <2>1. team' \in Good(roomy, Alive', pets') /\ Listed(Alive', pets')
    BY <1>2, <1>5, <1>6
  <2>2. \A p \in Players : \A x \in pets'[p] : owner'[x] = p
    BY <1>0, <1>1, <1>2
  <2> QED BY <1>1, <1>6, <2>1, <2>2 DEF IInv
<1>8. n \notin Players
  BY Constants
<1> QED BY <1>4, <1>7, <1>8

\* The members stay who they are, and the team is arranged anew.
LEMMA ArrangedInv ==
  ASSUME NEW roomy, IInv(roomy), UNCHANGED <<pets, owner, gone>>, Arranged(team, team')
  PROVE  IInv(roomy)'
<1>1. team \in Good(roomy, Alive, pets)
  BY DEF IInv
<1>2. team' \in Good(roomy, Alive, pets)
  <2> DEFINE A == Alive
             known == pets
             u == team'
  <2>1. /\ team \in Raw /\ team.members \subseteq A /\ team.leader \in A \cup {None}
        /\ team.members # {} => team.leader \in team.members \cup {None}
        /\ \A n \in Npcs, c \in Players :
             team.caster[n] = c => {n, c} \subseteq team.members /\ n \in known[c]
    BY <1>1 DEF Good
  <2>2. Arranged(team, u)
    OBVIOUS
  <2> HIDE DEF A, known, u
  <2>3. u \in Good(roomy, A, known)
    BY <2>1, <2>2, ArrangedGood
  <2> QED BY <2>3 DEF A, known, u
<1>3. team'.members = team.members
  BY DEF Arranged
<1> QED BY <1>2, <1>3, TeamOnly

LEMMA ChangeRowInv ==
  ASSUME NEW roomy, IInv(roomy), NEW pl \in Living, NEW dest \in Rows, ChangeRow(pl, dest)
  PROVE  IInv(roomy)'
<1>1. PICK order \in Orders : team' = DoChangeRow(team, pl, dest, order)
  BY DEF ChangeRow
<1>2. team \in Raw
  BY DEF IInv, Good
<1>3. Arranged(team, team')
  BY <1>1, <1>2, DoChangeRowIs
<1> QED BY <1>3, ArrangedInv DEF ChangeRow

LEMMA ReformInv ==
  ASSUME NEW roomy, IInv(roomy), NEW form \in Wishes, Reform(form)
  PROVE  IInv(roomy)'
<1>1. team \in Raw
  BY DEF IInv, Good
<1>2. PICK order \in Orders :
        LET f == CheckFormation(form, Cardinality(team.members))
        IN \E r \in RandomChanges(UpdateActRow(team.rows, team.members, order), order) :
             team' = [team EXCEPT !.form = f, !.rows = MakeFormation(f, r, team.members, order)]
  BY DEF Reform
<1> DEFINE f == CheckFormation(form, Cardinality(team.members))
<1>3. PICK r \in RandomChanges(UpdateActRow(team.rows, team.members, order), order) :
        team' = [team EXCEPT !.form = f, !.rows = MakeFormation(f, r, team.members, order)]
  BY <1>2
<1>4. Arranged(team, [team EXCEPT !.form = f, !.rows = MakeFormation(f, r, team.members, order)])
  <2>1. f = CheckFormation(form, Cardinality(team.members))
    OBVIOUS
  <2> HIDE DEF f
  <2> QED BY <1>1, <2>1, RearrangedIs, Zenon
<1>5. Arranged(team, team')
  BY <1>3, <1>4, Zenon
<1> QED BY <1>5, ArrangedInv DEF Reform

LEMMA ChangeLeaderInv ==
  ASSUME NEW roomy, IInv(roomy), NEW ob \in Living, ChangeLeader(ob)
  PROVE  IInv(roomy)'
<1>1. /\ ob \in team.members /\ team' = [team EXCEPT !.leader = ob]
      /\ team \in Good(roomy, Alive, pets) /\ team \in Raw
  BY DEF ChangeLeader, IInv, Good
<1>2. /\ team' \in Raw /\ team'.members = team.members /\ team'.leader = ob
      /\ team'.caster = team.caster /\ team'.form = team.form /\ team'.rows = team.rows
  BY <1>1 DEF Raw
<1>3. team' \in Good(roomy, Alive, pets)
  BY <1>1, <1>2 DEF Good, Formed
<1> QED BY <1>2, <1>3, TeamOnly DEF ChangeLeader

LEMMA SwapRowsInv ==
  ASSUME NEW roomy, IInv(roomy), NEW a \in Living, NEW b \in Living, SwapRows(a, b)
  PROVE  IInv(roomy)'
<1> DEFINE q == Swapped(team.rows, a, b)
<1>1. /\ a \in team.members /\ b \in team.members /\ team' = [team EXCEPT !.rows = q]
      /\ team \in Good(roomy, Alive, pets) /\ team \in Raw
  BY DEF SwapRows, IInv, Good
<1>2. team.rows \in Standings(team.members, Living \ Alive)
  BY <1>1 DEF Good
<1>3. /\ q \in Standings(team.members, Living \ Alive)
      /\ \A i \in Rows : Len(q[i]) = Len(team.rows[i])
  BY <1>1, <1>2, SwappedIs
<1> HIDE DEF q
<1>4. q \in [Rows -> Seq(Living)]
  <2>1. q \in [Rows -> Seq(team.members \cup (Living \ Alive))]
    BY <1>3 DEF Standings
  <2>2. team.members \cup (Living \ Alive) \subseteq Living
    BY <1>1 DEF Raw
  <2>3. \A i \in Rows : q[i] \in Seq(Living)
    BY <2>1, <2>2
  <2> QED BY <2>1, <2>3
<1>5. /\ team' \in Raw /\ team'.members = team.members /\ team'.leader = team.leader
      /\ team'.caster = team.caster /\ team'.form = team.form /\ team'.rows = q
  BY <1>1, <1>4 DEF Raw
<1>6. team' \in Good(roomy, Alive, pets)
  BY <1>1, <1>3, <1>5 DEF Good, Formed, InOrder
<1> QED BY <1>5, <1>6, TeamOnly DEF SwapRows

LEMMA DestructInv ==
  ASSUME NEW roomy, IInv(roomy), NEW m \in Living, Destruct(m),
         roomy => Cardinality(team.members) <= Places
  PROVE  IInv(roomy)'
<1> DEFINE cs == [n \in Npcs |-> IF m \in {n, team.caster[n]} THEN None ELSE team.caster[n]]
           l == IF team.leader = m THEN None ELSE team.leader
<1>1. /\ m \in Alive /\ gone' = gone \cup {m}
      /\ pets' = [p \in Players |-> IF p = m THEN {} ELSE pets[p] \ {m}]
      /\ owner' = [n \in Npcs |-> IF owner[n] = m THEN None ELSE owner[n]]
  BY DEF Destruct
<1>2. /\ gone \subseteq Living /\ team \in Good(roomy, Alive, pets) /\ team \in Raw
      /\ Listed(Alive, pets) /\ owner \in [Npcs -> (Players \cap Alive) \cup {None}]
      /\ \A p \in Players : \A n \in pets[p] : owner[n] = p
  BY DEF IInv, Good
<1>3. team' = [team EXCEPT !.members = team.members \ {m}, !.leader = l, !.caster = cs]
  BY <1>2 DEF Destruct, Raw
<1>4. /\ cs \in [Npcs -> Players \cup {None}] /\ l \in Living \cup {None}
      /\ \A n \in Npcs : cs[n] = IF m \in {n, team.caster[n]} THEN None ELSE team.caster[n]
  BY <1>2 DEF Raw
<1> HIDE DEF cs
<1>5. /\ team' \in Raw /\ team'.members = team.members \ {m} /\ team'.leader = l
      /\ team'.caster = cs /\ team'.form = team.form /\ team'.rows = team.rows
  BY <1>2, <1>3, <1>4 DEF Raw
<1>6. Alive' = Alive \ {m} /\ gone' \subseteq Living
  BY <1>1, <1>2 DEF Alive
<1>7. /\ Listed(Alive', pets')
      /\ \A p \in Players : pets'[p] = IF p = m THEN {} ELSE pets[p] \ {m}
  BY <1>1, <1>2, <1>6 DEF Listed
<1>8. owner' \in [Npcs -> (Players \cap Alive') \cup {None}]
  BY <1>1, <1>2, <1>6
<1>9. \A p \in Players : \A n \in pets'[p] : owner'[n] = p
  BY <1>1, <1>2, <1>7 DEF Listed
<1>10. team'.rows \in Standings(team'.members, Living \ Alive')
  <2>1. team.rows \in Standings(team.members, Living \ Alive) /\ team.members \subseteq Alive
    BY <1>2 DEF Good
  <2>2. team.members \cup (Living \ Alive) \subseteq team'.members \cup (Living \ Alive')
    BY <1>1, <1>5, <1>6
  <2>3. team'.members \subseteq team.members
    BY <1>5
  <2> DEFINE r == team.rows
             V == team.members \cup (Living \ Alive)
             W == team'.members \cup (Living \ Alive')
  <2>4. r \in [Rows -> Seq(V)]
    BY <2>1 DEF Standings
  <2>5. r \in [Rows -> Seq(W)]
    <3> HIDE DEF r, V, W
    <3>1. \A i \in Rows : r[i] \in Seq(W)
      <4>1. V \subseteq W
        BY <2>2 DEF V, W
      <4> QED BY <2>4, <4>1
    <3> QED BY <2>4, <3>1
  <2> QED BY <1>5, <2>1, <2>3, <2>5 DEF Standings
<1>11. \A n \in Npcs, c \in Players :
         team'.caster[n] = c => {n, c} \subseteq team'.members /\ n \in pets'[c]
  <2> SUFFICES ASSUME NEW n \in Npcs, NEW c \in Players, cs[n] = c
               PROVE  {n, c} \subseteq team'.members /\ n \in pets'[c]
    BY <1>5
  <2>1. c # None
    BY Constants
  <2>2. team.caster[n] = c /\ n # m /\ c # m
    BY <1>4, <2>1
  <2>3. {n, c} \subseteq team.members /\ n \in pets[c]
    BY <1>2, <2>2 DEF Good
  <2> QED BY <1>5, <1>7, <2>2, <2>3
<1>12. team' \in Good(roomy, Alive', pets')
  <2>1. /\ team'.members \subseteq Alive' /\ team'.leader \in Alive' \cup {None}
    BY <1>2, <1>5, <1>6 DEF Good
  <2>2. team'.members # {} => /\ Short(team'.form) /\ Formed(roomy, team')
                              /\ team'.leader \in team'.members \cup {None}
    BY <1>2, <1>5 DEF Good, Formed
  <2> QED BY <1>5, <1>10, <1>11, <2>1, <2>2 DEF Good
<1>13. gone' # gone
  BY <1>1 DEF Alive
<1> QED BY <1>6, <1>7, <1>8, <1>9, <1>12, <1>13 DEF IInv

LEMMA StepInv ==
  ASSUME NEW roomy, IInv(roomy), [Next]_vars, roomy => Cardinality(team.members) <= Places
  PROVE  IInv(roomy)'
<1>1. ASSUME NEW a \in Living, NEW b \in Living, AddMember(a, b) PROVE IInv(roomy)'
  BY <1>1, AddMemberInv
<1>2. ASSUME NEW a \in Living, NEW b \in Living, RemoveMember(a, b) PROVE IInv(roomy)'
  BY <1>2, RemoveMemberInv
<1>3. ASSUME NEW a \in Living, NEW b \in Living, SwapRows(a, b) PROVE IInv(roomy)'
  BY <1>3, SwapRowsInv
<1>4. ASSUME NEW n \in Npcs, JoinNpc(n) PROVE IInv(roomy)'
  BY <1>4, JoinNpcInv
<1>5. ASSUME NEW c \in Players, NEW n \in Npcs, AssocMember(c, n) PROVE IInv(roomy)'
  BY <1>5, AssocMemberInv
<1>6. ASSUME NEW c \in Players, NEW n \in Npcs, DeAssocMember(c, n) PROVE IInv(roomy)'
  BY <1>6, DeAssocMemberInv
<1>7. ASSUME NEW m \in Living, ChangeLeader(m) PROVE IInv(roomy)'
  BY <1>7, ChangeLeaderInv
<1>8. ASSUME NEW m \in Living, Destruct(m) PROVE IInv(roomy)'
  BY <1>8, DestructInv
<1>9. ASSUME NEW r \in Requests, ChangeFormation(r) PROVE IInv(roomy)'
  <2>1. r \in Wishes /\ Reform(r)
    BY <1>9, Constants DEF ChangeFormation
  <2> QED BY <2>1, ReformInv
<1>10. ASSUME UpdateFormation PROVE IInv(roomy)'
  <2>1. team.form \in Wishes /\ Reform(team.form)
    BY <1>10 DEF UpdateFormation, IInv, Good, Raw, Forms
  <2> QED BY <2>1, ReformInv
<1>11. ASSUME Reset PROVE IInv(roomy)'
  BY <1>11, ResetInv
<1>12. ASSUME NEW m \in Living, NEW dest \in Rows, ChangeRow(m, dest) PROVE IInv(roomy)'
  BY <1>12, ChangeRowInv
<1>13. ASSUME UNCHANGED vars PROVE IInv(roomy)'
  <2>1. team' = team /\ UNCHANGED <<pets, owner, gone>>
    BY <1>13 DEF vars
  <2>2. team' \in Good(roomy, Alive, pets)
    BY <2>1 DEF IInv
  <2> QED BY <2>1, <2>2, TeamOnly
<1> QED BY <1>1, <1>2, <1>3, <1>4, <1>5, <1>6, <1>7, <1>8, <1>9, <1>10, <1>11, <1>12, <1>13
        DEF Next

\* Whom a member that leaves takes along, and when nobody stays.
LEMMA RemoveMemberStays ==
  ASSUME NEW roomy, IInv(roomy), NEW by, NEW ob \in team.members, RemoveMember(by, ob)
  PROVE  LET rest == team.members \ ({ob} \cup Assocs(team, ob))
         IN \/ team'.members = rest /\ (Alone(rest) => team'.leader \in Npcs)
            \/ team'.members = {} /\ Alone(rest)
<1> DEFINE rest == team.members \ ({ob} \cup Assocs(team, ob))
<1>1. Alive \in SUBSET Living /\ Listed(Alive, pets) /\ team \in Good(roomy, Alive, pets)
  BY DEF Alive, IInv
<1>2. PICK order, heirs \in Orders :
        team' = RemoveSingles(RemoveMemberAndAssocs(team, ob, heirs, order), heirs, order)
  BY DEF RemoveMember
<1> DEFINE t == RemoveMemberAndAssocs(team, ob, heirs, order)
<1>3. /\ t \in Good(roomy, Alive, pets) /\ t.members = rest
      /\ rest # {} => t.leader \in rest
      /\ \A x \in Npcs \cap rest : t.caster[x] = team.caster[x]
  <2>1. rest = team.members \ ({ob} \cup {x \in Npcs : team.caster[x] = ob})
    BY DEF Assocs
  <2> HIDE DEF t, rest
  <2>2. t = RemoveMemberAndAssocs(team, ob, heirs, order)
    BY DEF t
  <2> QED BY <1>1, <2>1, <2>2, RemoveMemberAndAssocsGood
<1>4. rest \subseteq Living /\ Living = Players \cup Npcs
  BY <1>3, Constants DEF Good, Raw, Living
<1> HIDE DEF t, rest
<1>5. IF Single(t) THEN team'.members = {} ELSE team' = t
  <2>1. team' = RemoveSingles(t, heirs, order)
    BY <1>2 DEF t
  <2> QED BY <1>1, <1>3, <2>1, RemoveSinglesGood
<1>6. \A p : rest \subseteq {p} \cup Assocs(t, p) <=> rest \subseteq {p} \cup Assocs(team, p)
  BY <1>3 DEF Assocs
<1>7. CASE Single(t)
  <2>1. Alone(rest)
    BY <1>3, <1>6, <1>7 DEF Single, Alone
  <2> QED BY <1>5, <1>7, <2>1 DEF rest
<1>8. CASE ~ Single(t)
  <2>1. ASSUME Alone(rest) PROVE t.leader \in Npcs
    <3>1. PICK p \in Players \cap rest : rest \subseteq {p} \cup Assocs(team, p)
      BY <2>1 DEF Alone
    <3>2. t.leader \in rest /\ t.leader # p
      BY <1>3, <1>6, <1>8, <3>1 DEF Single
    <3> QED BY <3>1, <3>2 DEF Assocs
  <2> QED BY <1>3, <1>5, <1>8, <2>1 DEF rest
<1> QED BY <1>7, <1>8

LEMMA SpecInv == Spec => []IInv(FALSE)
<1>1. Init => IInv(FALSE)
  BY InitInv
<1>2. IInv(FALSE) /\ [Next]_vars => IInv(FALSE)'
  BY StepInv
<1> QED BY <1>1, <1>2, PTL DEF Spec

-----------------------------------------------------------------------------
(* The theorems.                                                           *)

\* A team has no destructed members, who leads it is one of them (or was
\* destructed), and the lengths of its rows are such as a row may have, whatever
\* formations are asked for (AddMember(), DoRemoveMember(), CheckFormation()).
THEOREM TeamTeamOK == Spec => []TeamOK
<1>1. IInv(FALSE) => TeamOK
  <2> SUFFICES ASSUME IInv(FALSE) PROVE TeamOK
    OBVIOUS
  <2>1. team \in Good(FALSE, Alive, pets) /\ team \in Raw
    BY DEF IInv, Good
  <2>2. team.caster \in [Npcs -> (Players \cap Alive) \cup {None}]
    <3>1. team.caster \in [Npcs -> Players \cup {None}] /\ team.members \subseteq Alive
      BY <2>1 DEF Raw, Good
    <3>2. \A n \in Npcs : team.caster[n] \in Players => team.caster[n] \in team.members
      BY <2>1 DEF Good
    <3> QED BY <3>1, <3>2
  <2>3. \A i \in Rows : /\ 0 <= team.form.min[i] /\ team.form.min[i] <= team.form.max[i]
                        /\ team.members # {} => team.form.max[i] <= MAX_TEAM_ROWLEN
    BY <2>1 DEF Raw, Forms, Good, Short
  <2>4. /\ team.members \subseteq Alive /\ team.leader \in Alive \cup {None}
        /\ team.members # {} => team.leader \in team.members \cup {None}
    BY <2>1 DEF Good
  <2> QED BY <2>2, <2>3, <2>4 DEF TeamOK, TypeOK, LeaderIsMember, IInv, Listed
<1> QED BY <1>1, SpecInv, PTL

\* Each member stands in one place of one row, however many are moved to make
\* room or to fill a row (MakeFormation(), CycleRows(), UpdateActRow()).
THEOREM TeamEveryoneInOneRow == Spec => []EveryoneInOneRow
<1>1. IInv(FALSE) => EveryoneInOneRow
  <2> SUFFICES ASSUME IInv(FALSE) PROVE EveryoneInOneRow
    OBVIOUS
  <2> DEFINE r == team.rows
  <2>1. r \in Standings(team.members, Living \ Alive) /\ Living \ Alive = gone
    BY DEF IInv, Good, Alive
  <2> HIDE DEF r
  <2>2. /\ \A i \in Rows : r[i] \in Seq(team.members \cup gone)
        /\ \A i \in Rows : IsInjective(r[i])
        /\ \A m \in team.members : \E i \in Rows : m \in ToSet(r[i])
        /\ \A i, j \in Rows : i # j => ToSet(r[i]) \cap ToSet(r[j]) = {}
    BY <2>1 DEF Standings
  <2>3. \A i \in Rows : /\ DOMAIN r[i] = 1 .. Len(r[i])
                        /\ \A k \in DOMAIN r[i] : r[i][k] \in team.members \cup gone
    BY <2>2, LenProperties
  <2>4. \A m \in team.members : \E i \in Rows : Contains(r[i], m)
    BY <2>2, <2>3 DEF ToSet, Contains
  <2>5. \A i, j \in Rows : \A k \in DOMAIN r[i], l \in DOMAIN r[j] : r[i][k] = r[j][l] => i = j /\ k = l
    <3> SUFFICES ASSUME NEW i \in Rows, NEW j \in Rows, NEW k \in DOMAIN r[i], NEW l \in DOMAIN r[j],
                        r[i][k] = r[j][l]
                 PROVE  i = j /\ k = l
      OBVIOUS
    <3>1. r[i][k] \in ToSet(r[i]) /\ r[j][l] \in ToSet(r[j])
      BY DEF ToSet
    <3>2. i = j
      BY <2>2, <3>1
    <3> QED BY <2>2, <3>2 DEF IsInjective
  <2> QED BY <2>3, <2>4, <2>5 DEF EveryoneInOneRow, r
<1> QED BY <1>1, SpecInv, PTL

\* An associated NPC and its player are both members and know each other, and
\* stay so when either of them leaves (RemoveMember(), RemoveAssocMember()).
THEOREM TeamAssocsAgree == Spec => []AssocsAgree
<1>1. IInv(FALSE) => AssocsAgree
  BY DEF IInv, Good, AssocsAgree
<1> QED BY <1>1, SpecInv, PTL

\* Who leaves takes the NPCs along that are associated with him, and nobody else
\* goes, unless a player is left with his own NPCs: they go too, and always if no
\* NPC leads (RemoveMemberAndAssocs(), DoRemoveMember(), RemoveSingles()).
THEOREM TeamOthersStay == Spec => OthersStay
<1> DEFINE Stay ==
      \A ob \in team.members \ team'.members :
        (\E by \in Living : RemoveMember(by, ob)) =>
          LET rest == team.members \ ({ob} \cup Assocs(team, ob))
          IN \/ team'.members = rest /\ (Alone(rest) => team'.leader \in Npcs)
             \/ team'.members = {} /\ Alone(rest)
<1>1. IInv(FALSE) /\ [Next]_vars => Stay
  <2> SUFFICES ASSUME IInv(FALSE), NEW ob \in team.members, NEW by \in Living, RemoveMember(by, ob)
               PROVE  LET rest == team.members \ ({ob} \cup Assocs(team, ob))
                      IN \/ team'.members = rest /\ (Alone(rest) => team'.leader \in Npcs)
                         \/ team'.members = {} /\ Alone(rest)
    OBVIOUS
  <2> QED BY RemoveMemberStays
<1>2. [][Stay]_vars => OthersStay
  BY PTL DEF OthersStay
<1> QED BY <1>1, <1>2, SpecInv, PTL DEF Spec

\* Whoever of the team is there: an opponent meets somebody in the first row, if
\* anybody has a link (PresentRows(), CheckFormation(), MakeFormation()).
THEOREM TeamFirstRowHolds == Spec => []FirstRowHolds
<1>1. IInv(FALSE) => FirstRowHolds
  <2> SUFFICES ASSUME IInv(FALSE), NEW here \in SUBSET team.members,
                      NEW dead \in {{}} \cup {{p} : p \in Players \cap here}, here # dead
               PROVE  PresentRows(team.form, team.rows, here, dead)[1] # <<>>
    BY DEF FirstRowHolds
  <2>1. here \ dead # {} /\ team.members # {}
    OBVIOUS
  <2>2. team \in Good(FALSE, Alive, pets) /\ team \in Raw
    BY DEF IInv, Good
  <2>3. Formed(FALSE, team) /\ team.rows \in Standings(team.members, Living \ Alive) /\ team.form \in Forms
    BY <2>1, <2>2 DEF Good, Raw
  <2>4. team.form.min[1] >= 1 /\ team.form.min[1] <= Len(team.rows[1])
    BY <2>3, Constants DEF Formed
  <2> QED BY <2>1, <2>3, <2>4, PresentFirst
<1> QED BY <1>1, SpecInv, PTL

\* The next one is about teams that have a place for everybody.
TeamFits == Cardinality(team.members) <= MAX_TEAMROWS * MAX_TEAM_ROWLEN

\* Whoever comes, goes or moves, and whatever formation is asked for: as long as
\* the rows have room for everybody, each of them is as long as was wanted
\* (CheckFormation(), MakeFormation(), SwapRows()).
THEOREM TeamRowsWithin == Spec /\ []TeamFits => RowsWithin
<1>1. Init => IInv(TRUE)
  BY InitInv
<1>2. TeamFits /\ IInv(TRUE) /\ [Next]_vars => IInv(TRUE)'
  BY StepInv DEF TeamFits, Places
<1> DEFINE Within == gone' = gone /\ <<team'.members, team'.rows, team'.form>> # <<team.members, team.rows, team.form>>
                       => team'.members = {} \/ InOrder(team'.form, team'.rows)
<1>3. IInv(TRUE)' /\ TeamFits' => Within
  BY DEF IInv, Good, Formed, TeamFits, Places
<1>4. Spec /\ []TeamFits => [][Within]_vars
  <2> HIDE DEF Within
  <2> QED BY <1>1, <1>2, <1>3, PTL DEF Spec
<1> QED BY <1>4 DEF RowsWithin

-----------------------------------------------------------------------------
(* The modifiers of a skill attribute: sums and minima.                    *)

LEMMA SumOfNothing == SumOf(NoMods) = 0
<1>1. DOMAIN NoMods = {}
  BY DEF NoMods
<1> QED BY <1>1 DEF SumOf, Sum, MapThenSumSet, MapThenFoldSet

LEMMA SumOfInt ==
  ASSUME NEW s, IsFiniteSet(DOMAIN s), \A c \in DOMAIN s : s[c].value \in Int
  PROVE  SumOf(s) \in Int
<1> DEFINE v == [c \in DOMAIN s |-> s[c].value]
<1>1. SumOf(s) = Sum(v, DOMAIN s)
  BY DEF SumOf
<1>2. \A c \in DOMAIN s : v[c] \in Int
  OBVIOUS
<1> HIDE DEF v
<1> QED BY <1>1, <1>2, SumInt

LEMMA MinNat ==
  ASSUME NEW S, S \subseteq Nat, S # {}
  PROVE  Min(S) \in Nat /\ \A y \in S : Min(S) <= y
BY LeastNat DEF Min

-----------------------------------------------------------------------------
(* The tables.                                                             *)

IsStatic(s) ==
  /\ s = [c \in DOMAIN s |-> s[c]] /\ DOMAIN s \subseteq Casters
  /\ \A c \in DOMAIN s : s[c] \in Static

IsDynamic(d) ==
  /\ d = [c \in DOMAIN d |-> d[c]] /\ DOMAIN d \subseteq Casters
  /\ \A c \in DOMAIN d : d[c] \in Nat

\* Unless the count was changed without the sum, the cached values belong to
\* modifiers of which some may be gone by now: the sum and the earliest end to
\* the static ones, the count to all.
Base(s, D) ==
  /\ IsStatic(s) /\ D \subseteq Casters
  /\ DOMAIN stat \subseteq DOMAIN s /\ \A c \in DOMAIN stat : stat[c] = s[c]
  /\ DOMAIN dyn \subseteq D
  /\ cache.sum = SumOf(s)
  /\ cache.count = Cardinality(DOMAIN s) + Cardinality(D)
  /\ \A c \in DOMAIN s : cache.timeout <= s[c].duration

Counted == cache # Nil /\ ~miscounted => \E s, D : Base(s, D)

SAInv == SATypeOK /\ IsStatic(stat) /\ IsDynamic(dyn) /\ OneModifier /\ Counted

LEMMA SizeNat ==
  ASSUME NEW s, NEW d, DOMAIN s \subseteq Casters, DOMAIN d \subseteq Casters
  PROVE  /\ IsFiniteSet(DOMAIN s) /\ IsFiniteSet(DOMAIN d)
         /\ Cardinality(DOMAIN s) \in Nat /\ Cardinality(DOMAIN d) \in Nat
         /\ Size(s, d) \in Nat
         /\ Size(s, d) = 0 <=> DOMAIN s = {} /\ DOMAIN d = {}
<1>1. IsFiniteSet(DOMAIN s) /\ IsFiniteSet(DOMAIN d)
  BY SkillAssumption, FS_Subset
<1>2. /\ Cardinality(DOMAIN s) \in Nat /\ Cardinality(DOMAIN d) \in Nat
      /\ Cardinality(DOMAIN s) = 0 <=> DOMAIN s = {}
      /\ Cardinality(DOMAIN d) = 0 <=> DOMAIN d = {}
  BY <1>1, FS_CardinalityType, FS_EmptySet
<1> QED BY <1>1, <1>2 DEF Size

\* What is there after UpdateSACache().
LEMMA Updated ==
  ASSUME now \in Nat, NEW s, NEW d, IsStatic(s), IsDynamic(d), Becomes(UpdateSACache(s, d))
  PROVE  /\ IsStatic(stat') /\ IsDynamic(dyn')
         /\ DOMAIN stat' = {c \in DOMAIN s : s[c].duration >= now}
         /\ DOMAIN dyn' = {c \in DOMAIN d : d[c] >= now}
         /\ cache' \in Cache \cup {Nil}
         /\ cache' = Nil => Size(stat', dyn') = 0
         /\ Counted'
         /\ miscounted' = FALSE
<1>1. /\ stat' = [c \in {x \in DOMAIN s : s[x].duration >= now} |-> s[c]]
      /\ dyn' = [c \in {x \in DOMAIN d : d[x] >= now} |-> d[c]]
      /\ miscounted' = FALSE
  BY DEF Becomes, UpdateSACache, Restrict
<1>2. IsStatic(stat') /\ IsDynamic(dyn')
  BY <1>1 DEF IsStatic, IsDynamic
<1> DEFINE ends == {stat'[c].duration : c \in DOMAIN stat'} \cup {Never}
<1>3. cache' = IF Size(stat', dyn') = 0 THEN Nil
               ELSE [sum |-> SumOf(stat'), count |-> Size(stat', dyn'), timeout |-> Min(ends)]
  BY DEF Becomes, UpdateSACache
<1>4. Min(ends) \in Nat /\ \A c \in DOMAIN stat' : Min(ends) <= stat'[c].duration
  <2>1. ends \subseteq Nat /\ Never \in ends
    BY <1>2 DEF IsStatic, Static, Never
  <2>2. Min(ends) \in Nat /\ \A y \in ends : Min(ends) <= y
    BY <2>1, MinNat
  <2>3. \A c \in DOMAIN stat' : stat'[c].duration \in ends
    OBVIOUS
  <2> HIDE DEF ends
  <2> QED BY <2>2, <2>3
<1> HIDE DEF ends
<1>5. SumOf(stat') \in Int
  <2>1. IsFiniteSet(DOMAIN stat') /\ \A c \in DOMAIN stat' : stat'[c].value \in Int
    BY <1>2, SkillAssumption, FS_Subset DEF IsStatic, Static
  <2> QED BY <2>1, SumOfInt
<1>6. Size(stat', dyn') \in Nat
  BY <1>2, SizeNat DEF IsStatic, IsDynamic
<1>7. cache' \in Cache \cup {Nil} /\ (cache' = Nil => Size(stat', dyn') = 0)
  <2>1. CASE Size(stat', dyn') = 0
    BY <1>3, <2>1
  <2>2. CASE Size(stat', dyn') # 0
    <3>1. cache' = [sum |-> SumOf(stat'), count |-> Size(stat', dyn'), timeout |-> Min(ends)]
      BY <1>3, <2>2
    <3>2. cache' \in Cache
      BY <1>4, <1>5, <1>6, <3>1 DEF Cache
    <3> QED BY <3>2, NilAssumption
  <2> QED BY <2>1, <2>2
<1>8. Counted'
  <2> SUFFICES ASSUME cache' # Nil PROVE \E t, D : Base(t, D)'
    BY DEF Counted
  <2>1. cache' = [sum |-> SumOf(stat'), count |-> Size(stat', dyn'), timeout |-> Min(ends)]
    BY <1>3
  <2>2. Base(stat, DOMAIN dyn)'
    BY <1>2, <1>4, <2>1 DEF Base, Size, IsDynamic
  <2> QED BY <2>2
<1> QED BY <1>1, <1>2, <1>7, <1>8

LEMMA WithoutTables ==
  ASSUME NEW S
  PROVE  /\ \A s : IsStatic(s) => IsStatic(Without(s, S))
         /\ \A d : IsDynamic(d) => IsDynamic(Without(d, S))
         /\ \A g : /\ DOMAIN Without(g, S) = DOMAIN g \ S
                   /\ \A c \in DOMAIN g \ S : Without(g, S)[c] = g[c]
BY DEF Without, Restrict, IsStatic, IsDynamic

\* Modifiers are changed and the cache is computed anew.
LEMMA BecomesInv ==
  ASSUME SAInv, NEW s, NEW d, IsStatic(s), IsDynamic(d),
         DOMAIN s \cup DOMAIN d \subseteq living, DOMAIN s \cap DOMAIN d = {},
         Becomes(UpdateSACache(s, d)), UNCHANGED <<now, living>>,
         query' \in Query \cup {Nil}, calls' \in 0 .. MaxCalls
  PROVE  SAInv'
<1>1. now \in Nat
  BY SkillAssumption DEF SAInv, SATypeOK
<1>2. /\ IsStatic(stat') /\ IsDynamic(dyn') /\ Counted'
      /\ DOMAIN stat' \subseteq DOMAIN s /\ DOMAIN dyn' \subseteq DOMAIN d
      /\ cache' \in Cache \cup {Nil}
      /\ cache' = Nil => Size(stat', dyn') = 0
      /\ miscounted' = FALSE
  BY <1>1, Updated
<1>3. OneModifier'
  BY <1>2 DEF OneModifier
<1>4. SATypeOK'
  BY <1>2 DEF SAInv, SATypeOK, IsStatic, IsDynamic
<1> QED BY <1>2, <1>3, <1>4 DEF SAInv

\* The modifiers stay, or some go that were destructed or dropped; sum and
\* earliest end stay as well.
LEMMA ShrinkInv ==
  ASSUME SAInv, DOMAIN stat' \cup DOMAIN dyn' \subseteq living', living' \subseteq living,
         IsStatic(stat'), IsDynamic(dyn'),
         DOMAIN stat' \subseteq DOMAIN stat, \A c \in DOMAIN stat' : stat'[c] = stat[c],
         DOMAIN dyn' \subseteq DOMAIN dyn,
         cache' \in Cache \cup {Nil}, cache' = Nil => Size(stat', dyn') = 0, Counted',
         now' \in 0 .. MaxTime, query' \in Query \cup {Nil}, calls' \in 0 .. MaxCalls,
         miscounted' \in BOOLEAN
  PROVE  SAInv'
<1>1. OneModifier'
  BY DEF SAInv, OneModifier
<1>2. SATypeOK'
  BY DEF SAInv, SATypeOK, IsStatic, IsDynamic
<1> QED BY <1>1, <1>2 DEF SAInv

\* Fewer modifiers under the same cache.
LEMMA CountedShrinks ==
  ASSUME Counted, UNCHANGED cache, miscounted' = miscounted,
         DOMAIN stat' \subseteq DOMAIN stat, \A c \in DOMAIN stat' : stat'[c] = stat[c],
         DOMAIN dyn' \subseteq DOMAIN dyn
  PROVE  Counted'
<1> SUFFICES ASSUME cache' # Nil, ~miscounted' PROVE \E t, D : Base(t, D)'
  BY DEF Counted
<1>1. PICK t, D : Base(t, D)
  BY DEF Counted
<1>2. Base(t, D)'
  BY <1>1 DEF Base
<1> QED BY <1>2

\* Somebody acts: a query goes on as it was.
LEMMA ActsType ==
  ASSUME SATypeOK, Acts, UNCHANGED query
  PROVE  query' \in Query \cup {Nil} /\ calls' \in 0 .. MaxCalls
BY SkillAssumption DEF SATypeOK, Acts

LEMMA RecountInv ==
  ASSUME SAInv, Acts, Recount, UNCHANGED <<now, living, stat, dyn, query>>
  PROVE  SAInv'
<1>1. query' \in Query \cup {Nil} /\ calls' \in 0 .. MaxCalls
  BY ActsType DEF SAInv
<1>2. Size(stat, dyn) \in Nat
  BY SizeNat DEF SAInv, IsStatic, IsDynamic
<1>3. CASE cache = Nil
  <2>1. cache' = [sum |-> 0, timeout |-> 0, count |-> 0]
    BY <1>3 DEF Recount
  <2>2. cache' \in Cache /\ cache' # Nil
    BY <2>1, NilAssumption DEF Cache
  <2>3. DOMAIN stat = {} /\ DOMAIN dyn = {}
    BY <1>3, NilAssumption, SizeNat DEF SAInv, SATypeOK, IsStatic, IsDynamic
  <2>4. Base(NoMods, {})'
    <3>1. IsStatic(NoMods) /\ DOMAIN NoMods = {}
      BY DEF IsStatic, NoMods
    <3> QED BY <2>1, <2>3, <3>1, SumOfNothing, FS_EmptySet DEF Base
  <2>5. Counted'
    BY <2>4 DEF Counted
  <2>6. miscounted' \in BOOLEAN
    BY <1>3 DEF Recount, SAInv, SATypeOK
  <2> QED BY <1>1, <2>2, <2>5, <2>6, ShrinkInv DEF SAInv, SATypeOK
<1>4. CASE cache # Nil
  <2>1. cache \in Cache
    BY <1>4 DEF SAInv, SATypeOK
  <2>2. CASE UNCHANGED <<cache, miscounted>>
    <3>1. Counted'
      BY <2>2, CountedShrinks DEF SAInv
    <3>2. cache' # Nil
      BY <1>4, <2>2
    <3> QED BY <1>1, <2>1, <2>2, <3>1, <3>2, ShrinkInv DEF SAInv, SATypeOK
  <2>3. CASE /\ cache.count >= SAM_MAX_MODS
             /\ cache' = [cache EXCEPT !.count = Size(stat, dyn)]
    <3>1. cache' \in Cache /\ cache' # Nil
      BY <1>2, <2>1, <2>3, NilAssumption DEF Cache
    <3>2. CASE cache.count = Size(stat, dyn)
      <4>1. cache' = cache
        BY <2>1, <2>3, <3>2 DEF Cache
      <4>2. miscounted' = miscounted
        BY <1>4, <3>2 DEF Recount, SAInv, SATypeOK
      <4> QED BY <2>2, <4>1, <4>2
    <3>3. CASE cache.count # Size(stat, dyn)
      <4>1. miscounted' = TRUE
        BY <1>4, <2>3, <3>3 DEF Recount, SAInv, SATypeOK
      <4>2. Counted'
        BY <4>1 DEF Counted
      <4> QED BY <1>1, <3>1, <4>1, <4>2, ShrinkInv DEF SAInv, SATypeOK
    <3> QED BY <3>2, <3>3
  <2>4. CASE ~(cache.count >= SAM_MAX_MODS)
    BY <1>4, <2>2, <2>4 DEF Recount, SAInv, SATypeOK
  <2> QED BY <1>4, <2>3, <2>4 DEF Recount
<1> QED BY <1>3, <1>4

\* The entry of a closure goes, and is counted down.
LEMMA DroppedInv ==
  ASSUME SAInv, NEW c \in Casters, cache # Nil, Dropped(c),
         UNCHANGED <<now, living, stat>>,
         query' \in Query \cup {Nil}, calls' \in 0 .. MaxCalls,
         miscounted' = (miscounted \/ c \notin DOMAIN dyn)
  PROVE  SAInv'
<1>1. cache \in Cache
  BY DEF SAInv, SATypeOK
<1>2. cache' \in Cache /\ cache' # Nil
  BY <1>1, NilAssumption DEF Dropped, Cache
<1>3. /\ IsDynamic(dyn') /\ DOMAIN dyn' = DOMAIN dyn \ {c}
  BY WithoutTables DEF Dropped, SAInv
<1>4. Counted'
  <2> SUFFICES ASSUME ~miscounted' PROVE \E t, D : Base(t, D)'
    BY DEF Counted
  <2>1. ~miscounted /\ c \in DOMAIN dyn
    BY DEF SAInv, SATypeOK
  <2>2. PICK t, D : Base(t, D)
    BY <2>1 DEF SAInv, Counted
  <2>3. IsFiniteSet(D) /\ c \in D
    BY <2>1, <2>2, SkillAssumption, FS_Subset DEF Base
  <2>4. Cardinality(D \ {c}) = Cardinality(D) - 1 /\ Cardinality(D) \in Nat
    BY <2>3, FS_RemoveElement, FS_CardinalityType
  <2>5. Cardinality(DOMAIN t) \in Nat
    BY <2>2, SkillAssumption, FS_Subset, FS_CardinalityType DEF Base, IsStatic
  <2>6. /\ cache'.sum = cache.sum /\ cache'.timeout = cache.timeout
        /\ cache'.count = cache.count - 1
    BY <1>1 DEF Dropped, Cache
  <2>7. Base(t, D \ {c})'
    BY <1>3, <2>2, <2>4, <2>5, <2>6 DEF Base
  <2> QED BY <2>7
<1>5. miscounted' \in BOOLEAN
  BY DEF SAInv, SATypeOK
<1> QED BY <1>2, <1>3, <1>4, <1>5, ShrinkInv DEF SAInv, SATypeOK

-----------------------------------------------------------------------------
(* The invariant.                                                          *)

LEMMA SAInitInv == SAInit => SAInv
<1> SUFFICES ASSUME SAInit PROVE SAInv
  OBVIOUS
<1>1. DOMAIN stat = {} /\ DOMAIN dyn = {} /\ IsStatic(stat) /\ IsDynamic(dyn)
  BY DEF SAInit, NoMods, IsStatic, IsDynamic
<1>2. Size(stat, dyn) = 0
  BY <1>1, FS_EmptySet DEF Size
<1>3. SATypeOK
  <2>1. /\ now \in 0 .. MaxTime /\ calls \in 0 .. MaxCalls
        /\ living = Casters /\ cache = Nil /\ query = Nil /\ miscounted = FALSE
    BY SkillAssumption DEF SAInit
  <2> QED BY <1>1, <1>2, <2>1 DEF SATypeOK
<1> QED BY <1>1, <1>3 DEF SAInit, SAInv, OneModifier, Counted

\* One more modifier, or another one of the same caster.
LEMMA SetTables ==
  ASSUME NEW c \in Casters, now \in Nat
  PROVE  /\ \A s, v, d : IsStatic(s) /\ v \in Values /\ d \in Durations
                => /\ IsStatic(WithEntry(s, c, [value |-> v, duration |-> now + d]))
                   /\ DOMAIN WithEntry(s, c, [value |-> v, duration |-> now + d]) = DOMAIN s \cup {c}
         /\ \A f, d : IsDynamic(f) /\ d \in Durations
                => /\ IsDynamic(WithEntry(f, c, now + d))
                   /\ DOMAIN WithEntry(f, c, now + d) = DOMAIN f \cup {c}
<1>1. ASSUME NEW s, NEW v \in Values, NEW d \in Durations, IsStatic(s)
      PROVE  /\ IsStatic(WithEntry(s, c, [value |-> v, duration |-> now + d]))
             /\ DOMAIN WithEntry(s, c, [value |-> v, duration |-> now + d]) = DOMAIN s \cup {c}
  <2>1. now + d \in Nat
    BY SkillAssumption
  <2>2. [value |-> v, duration |-> now + d] \in Static
    BY <2>1 DEF Static
  <2> QED BY <1>1, <2>2 DEF WithEntry, IsStatic
<1>2. ASSUME NEW f, NEW d \in Durations, IsDynamic(f)
      PROVE  /\ IsDynamic(WithEntry(f, c, now + d))
             /\ DOMAIN WithEntry(f, c, now + d) = DOMAIN f \cup {c}
  <2>1. now + d \in Nat
    BY SkillAssumption
  <2> QED BY <1>2, <2>1 DEF WithEntry, IsDynamic
<1> QED BY <1>1, <1>2

\* An attribute with modifiers has an entry, a query knows casters.
LEMMA Entry ==
  ASSUME SAInv
  PROVE  /\ now \in Nat /\ cache \in Cache \cup {Nil}
         /\ cache = Nil => DOMAIN stat = {} /\ DOMAIN dyn = {}
         /\ cache = Nil => Size(stat, dyn) = 0
         /\ query # Nil => query \in Query
<1>1. now \in Nat
  BY SkillAssumption DEF SAInv, SATypeOK
<1>2. cache = Nil => Size(stat, dyn) = 0
  BY NilAssumption DEF SAInv, SATypeOK
<1>3. cache = Nil => DOMAIN stat = {} /\ DOMAIN dyn = {}
  BY <1>2, SizeNat DEF SAInv, IsStatic, IsDynamic
<1> QED BY <1>1, <1>2, <1>3 DEF SAInv, SATypeOK

\* The tables and the cache stay.
LEMMA SameTablesInv ==
  ASSUME SAInv, UNCHANGED <<living, stat, dyn, cache, miscounted>>, now' \in 0 .. MaxTime,
         query' \in Query \cup {Nil}, calls' \in 0 .. MaxCalls
  PROVE  SAInv'
<1>1. Counted'
  BY CountedShrinks DEF SAInv
<1>2. cache' \in Cache \cup {Nil} /\ (cache' = Nil => Size(stat', dyn') = 0)
  BY Entry
<1> QED BY <1>1, <1>2, ShrinkInv DEF SAInv, SATypeOK

LEMMA StaticInv ==
  ASSUME SAInv, NEW c \in Casters, NEW v \in Values, NEW d \in Durations, ModifyStatic(c, v, d)
  PROVE  SAInv'
<1> DEFINE s == WithEntry(stat, c, [value |-> v, duration |-> now + d])
           f == Without(dyn, {c})
<1>1. IsStatic(s) /\ IsDynamic(f) /\ DOMAIN s = DOMAIN stat \cup {c} /\ DOMAIN f = DOMAIN dyn \ {c}
  <2>1. now \in Nat
    BY Entry
  <2>2. /\ IsStatic(s) /\ DOMAIN s = DOMAIN stat \cup {c}
    BY <2>1, SetTables DEF SAInv
  <2>3. IsDynamic(f) /\ DOMAIN f = DOMAIN dyn \ {c}
    BY WithoutTables DEF SAInv
  <2> QED BY <2>2, <2>3
<1>2. Becomes(UpdateSACache(s, f)) /\ UNCHANGED <<now, living, query>> /\ Acts /\ c \in living
  BY DEF ModifyStatic
<1> HIDE DEF s, f
<1>3. DOMAIN s \cup DOMAIN f \subseteq living /\ DOMAIN s \cap DOMAIN f = {}
  BY <1>1, <1>2 DEF SAInv, SATypeOK, OneModifier
<1> QED BY <1>1, <1>2, <1>3, ActsType, BecomesInv DEF SAInv

LEMMA DynamicInv ==
  ASSUME SAInv, NEW c \in Casters, NEW d \in Durations, ModifyDynamic(c, d)
  PROVE  SAInv'
<1> DEFINE s == Without(stat, {c})
           f == WithEntry(dyn, c, now + d)
<1>1. IsStatic(s) /\ IsDynamic(f) /\ DOMAIN s = DOMAIN stat \ {c} /\ DOMAIN f = DOMAIN dyn \cup {c}
  BY SetTables, WithoutTables, Entry DEF SAInv
<1>2. Becomes(UpdateSACache(s, f)) /\ UNCHANGED <<now, living, query>> /\ Acts /\ c \in living
  BY DEF ModifyDynamic
<1> HIDE DEF s, f
<1>3. DOMAIN s \cup DOMAIN f \subseteq living /\ DOMAIN s \cap DOMAIN f = {}
  BY <1>1, <1>2 DEF SAInv, SATypeOK, OneModifier
<1> QED BY <1>1, <1>2, <1>3, ActsType, BecomesInv DEF SAInv

LEMMA RemoveInv ==
  ASSUME SAInv, NEW c \in Casters, RemoveSkillAttributeModifier(c)
  PROVE  SAInv'
<1> DEFINE s == Without(stat, {c})
           f == Without(dyn, {c})
<1>1. IsStatic(s) /\ IsDynamic(f) /\ DOMAIN s = DOMAIN stat \ {c} /\ DOMAIN f = DOMAIN dyn \ {c}
  BY WithoutTables DEF SAInv
<1>2. Becomes(UpdateSACache(s, f)) /\ UNCHANGED <<now, living, query>> /\ Acts
  BY DEF RemoveSkillAttributeModifier
<1> HIDE DEF s, f
<1>3. DOMAIN s \cup DOMAIN f \subseteq living /\ DOMAIN s \cap DOMAIN f = {}
  BY <1>1 DEF SAInv, SATypeOK, OneModifier
<1> QED BY <1>1, <1>2, <1>3, ActsType, BecomesInv DEF SAInv

LEMMA CasterDestructedInv ==
  ASSUME SAInv, NEW c \in Casters, CasterDestructed(c)
  PROVE  SAInv'
<1>1. /\ Acts /\ living' = living \ {c}
      /\ stat' = Without(stat, {c}) /\ dyn' = Without(dyn, {c})
      /\ UNCHANGED <<now, cache, query, miscounted>>
  BY DEF CasterDestructed
<1>2. /\ IsStatic(stat') /\ IsDynamic(dyn')
      /\ DOMAIN stat' = DOMAIN stat \ {c} /\ DOMAIN dyn' = DOMAIN dyn \ {c}
      /\ \A x \in DOMAIN stat' : stat'[x] = stat[x]
  <2>1. IsStatic(Without(stat, {c})) /\ IsDynamic(Without(dyn, {c}))
    BY WithoutTables DEF SAInv
  <2>2. /\ DOMAIN Without(stat, {c}) = DOMAIN stat \ {c}
        /\ DOMAIN Without(dyn, {c}) = DOMAIN dyn \ {c}
        /\ \A x \in DOMAIN stat \ {c} : Without(stat, {c})[x] = stat[x]
    BY WithoutTables
  <2> QED BY <1>1, <2>1, <2>2
<1>3. Counted'
  BY <1>1, <1>2, CountedShrinks DEF SAInv
<1>4. cache' \in Cache \cup {Nil} /\ (cache' = Nil => Size(stat', dyn') = 0)
  <2>1. cache = Nil => DOMAIN stat' = {} /\ DOMAIN dyn' = {}
    BY <1>2, Entry
  <2>2. DOMAIN stat' = {} /\ DOMAIN dyn' = {} => Size(stat', dyn') = 0
    BY FS_EmptySet DEF Size
  <2> QED BY <1>1, <2>1, <2>2, Entry
<1>5. DOMAIN stat' \cup DOMAIN dyn' \subseteq living' /\ living' \subseteq living
  BY <1>1, <1>2 DEF SAInv, SATypeOK
<1>6. query' \in Query \cup {Nil} /\ calls' \in 0 .. MaxCalls
  BY <1>1, ActsType DEF SAInv
<1>7. now' \in 0 .. MaxTime /\ miscounted' \in BOOLEAN
  BY <1>1 DEF SAInv, SATypeOK
<1> QED BY <1>2, <1>3, <1>4, <1>5, <1>6, <1>7, ShrinkInv

LEMMA QueryInv == ASSUME SAInv, QuerySkillAttribute PROVE SAInv'
<1>1. /\ cache # Nil /\ UNCHANGED <<now, living>>
      /\ query' = IF cache' = Nil THEN Nil ELSE [todo |-> DOMAIN dyn', running |-> Nil]
      /\ calls' = IF cache' = Nil THEN 0 ELSE MaxCalls
  BY DEF QuerySkillAttribute
<1>2. calls' \in 0 .. MaxCalls
  BY <1>1, SkillAssumption
<1>3. DOMAIN dyn' \subseteq Casters => query' \in Query \cup {Nil}
  BY <1>1 DEF Query
<1>4. CASE Fresh
  <2>1. UNCHANGED <<stat, dyn, cache, miscounted>>
    BY <1>4 DEF QuerySkillAttribute
  <2>2. query' \in Query \cup {Nil}
    BY <1>3, <2>1 DEF SAInv, IsDynamic
  <2> QED BY <1>1, <1>2, <2>1, <2>2, SameTablesInv DEF SAInv, SATypeOK
<1>5. CASE ~Fresh
  <2>1. Becomes(UpdateSACache(stat, dyn))
    BY <1>5 DEF QuerySkillAttribute
  <2>2. IsDynamic(dyn')
    BY <2>1, Updated, Entry DEF SAInv
  <2>3. query' \in Query \cup {Nil}
    BY <1>3, <2>2 DEF IsDynamic
  <2> QED BY <1>1, <1>2, <2>1, <2>3, BecomesInv DEF SAInv, SATypeOK, OneModifier
<1> QED BY <1>4, <1>5

LEMMA NextClosureInv == ASSUME SAInv, NEW c \in Casters, NextClosure(c) PROVE SAInv'
<1>1. /\ query # Nil /\ c \in query.todo
      /\ UNCHANGED <<now, living, stat, calls, miscounted>>
  BY DEF NextClosure
<1>2. query.todo \subseteq Casters /\ query.running \in Casters \cup {Nil}
  BY <1>1, Entry DEF Query
<1>3. query' \in Query
  <2>1. \/ query' = [todo |-> query.todo \ {c}, running |-> c]
        \/ query' = [query EXCEPT !.todo = @ \ {c}]
    BY DEF NextClosure
  <2> QED BY <1>1, <1>2, <2>1, Entry DEF Query
<1>4. calls' \in 0 .. MaxCalls /\ now' \in 0 .. MaxTime
  BY <1>1 DEF SAInv, SATypeOK
<1>5. CASE UNCHANGED <<dyn, cache>>
  BY <1>1, <1>3, <1>4, <1>5, SameTablesInv
<1>6. CASE c \in DOMAIN dyn /\ Dropped(c)
  <2>1. cache # Nil
    BY <1>6, Entry
  <2>2. miscounted' = (miscounted \/ c \notin DOMAIN dyn)
    BY <1>1, <1>6 DEF SAInv, SATypeOK
  <2> QED BY <1>1, <1>3, <1>4, <1>6, <2>1, <2>2, DroppedInv
<1> QED BY <1>5, <1>6 DEF NextClosure

LEMMA ReturnsOtherInv == ASSUME SAInv, ReturnsOther PROVE SAInv'
<1>1. /\ query # Nil /\ query.running # Nil
      /\ UNCHANGED <<now, living, stat>>
      /\ miscounted' = (cache # Nil /\ (miscounted \/ query.running \notin DOMAIN dyn))
  BY DEF ReturnsOther
<1>2. query \in Query /\ query.running \in Casters
  BY <1>1, Entry DEF Query
<1>3. CASE cache = Nil
  <2>1. query' = Nil /\ calls' = 0 /\ UNCHANGED <<dyn, cache>>
    BY <1>3 DEF ReturnsOther
  <2>2. miscounted' = FALSE /\ Counted'
    BY <1>1, <1>3, <2>1 DEF Counted
  <2>3. calls' \in 0 .. MaxCalls
    BY <2>1, SkillAssumption
  <2>4. cache' \in Cache \cup {Nil} /\ (cache' = Nil => Size(stat', dyn') = 0)
    BY <1>1, <2>1, Entry
  <2> QED BY <1>1, <2>1, <2>2, <2>3, <2>4, ShrinkInv DEF SAInv, SATypeOK
<1>4. CASE cache # Nil
  <2>1. /\ query' = [query EXCEPT !.running = Nil]
        /\ Dropped(query.running) /\ UNCHANGED calls
    BY <1>4 DEF ReturnsOther
  <2>2. query' \in Query \cup {Nil} /\ calls' \in 0 .. MaxCalls
    BY <1>2, <2>1 DEF Query, SAInv, SATypeOK
  <2>3. miscounted' = (miscounted \/ query.running \notin DOMAIN dyn)
    BY <1>1, <1>4
  <2> QED BY <1>1, <1>2, <1>4, <2>1, <2>2, <2>3, DroppedInv
<1> QED BY <1>3, <1>4

LEMMA SAStepInv == SAInv /\ [SANext]_SAvars => SAInv'
<1> SUFFICES ASSUME SAInv, [SANext]_SAvars PROVE SAInv'
  OBVIOUS
<1>1. CASE \E c \in Casters : ModifyRefused(c) \/ \E v \in Values : ModifyInvalid(c, v)
  <2>1. Acts /\ Recount /\ UNCHANGED <<now, living, stat, dyn, query>>
    BY <1>1 DEF ModifyRefused, ModifyInvalid
  <2> QED BY <2>1, RecountInv
<1>2. CASE \E c \in Casters, v \in Values, d \in Durations : ModifyStatic(c, v, d)
  BY <1>2, StaticInv
<1>3. CASE \E c \in Casters, d \in Durations : ModifyDynamic(c, d)
  BY <1>3, DynamicInv
<1>4. CASE \E c \in Casters : RemoveSkillAttributeModifier(c)
  BY <1>4, RemoveInv
<1>5. CASE \E c \in Casters : CasterDestructed(c)
  BY <1>5, CasterDestructedInv
<1>6. CASE \E c \in Casters : NextClosure(c)
  BY <1>6, NextClosureInv
<1>7. CASE Tick
  <2>1. now' \in 0 .. MaxTime
    BY <1>7, SkillAssumption DEF Tick, SAInv, SATypeOK
  <2> QED BY <1>7, <2>1, SameTablesInv DEF Tick, SAInv, SATypeOK
<1>8. CASE QuerySkillAttribute
  BY <1>8, QueryInv
<1>9. CASE QueryModifiers
  <2>1. Becomes(UpdateSACache(stat, dyn)) /\ UNCHANGED <<now, living, query, calls>>
    BY <1>9 DEF QueryModifiers
  <2> QED BY <2>1, BecomesInv DEF SAInv, SATypeOK, OneModifier
<1>10. CASE ReturnsInt
  <2>1. query' \in Query
    BY <1>10, Entry DEF ReturnsInt, Query
  <2> QED BY <1>10, <2>1, SameTablesInv DEF ReturnsInt, SAInv, SATypeOK
<1>11. CASE ReturnsOther
  BY <1>11, ReturnsOtherInv
<1>12. CASE QueryEnds
  <2>1. calls' \in 0 .. MaxCalls
    BY <1>12, SkillAssumption DEF QueryEnds
  <2> QED BY <1>12, <2>1, SameTablesInv DEF QueryEnds, SAInv, SATypeOK
<1>13. CASE UNCHANGED SAvars
  BY <1>13, SameTablesInv DEF SAvars, SAInv, SATypeOK
<1> QED BY <1>1, <1>2, <1>3, <1>4, <1>5, <1>6, <1>7, <1>8, <1>9, <1>10, <1>11, <1>12, <1>13
        DEF SANext

LEMMA SASpecInv == SASpec => []SAInv
BY SAInitInv, SAStepInv, PTL DEF SASpec

-----------------------------------------------------------------------------
(* The theorems.                                                           *)

\* A caster has one modifier, static or dynamic, and none once it is destructed;
\* the attribute has its entry as long as there are modifiers.
THEOREM SkillModifiersOK == SASpec => []ModifiersOK
<1>1. SAInv => ModifiersOK
  BY DEF SAInv, ModifiersOK
<1> QED BY <1>1, SASpecInv, PTL

\* The sum that QuerySkillAttribute() takes from the cache is the true one,
\* unless the number of modifiers was changed without the sum being computed.
THEOREM SkillCacheRight == SASpec => []CacheRight
<1>1. ASSUME SAInv, cache # Nil, Fresh, ~miscounted PROVE cache.sum = TrueSum
  <2>1. PICK s, D : Base(s, D)
    BY <1>1 DEF SAInv, Counted
  <2>2. IsFiniteSet(DOMAIN s) /\ IsFiniteSet(D)
    BY <2>1, SkillAssumption, FS_Subset DEF Base, IsStatic
  <2>3. /\ Cardinality(DOMAIN s) \in Nat /\ Cardinality(D) \in Nat
        /\ Cardinality(DOMAIN stat) <= Cardinality(DOMAIN s)
        /\ Cardinality(DOMAIN dyn) <= Cardinality(D)
        /\ Cardinality(DOMAIN stat) = Cardinality(DOMAIN s) => DOMAIN stat = DOMAIN s
    BY <2>1, <2>2, FS_Subset, FS_CardinalityType DEF Base
  <2>4. Cardinality(DOMAIN stat) \in Nat /\ Cardinality(DOMAIN dyn) \in Nat
    BY <1>1, SizeNat DEF SAInv, IsStatic, IsDynamic
  <2>5. Cardinality(DOMAIN s) + Cardinality(D)
          = Cardinality(DOMAIN stat) + Cardinality(DOMAIN dyn)
    BY <1>1, <2>1 DEF Base, Fresh, Size
  <2>6. DOMAIN stat = DOMAIN s
    BY <2>3, <2>4, <2>5
  <2>7. stat = s
    BY <1>1, <2>1, <2>6 DEF Base, SAInv, IsStatic
  <2>8. \A c \in DOMAIN stat : stat[c].duration >= now
    <3>1. cache.timeout \in Nat /\ now \in Nat /\ now <= cache.timeout
      BY <1>1, Entry DEF Fresh, Cache
    <3>2. \A c \in DOMAIN stat : stat[c].duration \in Nat /\ cache.timeout <= stat[c].duration
      BY <1>1, <2>1, <2>7 DEF Base, IsStatic, Static
    <3> QED BY <3>1, <3>2
  <2>9. Restrict(stat, {c \in DOMAIN stat : stat[c].duration >= now}) = stat
    <3>1. {c \in DOMAIN stat : stat[c].duration >= now} = DOMAIN stat
      BY <2>8
    <3>2. Restrict(stat, DOMAIN stat) = stat
      BY <1>1 DEF Restrict, SAInv, IsStatic
    <3> QED BY <3>1, <3>2
  <2>10. TrueSum = SumOf(s)
    BY <2>7, <2>9 DEF TrueSum
  <2> QED BY <2>1, <2>10 DEF Base
<1>2. SAInv => CacheRight
  BY <1>1 DEF CacheRight
<1> QED BY <1>2, SASpecInv, PTL

\* What a step adds: nothing, or a modifier of c.
Shrinks == DOMAIN stat' \subseteq DOMAIN stat /\ DOMAIN dyn' \subseteq DOMAIN dyn
Grows(c) ==
  /\ ~Full
  /\ \/ DOMAIN stat' \subseteq DOMAIN stat \cup {c} /\ DOMAIN dyn' \subseteq DOMAIN dyn \ {c}
     \/ DOMAIN stat' \subseteq DOMAIN stat \ {c} /\ DOMAIN dyn' \subseteq DOMAIN dyn \cup {c}

\* The modifiers of all but c stay as they are, and the cache is computed anew.
LEMMA BecomesEffect ==
  ASSUME SAInv, NEW c, NEW s, NEW d, IsStatic(s), IsDynamic(d),
         Becomes(UpdateSACache(s, d)), UNCHANGED now,
         DOMAIN stat \ {c} \subseteq DOMAIN s, \A x \in DOMAIN stat \ {c} : s[x] = stat[x],
         DOMAIN dyn \ {c} \subseteq DOMAIN d, \A x \in DOMAIN dyn \ {c} : d[x] = dyn[x]
  PROVE  /\ Lost \subseteq {c}
         /\ DOMAIN stat' \subseteq DOMAIN s /\ DOMAIN dyn' \subseteq DOMAIN d
<1>1. now \in Nat /\ IsDynamic(dyn)
  BY Entry DEF SAInv
<1>2. /\ DOMAIN stat' = {x \in DOMAIN s : s[x].duration >= now}
      /\ DOMAIN dyn' = {x \in DOMAIN d : d[x] >= now}
  BY <1>1, Updated
<1>3. /\ stat' = Restrict(s, {x \in DOMAIN s : s[x].duration >= now})
      /\ dyn' = Restrict(d, {x \in DOMAIN d : d[x] >= now})
  BY DEF Becomes, UpdateSACache
<1>4. /\ \A x \in DOMAIN stat' : stat'[x] = s[x]
      /\ \A x \in DOMAIN dyn' : dyn'[x] = d[x]
  BY <1>2, <1>3 DEF Restrict
<1>5. \A x \in DOMAIN dyn : dyn[x] \in Nat
  BY <1>1 DEF IsDynamic
<1>6. ASSUME NEW x \in DOMAIN stat, stat[x].duration >= now, x # c
      PROVE  x \in DOMAIN stat' /\ stat'[x] = stat[x]
  BY <1>2, <1>4, <1>6
<1>7. ASSUME NEW x \in DOMAIN dyn, dyn[x] > now, x # c
      PROVE  x \in DOMAIN dyn' /\ dyn'[x] = dyn[x]
  BY <1>1, <1>2, <1>4, <1>5, <1>7
<1> QED BY <1>2, <1>6, <1>7 DEF Lost

\* Who sets or removes a modifier, or is destructed, loses his own only.
LEMMA OwnOnly ==
  ASSUME SAInv, NEW c \in Casters, Concerns(c)
  PROVE  Lost \subseteq {c} /\ (Shrinks \/ Grows(c))
<1>0. now \in Nat /\ IsStatic(stat) /\ IsDynamic(dyn)
  BY Entry DEF SAInv
<1> DEFINE s == Without(stat, {c})
           f == Without(dyn, {c})
<1>1. /\ IsStatic(s) /\ DOMAIN s = DOMAIN stat \ {c} /\ \A x \in DOMAIN stat \ {c} : s[x] = stat[x]
      /\ IsDynamic(f) /\ DOMAIN f = DOMAIN dyn \ {c} /\ \A x \in DOMAIN dyn \ {c} : f[x] = dyn[x]
  BY <1>0, WithoutTables
<1>2. ASSUME NEW v \in Values, NEW d \in Durations, ModifyStatic(c, v, d)
      PROVE  Lost \subseteq {c} /\ Grows(c)
  <2> DEFINE t == WithEntry(stat, c, [value |-> v, duration |-> now + d])
  <2>1. IsStatic(t) /\ DOMAIN t = DOMAIN stat \cup {c}
    BY <1>0, SetTables
  <2>2. \A x \in DOMAIN stat \ {c} : t[x] = stat[x]
    BY DEF WithEntry
  <2>3. ~Full /\ Becomes(UpdateSACache(t, f)) /\ UNCHANGED now
    BY <1>2 DEF ModifyStatic
  <2> HIDE DEF t, f
  <2>4. Lost \subseteq {c} /\ DOMAIN stat' \subseteq DOMAIN t /\ DOMAIN dyn' \subseteq DOMAIN f
    BY <1>1, <2>1, <2>2, <2>3, BecomesEffect
  <2> QED BY <1>1, <2>1, <2>3, <2>4 DEF Grows
<1>3. ASSUME NEW d \in Durations, ModifyDynamic(c, d)
      PROVE  Lost \subseteq {c} /\ Grows(c)
  <2> DEFINE t == WithEntry(dyn, c, now + d)
  <2>1. IsDynamic(t) /\ DOMAIN t = DOMAIN dyn \cup {c}
    BY <1>0, SetTables
  <2>2. \A x \in DOMAIN dyn \ {c} : t[x] = dyn[x]
    BY DEF WithEntry
  <2>3. ~Full /\ Becomes(UpdateSACache(s, t)) /\ UNCHANGED now
    BY <1>3 DEF ModifyDynamic
  <2> HIDE DEF s, t
  <2>4. Lost \subseteq {c} /\ DOMAIN stat' \subseteq DOMAIN s /\ DOMAIN dyn' \subseteq DOMAIN t
    BY <1>1, <2>1, <2>2, <2>3, BecomesEffect
  <2> QED BY <1>1, <2>1, <2>3, <2>4 DEF Grows
<1>4. ASSUME RemoveSkillAttributeModifier(c)
      PROVE  Lost \subseteq {c} /\ Shrinks
  <2>1. Becomes(UpdateSACache(s, f)) /\ UNCHANGED now
    BY <1>4 DEF RemoveSkillAttributeModifier
  <2> HIDE DEF s, f
  <2>2. Lost \subseteq {c} /\ DOMAIN stat' \subseteq DOMAIN s /\ DOMAIN dyn' \subseteq DOMAIN f
    BY <1>1, <2>1, BecomesEffect
  <2> QED BY <1>1, <2>2 DEF Shrinks
<1>5. ASSUME CasterDestructed(c)
      PROVE  Lost \subseteq {c} /\ Shrinks
  <2>1. stat' = s /\ dyn' = f
    BY <1>5 DEF CasterDestructed
  <2> HIDE DEF s, f
  <2> QED BY <1>1, <2>1 DEF Lost, Shrinks
<1> QED BY <1>2, <1>3, <1>4, <1>5 DEF Concerns

\* The entry of one closure goes, and of no other.
LEMMA DroppedEffect ==
  ASSUME NEW c, Dropped(c), UNCHANGED stat
  PROVE  Lost \subseteq {c} /\ (c \in DOMAIN dyn /\ ~(dyn[c] > now) => Lost = {}) /\ Shrinks
<1>1. dyn' = Without(dyn, {c})
  BY DEF Dropped
<1>2. DOMAIN dyn' = DOMAIN dyn \ {c} /\ \A x \in DOMAIN dyn \ {c} : dyn'[x] = dyn[x]
  BY <1>1, WithoutTables
<1> QED BY <1>2 DEF Lost, Shrinks

\* Queries, refused calls and time take nothing that is not over.
LEMMA NothingTaken ==
  ASSUME SAInv, TakesNothing \/ UNCHANGED SAvars
  PROVE  Lost = {} /\ Shrinks
<1>1. CASE UNCHANGED <<stat, dyn>>
  BY <1>1 DEF Lost, Shrinks
<1>2. CASE Becomes(UpdateSACache(stat, dyn)) /\ UNCHANGED now
  <2>1. IsStatic(stat) /\ IsDynamic(dyn)
    BY DEF SAInv
  <2>2. Lost \subseteq {Nil} /\ Shrinks
    BY <1>2, <2>1, BecomesEffect DEF Shrinks
  <2>3. Nil \notin Lost
    BY <2>1, SkillAssumption DEF Lost, IsStatic, IsDynamic
  <2> QED BY <2>2, <2>3
<1>3. ASSUME NEW c \in Casters, NextClosure(c)
      PROVE  Lost = {} /\ Shrinks
  <2>1. \/ UNCHANGED <<stat, dyn>>
        \/ c \in DOMAIN dyn /\ ~(dyn[c] > now) /\ Dropped(c) /\ UNCHANGED stat
    BY <1>3 DEF NextClosure
  <2> QED BY <1>1, <2>1, DroppedEffect
<1>4. CASE \/ \E c \in Casters : ModifyRefused(c) \/ \E v \in Values : ModifyInvalid(c, v)
           \/ Tick \/ ReturnsInt \/ QueryEnds \/ UNCHANGED SAvars
  <2>1. UNCHANGED <<stat, dyn>>
    BY <1>4 DEF ModifyRefused, ModifyInvalid, Tick, ReturnsInt, QueryEnds, SAvars
  <2> QED BY <1>1, <2>1
<1>5. CASE QuerySkillAttribute \/ QueryModifiers
  BY <1>1, <1>2, <1>5 DEF QuerySkillAttribute, QueryModifiers
<1> QED BY <1>3, <1>4, <1>5 DEF TakesNothing

\* A closure that is none any more is its caster's.
LEMMA ClosureTaken ==
  ASSUME SAInv, ReturnsOther
  PROVE  Lost \subseteq {query.running} /\ Shrinks
<1>1. UNCHANGED stat /\ (UNCHANGED dyn \/ Dropped(query.running))
  BY DEF ReturnsOther
<1>2. CASE UNCHANGED <<stat, dyn>>
  BY <1>2 DEF Lost, Shrinks
<1> QED BY <1>1, <1>2, DroppedEffect

LEMMA StepEffect == SAInv /\ [SANext]_SAvars => Shrinks \/ \E c \in Casters : Grows(c)
BY OwnOnly, NothingTaken, ClosureTaken DEF SANext, Concerns, TakesNothing

\* Who finds SAM_MAX_MODS modifiers adds none, however many casters of those that
\* were counted have vanished.
THEOREM SkillNotTooMany == SASpec => NotTooMany
<1>1. ASSUME SAInv, SAInv', [SANext]_SAvars, ~miscounted, Size(stat', dyn') > Size(stat, dyn)
      PROVE  Size(stat', dyn') <= SAM_MAX_MODS
  <2>1. Shrinks \/ \E c \in Casters : Grows(c)
    BY <1>1, StepEffect
  <2>2. /\ IsFiniteSet(DOMAIN stat) /\ IsFiniteSet(DOMAIN dyn)
        /\ Cardinality(DOMAIN stat) \in Nat /\ Cardinality(DOMAIN dyn) \in Nat
    BY <1>1, SizeNat DEF SAInv, IsStatic, IsDynamic
  <2>3. Cardinality(DOMAIN stat') \in Nat /\ Cardinality(DOMAIN dyn') \in Nat
    BY <1>1, SizeNat DEF SAInv, IsStatic, IsDynamic
  <2>4. ~(DOMAIN stat' \subseteq DOMAIN stat /\ DOMAIN dyn' \subseteq DOMAIN dyn)
    <3>1. ASSUME DOMAIN stat' \subseteq DOMAIN stat, DOMAIN dyn' \subseteq DOMAIN dyn
          PROVE  FALSE
      <4>1. /\ Cardinality(DOMAIN stat') <= Cardinality(DOMAIN stat)
            /\ Cardinality(DOMAIN dyn') <= Cardinality(DOMAIN dyn)
        BY <2>2, <3>1, FS_Subset
      <4> QED BY <1>1, <2>2, <2>3, <4>1 DEF Size
    <3> QED BY <3>1
  <2>5. PICK c \in Casters : Grows(c)
    BY <2>1, <2>4 DEF Shrinks
  <2>6. Size(stat', dyn') <= Size(stat, dyn) + 1
    <3>1. \A T, U : IsFiniteSet(T) /\ U \subseteq T \cup {c}
             => Cardinality(T) \in Nat /\ Cardinality(U) \in Nat
                /\ Cardinality(U) <= Cardinality(T) + 1
      <4> SUFFICES ASSUME NEW T, NEW U, IsFiniteSet(T), U \subseteq T \cup {c}
                   PROVE  /\ Cardinality(T) \in Nat /\ Cardinality(U) \in Nat
                          /\ Cardinality(U) <= Cardinality(T) + 1
        OBVIOUS
      <4>1. /\ IsFiniteSet(T \cup {c}) /\ Cardinality(T) \in Nat
            /\ Cardinality(T \cup {c}) <= Cardinality(T) + 1
        BY FS_AddElement, FS_CardinalityType
      <4>2. IsFiniteSet(U) /\ Cardinality(U) <= Cardinality(T \cup {c})
        BY <4>1, FS_Subset
      <4>3. Cardinality(U) \in Nat /\ Cardinality(T \cup {c}) \in Nat
        BY <4>1, <4>2, FS_CardinalityType
      <4> QED BY <4>1, <4>2, <4>3
    <3>2. \A T, U : IsFiniteSet(T) /\ U \subseteq T \ {c} => Cardinality(U) <= Cardinality(T)
      BY FS_Subset
    <3>3. CASE DOMAIN stat' \subseteq DOMAIN stat \cup {c} /\ DOMAIN dyn' \subseteq DOMAIN dyn \ {c}
      <4>1. /\ Cardinality(DOMAIN stat') <= Cardinality(DOMAIN stat) + 1
            /\ Cardinality(DOMAIN dyn') <= Cardinality(DOMAIN dyn)
        BY <2>2, <3>1, <3>2, <3>3
      <4> QED BY <2>2, <2>3, <4>1 DEF Size
    <3>4. CASE DOMAIN stat' \subseteq DOMAIN stat \ {c} /\ DOMAIN dyn' \subseteq DOMAIN dyn \cup {c}
      <4>1. /\ Cardinality(DOMAIN stat') <= Cardinality(DOMAIN stat)
            /\ Cardinality(DOMAIN dyn') <= Cardinality(DOMAIN dyn) + 1
        BY <2>2, <3>1, <3>2, <3>4
      <4> QED BY <2>2, <2>3, <4>1 DEF Size
    <3> QED BY <2>5, <3>3, <3>4 DEF Grows
  <2>7. Size(stat, dyn) < SAM_MAX_MODS
    <3>1. Size(stat, dyn) \in Nat /\ SAM_MAX_MODS \in Nat \ {0}
      BY <2>2, SkillAssumption DEF Size
    <3>2. CASE cache = Nil
      BY <1>1, <3>1, <3>2, Entry
    <3>3. CASE cache # Nil /\ ~(cache.count >= SAM_MAX_MODS)
      <4>1. PICK s, D : Base(s, D)
        BY <1>1, <3>3 DEF SAInv, Counted
      <4>2. IsFiniteSet(DOMAIN s) /\ IsFiniteSet(D)
        BY <4>1, SkillAssumption, FS_Subset DEF Base, IsStatic
      <4>3. /\ Cardinality(DOMAIN s) \in Nat /\ Cardinality(D) \in Nat
            /\ Cardinality(DOMAIN stat) <= Cardinality(DOMAIN s)
            /\ Cardinality(DOMAIN dyn) <= Cardinality(D)
        BY <4>1, <4>2, FS_Subset, FS_CardinalityType DEF Base
      <4>4. Size(stat, dyn) <= cache.count /\ cache.count \in Nat
        BY <2>2, <4>1, <4>3 DEF Base, Size
      <4> QED BY <3>1, <3>3, <4>4
    <3>4. CASE ~(Size(stat, dyn) >= SAM_MAX_MODS)
      BY <3>1, <3>4
    <3> QED BY <2>5, <3>2, <3>3, <3>4 DEF Grows, Full
  <2>8. Size(stat, dyn) \in Nat /\ Size(stat', dyn') \in Nat
    BY <2>2, <2>3 DEF Size
  <2> QED BY <2>6, <2>7, <2>8, SkillAssumption
<1>2. SAInv /\ SAInv' /\ [SANext]_SAvars
        => [~miscounted /\ Size(stat', dyn') > Size(stat, dyn)
              => Size(stat', dyn') <= SAM_MAX_MODS]_SAvars
  BY <1>1
<1> QED BY <1>2, SASpecInv, PTL DEF SASpec, NotTooMany

\* Until its time is over a modifier, static or dynamic, is lost or changed by what
\* concerns its own caster only: by no query, no refused call, no clean-up, and nobody
\* else's modifier (UpdateSACache(), QuerySkillAttribute()).
THEOREM SkillKeptToTheEnd == SASpec => KeptToTheEnd
<1>1. ASSUME SAInv, NEW c \in Lost
      PROVE  /\ ~TakesNothing
             /\ ReturnsOther => query.running = c
             /\ \A x \in Casters : Concerns(x) => x = c
  BY <1>1, NothingTaken, ClosureTaken, OwnOnly
<1>2. SAInv => [\A c \in Lost : /\ ~TakesNothing
                                /\ ReturnsOther => query.running = c
                                /\ \A x \in Casters : Concerns(x) => x = c]_SAvars
  BY <1>1
<1> QED BY <1>2, SASpecInv, PTL DEF SASpec, KeptToTheEnd
=============================================================================
