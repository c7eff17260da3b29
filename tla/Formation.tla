------------------------------ MODULE Formation ------------------------------
(***************************************************************************)
(* How a team stands in its rows (obj/team.c): which lengths of the rows   *)
(* are taken for the wanted ones, how the members are moved until all rows *)
(* have such a length, and who of them an opponent meets.                  *)
(*                                                                         *)
(* A formation is a sequence of rows, a row a sequence of members.  Rows   *)
(* are sorted by scores that depend on the members' health; order is any   *)
(* order of the members that such scores may give.                         *)
(***************************************************************************)
EXTENDS Integers, Lists

CONSTANTS MAX_TEAMROWS, MAX_TEAM_ROWLEN

ASSUME FormationAssumption ==
  /\ MAX_TEAMROWS \in Nat \ {0}
  /\ MAX_TEAM_ROWLEN \in Nat \ {0}

Rows == 1 .. MAX_TEAMROWS
Upwards == [i \in Rows |-> i]
Downwards == Reverse(Upwards)

ByRow(f(_)) == SubSeq([i \in Rows |-> f(i)], 1, MAX_TEAMROWS)

FirstOf(s, d) == SubSeq(s, 1, Min({d, Len(s)}))
Rest(s, d)  == SubSeq(s, d + 1, Len(s))

\* A member that stands in several rows stays in the last of them, one that
\* stands in none comes to the first.
RowOf(rows, m) == Max({i \in Rows : Contains(rows[i], m)} \cup {1})

\* Faulty variant: who stands in no row is not looked for.
UpdateStanding(rows, members, order) ==
  ByRow(LAMBDA i : Those(order, {m \in members : RowOf(rows, m) = i /\ Contains(rows[i], m)}))

UpdateActRow(rows, members, order) ==
  ByRow(LAMBDA i : Those(order, {m \in members : RowOf(rows, m) = i}))

-----------------------------------------------------------------------------
(* The lengths.  form has the fields min and max.                          *)

\* Faulty variant: the longest possible row is not looked at.
Unlimited(form) ==
  LET low(i) == Max({form.min[i], IF i = 1 THEN 1 ELSE 0})
  IN [min |-> ByRow(low), max |-> ByRow(LAMBDA i : Max({form.max[i], low(i)}))]

\* What was asked for, as far as it makes sense.
Sensible(form) ==
  LET low(i) == Max({form.min[i], IF i = 1 THEN 1 ELSE 0})
      high(i) == Min({Max({form.max[i], low(i)}), MAX_TEAM_ROWLEN})
  IN [min |-> ByRow(LAMBDA i : Min({low(i), high(i)})), max |-> ByRow(high)]

\* Faulty variant: the minima are lowered from the front.
LowerFirst(form, num) ==
  LET f == Sensible(form)
      surplus == SumTo(f.min, MAX_TEAMROWS) - num
  IN [f EXCEPT !.min = ByRow(LAMBDA i :
         f.min[i] - Max({0, Min({f.min[i], surplus - SumTo(f.min, i - 1)})}))]

\* Rows are lengthened from the front until everyone has a place, and the
\* minima lowered from the back until there are enough members for them: a row
\* may ask for those whom the rows before it leave.
CheckFormation(form, num) ==
  LET f == Sensible(form)
      room == ByRow(LAMBDA i : MAX_TEAM_ROWLEN - f.max[i])
      missing == num - SumTo(f.max, MAX_TEAMROWS)
  IN [max |-> ByRow(LAMBDA i :
         f.max[i] + Max({0, Min({room[i], missing - SumTo(room, i - 1)})})),
      min |-> ByRow(LAMBDA i :
         f.min[i] - Max({0, Min({f.min[i], SumTo(f.min, i) - num})}))]

-----------------------------------------------------------------------------
(* Moving the members.                                                     *)

\* d members go from the front of row j to the end of row i.
Give(rows, j, i, d) ==
  IF d <= 0 THEN rows
  ELSE [rows EXCEPT ![i] = @ \o FirstOf(rows[j], d), ![j] = Rest(@, d)]

\* Row i is filled up from the rows js, one after the other.
FillUp(rows, min, i, js) ==
  FoldLeft(LAMBDA r, j : Give(r, j, i, min[i] - Len(r[i])), rows, js)

\* A row that is too full gives what it can to the one before, the rest to the
\* one behind; a row that is too empty takes from those behind.
Forwards(form, rows, i) ==
  IF Len(rows[i]) > form.max[i]
    THEN LET r == IF i = 1 THEN rows
                  ELSE Give(rows, i, i - 1, form.max[i - 1] - Len(rows[i - 1]))
         IN IF i < MAX_TEAMROWS /\ Len(r[i]) > form.max[i]
              THEN [r EXCEPT ![i] = FirstOf(@, form.max[i]),
                             ![i + 1] = Rest(r[i], form.max[i]) \o @]
              ELSE r
    ELSE FillUp(rows, form.min, i, SubSeq(Upwards, i + 1, MAX_TEAMROWS))

\* From the back: the row takes from those before it, or gives its surplus.
Backwards(form, rows, i) ==
  IF i = 1 THEN rows
  ELSE LET r == FillUp(rows, form.min, i, Reverse(SubSeq(Upwards, 1, i - 1)))
       IN Give(r, i, i - 1, Len(r[i]) - form.max[i])

\* There and back again.
To(form, rows) == FoldLeft(LAMBDA r, i : Forwards(form, r, i), rows, Upwards)
Fro(form, rows) == FoldLeft(LAMBDA r, i : Backwards(form, r, i), rows, Downwards)

InOrder(form, rows) ==
  \A i \in Rows : form.min[i] <= Len(rows[i]) /\ Len(rows[i]) <= form.max[i]

\* Faulty variant: one pass only.
MakeFormationOnce(form, rows, members, order) ==
  LET now == UpdateActRow(rows, members, order)
  IN IF InOrder(form, now) THEN now ELSE UpdateActRow(To(form, now), members, order)

MakeFormation(form, rows, members, order) ==
  LET now == UpdateActRow(rows, members, order)
  IN IF InOrder(form, now) THEN now ELSE UpdateActRow(Fro(form, To(form, now)), members, order)

\* ob changes from row src to row dest.  Where he leaves a gap or finds no room,
\* one of each row between goes to the next, towards src.
CycleRows(form, rows, ob, src, dest) ==
  LET left == [rows EXCEPT ![src] = Remove(@, ob)]
      shift == Len(left[src]) < form.min[src] \/ Len(left[dest]) >= form.max[dest]
      down(r, i) == [r EXCEPT ![i - 1] = @ \o FirstOf(r[i], 1), ![i] = Rest(@, 1)]
      up(r, i) == IF r[i] = <<>> THEN r
                  ELSE [r EXCEPT ![i + 1] = <<Last(r[i])>> \o @,
                                 ![i] = Front(@)]
      moved == IF ~shift THEN left
               ELSE IF src < dest
                 THEN FoldLeft(down, left, SubSeq(Upwards, src + 1, dest))
                 ELSE FoldLeft(up, left, Reverse(SubSeq(Upwards, dest, src - 1)))
  IN [moved EXCEPT ![dest] = IF src < dest THEN Append(@, ob) ELSE <<ob>> \o @]

-----------------------------------------------------------------------------

\* PresentRows(): who of the team is here.  Rows with too few are filled up from
\* behind, where a row that gave once is not asked again; those without a link
\* stand behind everybody.
FillFrom(form, s, i, j) ==
  IF Len(s.res[i]) >= form.min[i] THEN s
  ELSE [res |-> Give(s.res, j, i, form.min[i] - Len(s.res[i])), j |-> j + 1]

FillRow(form, s, i) ==
  FoldLeft(LAMBDA t, j : FillFrom(form, t, i, j), s,
           SubSeq(Upwards, Max({s.j, i + 1}), MAX_TEAMROWS))

FillRows(form, rows) ==
  FoldLeft(LAMBDA s, i : FillRow(form, s, i), [res |-> rows, j |-> 1], Upwards).res

PresentRows(form, rows, here, dead) ==
  LET there == ByRow(LAMBDA i : Those(rows[i], here \ dead))
  IN IF there = rows THEN rows
     ELSE [FillRows(form, there) EXCEPT ![MAX_TEAMROWS] =
            @ \o Those(FlattenSeq(rows), here \cap dead)]
=============================================================================
