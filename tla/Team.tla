-------------------------------- MODULE Team --------------------------------
(***************************************************************************)
(* A team (obj/team.c) with the side of its members (std/living/team.c):   *)
(* players and NPCs join, leave, are associated with each other, change    *)
(* rows and the formation, and are destructed.                             *)
(*                                                                         *)
(* What is left out of a member: his score, of which only the order orders *)
(* counts, his link, and the row he wishes.                                *)
(***************************************************************************)
EXTENDS Formation

CONSTANTS
  Players, Npcs, None,
  Orders,             \* sequences of all players and NPCs: by score, by age
  Requests,           \* formations that a leader may ask for
  MAX_TEAM_MEMBERS,
  MaxGone             \* bound: so many are destructed

Living == Players \cup Npcs

ASSUME TeamAssumption ==
  /\ Players \cap Npcs = {} /\ None \notin Living
  /\ \A o \in Orders : o \in Seq(Living) /\ ToSet(o) = Living /\ IsInjective(o)
  /\ Requests \subseteq [min : [Rows -> Int], max : [Rows -> Int]]
  /\ MAX_TEAM_MEMBERS \in Nat /\ MaxGone \in Nat

VARIABLES
  team,   \* [members, leader, caster, form, rows]; caster is assoc_mem of an NPC
  pets,   \* P_TEAM_ASSOC_MEMBERS of a player: his NPCs
  owner,  \* P_TEAM_ASSOC_MEMBERS of an NPC: its player
  gone    \* the destructed ones
vars == <<team, pets, owner, gone>>

Alive == Living \ gone
Assocs(t, c) == {n \in Npcs : t.caster[n] = c}

\* A new team; it destructs itself when the last member has left.
NewTeam ==
  [members |-> {}, leader |-> None, caster |-> [n \in Npcs |-> None],
   form |-> [min |-> ByRow(LAMBDA i : IF i = 1 THEN 1 ELSE 0),
             max |-> ByRow(LAMBDA i : MAX_TEAMROWS + 1 - i)],
   rows |-> ByRow(LAMBDA i : <<>>)]

-----------------------------------------------------------------------------
(* What the operations are made of.                                        *)

\* The last of a row and the first of the next one swap if the scores say so.
RandomChanges(rows, order) ==
  {rows} \cup
  {[rows EXCEPT ![i] = Front(@) \o <<rows[i + 1][1]>>, ![i + 1] = <<Last(rows[i])>> \o Tail(@)] :
     i \in {j \in 1 .. MAX_TEAMROWS - 1 :
              /\ rows[j] # <<>> /\ rows[j + 1] # <<>>
              /\ LET p == Last(rows[j])  q == rows[j + 1][1]
                 IN \E k, l \in DOMAIN order : k > l /\ order[k] = p /\ order[l] = q}}

\* pl and his NPCs go to row dest; 0 is for who has left, and whose NPCs left before.
Moved(t, form, pl, dest, order) ==
  LET move(r, ob) ==
        LET now == UpdateActRow(r, t.members, order)
        IN IF ob \notin t.members \/ dest \in {0, RowOf(now, ob)} THEN now
           ELSE CycleRows(form, now, ob, RowOf(now, ob), dest)
  IN FoldLeft(move, UpdateActRow(t.rows, t.members, order), <<pl>> \o Those(order, Assocs(t, pl)))

DoChangeRow(t, pl, dest, order) ==
  LET form == CheckFormation(t.form, Cardinality(t.members))
      moved == Moved(t, form, pl, dest, order)
  IN [t EXCEPT !.form = form, !.rows = MakeFormation(form, moved, t.members, order)]

DoAddMember(t, ob, dest, order) ==
  LET led == IF t.leader \in t.members THEN t ELSE [t EXCEPT !.leader = ob]
  IN IF ob \in t.members THEN led
     ELSE DoChangeRow([led EXCEPT !.members = @ \cup {ob}], ob, dest, order)

AddAssocMember(t, c, n, dest, order) ==
  IF c \notin t.members \/ n \in t.members \/ t.caster[n] # None THEN t
  ELSE DoAddMember([t EXCEPT !.caster[n] = c], n, dest, order)

AddAssocs(t, c, npcs, dest, order) ==
  FoldLeft(LAMBDA u, n : AddAssocMember(u, c, n, dest, order), t, npcs)

\* The NPCs of ob come with him, except those that fight him (enemies).
PetsOf(ob) == IF ob \in Players THEN pets[ob] ELSE {}
AddMemberAndAssocs(t, ob, enemies, dest, order) ==
  AddAssocs(DoAddMember(t, ob, dest, order), ob, Those(order, PetsOf(ob) \ enemies), dest, order)

\* The next leader is someone whom heirs names: who has a link, else anyone.
DoRemoveMember(t, ob, heirs, order) ==
  LET left == [t EXCEPT !.members = @ \ {ob},
                        !.caster = [n \in Npcs |-> IF n = ob THEN None ELSE @[n]]]
      u == DoChangeRow(left, ob, 0, order)
  IN IF u.leader \in u.members THEN u
     ELSE IF u.members = {} THEN NewTeam
     ELSE [u EXCEPT !.leader = Those(heirs, u.members)[1]]

RemoveAssocMember(t, c, n, heirs, order) ==
  IF c \notin t.members \/ t.caster[n] # c THEN t ELSE DoRemoveMember(t, n, heirs, order)

RemoveAssocs(t, c, npcs, heirs, order) ==
  FoldLeft(LAMBDA u, n : RemoveAssocMember(u, c, n, heirs, order), t, npcs)

\* Faulty variant: the NPCs are removed after their player.
RemoveMemberFirst(t, ob, heirs, order) ==
  RemoveAssocs(DoRemoveMember(t, ob, heirs, order), ob, Those(order, PetsOf(ob)), heirs, order)

RemoveMemberAndAssocs(t, ob, heirs, order) ==
  DoRemoveMember(RemoveAssocs(t, ob, Those(order, PetsOf(ob)), heirs, order), ob, heirs, order)

\* Faulty variant: his NPCs count as company.
RemoveSinglesOnly(t, heirs, order) ==
  IF t.leader \in t.members \cap Players /\ t.members = {t.leader}
    THEN RemoveMemberAndAssocs(t, t.leader, heirs, order) ELSE t

\* A player who leads nobody but his own NPCs is no team.
Single(t) == t.leader \in t.members \cap Players /\ t.members \subseteq {t.leader} \cup Assocs(t, t.leader)
RemoveSingles(t, heirs, order) ==
  IF Single(t) THEN RemoveMemberAndAssocs(t, t.leader, heirs, order) ELSE t

-----------------------------------------------------------------------------
(* The operations.                                                         *)

Init ==
  /\ team = NewTeam
  /\ pets = [p \in Players |-> {}]
  /\ owner = [n \in Npcs |-> None]
  /\ gone = {}

Room == Cardinality(team.members \cap Players) < MAX_TEAM_MEMBERS

\* team_aufnahme: by a player, who founds the team or leads it.  Who comes in one
\* step wishes the same row.
AddMember(by, ob) ==
  /\ by \in Players \cap Alive /\ ob \in Alive \ {by}
  /\ team.members = {} \/ by \in team.members
  /\ Room
  /\ \E order \in Orders, enemies \in SUBSET Npcs, dest \in Rows :
       LET t == IF team.leader \in team.members THEN team
                ELSE AddMemberAndAssocs(team, by, enemies, dest, order)
       IN team' = IF t.leader = by THEN AddMemberAndAssocs(t, ob, enemies, dest, order) ELSE t
  /\ UNCHANGED <<pets, owner, gone>>

\* The same without a commanding player: NPCs make teams of their own.
JoinNpc(n) ==
  /\ n \in Npcs \cap Alive /\ Room
  /\ \E order \in Orders, dest \in Rows : team' = AddMemberAndAssocs(team, n, {}, dest, order)
  /\ UNCHANGED <<pets, owner, gone>>

\* The leader dismisses ob, or ob goes (verlasse, death, loss of the link, remove()).
RemoveMember(by, ob) ==
  /\ ob \in team.members \ gone /\ by \in {ob, team.leader} \ gone
  /\ by # ob /\ ob \in Npcs => team.caster[ob] = None
  /\ \E order, heirs \in Orders :
       team' = RemoveSingles(RemoveMemberAndAssocs(team, ob, heirs, order), heirs, order)
  /\ UNCHANGED <<pets, owner, gone>>

AssocMember(c, n) ==
  /\ c \in Players \cap Alive /\ n \in Npcs \cap Alive /\ owner[n] = None
  /\ pets' = [pets EXCEPT ![c] = @ \cup {n}]
  /\ owner' = [owner EXCEPT ![n] = c]
  /\ \E order \in Orders, dest \in Rows : team' = AddAssocMember(team, c, n, dest, order)
  /\ UNCHANGED gone

\* The NPC still holds its player: nobody can associate it again.
DeAssocMember(c, n) ==
  /\ c \in Players \cap Alive /\ n \in pets[c]
  /\ pets' = [pets EXCEPT ![c] = @ \ {n}]
  /\ \E order, heirs \in Orders :
       team' = IF c \in team.members THEN RemoveAssocMember(team, c, n, heirs, order) ELSE team
  /\ UNCHANGED <<owner, gone>>

\* The command of the leader, or of anyone if he lost his link or is idle.
ChangeLeader(ob) ==
  /\ ob \in team.members /\ team.members \cap Players # {}
  /\ team' = [team EXCEPT !.leader = ob]
  /\ UNCHANGED <<pets, owner, gone>>

Reform(form) ==
  /\ \E order \in Orders :
       LET f == CheckFormation(form, Cardinality(team.members))
       IN \E r \in RandomChanges(UpdateActRow(team.rows, team.members, order), order) :
            team' = [team EXCEPT !.form = f, !.rows = MakeFormation(f, r, team.members, order)]
  /\ UNCHANGED <<pets, owner, gone>>

ChangeFormation(request) == team.leader \in team.members /\ Reform(request)
UpdateFormation == team.members # {} /\ Reform(team.form)

\* reihe, or the flight into the row behind.
ChangeRow(pl, dest) ==
  /\ pl \in team.members /\ dest \in Rows
  /\ \E order \in Orders : team' = DoChangeRow(team, pl, dest, order)
  /\ UNCHANGED <<pets, owner, gone>>

Swapped(rows, a, b) ==
  LET swap(m) == IF m = a THEN b ELSE IF m = b THEN a ELSE m
      row(i) == [k \in DOMAIN rows[i] |-> swap(rows[i][k])]
  IN ByRow(LAMBDA i : SubSeq(row(i), 1, Len(rows[i])))

\* A caller that is allowed to swaps two, but no NPC before a player.
SwapRows(a, b) ==
  /\ {a, b} \subseteq team.members
  /\ RowOf(team.rows, a) < RowOf(team.rows, b)
  /\ a \in Npcs \/ b \in Players
  /\ team' = [team EXCEPT !.rows = Swapped(@, a, b)]
  /\ UNCHANGED <<pets, owner, gone>>

\* The driver calls reset() from time to time.
Reset ==
  /\ Single(team)
  /\ \E order, heirs \in Orders : team' = RemoveSingles(team, heirs, order)
  /\ UNCHANGED <<pets, owner, gone>>

\* Destructed without remove(): references to it become 0, in the rows too (there
\* it stays here until UpdateActRow() drops it: it is neither member nor present).
Destruct(m) ==
  /\ m \in Alive /\ Cardinality(gone) < MaxGone
  /\ gone' = gone \cup {m}
  /\ team' = [team EXCEPT
       !.members = @ \ {m}, !.leader = IF @ = m THEN None ELSE @,
       !.caster = [n \in Npcs |-> IF m \in {n, @[n]} THEN None ELSE @[n]]]
  /\ pets' = [p \in Players |-> IF p = m THEN {} ELSE pets[p] \ {m}]
  /\ owner' = [n \in Npcs |-> IF owner[n] = m THEN None ELSE owner[n]]

Next ==
  \/ \E a, b \in Living : AddMember(a, b) \/ RemoveMember(a, b) \/ SwapRows(a, b)
  \/ \E n \in Npcs : JoinNpc(n)
  \/ \E c \in Players, n \in Npcs : AssocMember(c, n) \/ DeAssocMember(c, n)
  \/ \E m \in Living : ChangeLeader(m) \/ Destruct(m)
  \/ \E r \in Requests : ChangeFormation(r)
  \/ UpdateFormation \/ Reset
  \/ \E m \in Living, dest \in Rows : ChangeRow(m, dest)

Spec == Init /\ [][Next]_vars

-----------------------------------------------------------------------------
(* Properties.                                                             *)

\* The lengths of the formation are ones of a row, and nobody destructed is left.
TypeOK ==
  /\ team.members \subseteq Alive /\ team.leader \in Alive \cup {None}
  /\ team.caster \in [Npcs -> (Players \cap Alive) \cup {None}]
  /\ pets \in [Players -> SUBSET (Npcs \cap Alive)]
  /\ owner \in [Npcs -> (Players \cap Alive) \cup {None}]
  /\ \A i \in Rows : /\ 0 <= team.form.min[i] /\ team.form.min[i] <= team.form.max[i]
                     /\ team.members # {} => team.form.max[i] <= MAX_TEAM_ROWLEN

\* Whatever was asked for and whoever came, went or moved: each row has a length
\* between its minimum and its maximum afterwards (MakeFormation()).
RowsWithin ==
  [][gone' = gone /\ <<team'.members, team'.rows, team'.form>> # <<team.members, team.rows, team.form>>
       => team'.members = {} \/ InOrder(team'.form, team'.rows)]_vars

\* Members are neither lost nor doubled while they are moved around: each stands
\* in one place of one row (UpdateActRow(), MakeFormation(), CycleRows()).
EveryoneInOneRow ==
  /\ \A m \in team.members : \E i \in Rows : Contains(team.rows[i], m)
  /\ \A i, j \in Rows : \A k \in DOMAIN team.rows[i], l \in DOMAIN team.rows[j] :
       /\ team.rows[i][k] \in team.members \cup gone
       /\ team.rows[i][k] = team.rows[j][l] => i = j /\ k = l

\* Opponents find somebody in the first row if anyone of the team is there who
\* has a link, whoever is elsewhere (PresentRows()).
FirstRowHolds ==
  \A here \in SUBSET team.members :
    \A dead \in {{}} \cup {{p} : p \in Players \cap here} :
      here # dead => PresentRows(team.form, team.rows, here, dead)[1] # <<>>

\* A team has a leader among its members, unless he was destructed
\* (DoRemoveMember() looks for another one).
LeaderIsMember == team.members # {} => team.leader \in team.members \cup {None}

\* Both of them: nobody destructed is left, and somebody leads.
TeamOK == TypeOK /\ LeaderIsMember

\* An associated NPC and its player are in the team both, and know each other:
\* he lists it, and it holds him (AddAssocMember(), RemoveAssocMember()).
AssocsAgree ==
  \A n \in Npcs, c \in Players : team.caster[n] = c =>
    {n, c} \subseteq team.members /\ n \in pets[c] /\ owner[n] = c

Alone(S) == \E p \in Players \cap S : S \subseteq {p} \cup Assocs(team, p)

\* Who leaves or is dismissed takes the NPCs along that are associated with him,
\* and nobody else goes - unless that leaves a player alone with his own NPCs:
\* then they go too, and the team is dissolved.  It goes on with them only under
\* an NPC, since RemoveSingles() takes what an NPC leads for a team of NPCs.
OthersStay ==
  [][\A ob \in team.members \ team'.members :
       (\E by \in Living : RemoveMember(by, ob)) =>
         LET rest == team.members \ ({ob} \cup Assocs(team, ob))
         IN \/ team'.members = rest /\ (Alone(rest) => team'.leader \in Npcs)
            \/ team'.members = {} /\ Alone(rest)]_vars
=============================================================================
