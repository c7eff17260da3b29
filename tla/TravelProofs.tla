---------------------------- MODULE TravelProofs ----------------------------
(***************************************************************************)
(* Proofs about Travel, for any transports, harbours, courses and players. *)
(*                                                                         *)
(* The inductive invariant is the conjunction of the four invariants:      *)
(* types with the index in its range, one chain of call_outs, docking at   *)
(* the stations, agreement of the register's tables; and that a transport  *)
(* whose route was removed has no call_out of changeHp() left until        *)
(* Start() sets the position back (Rested), without which changeHp() would *)
(* step beyond an empty route; and that an open transport stands at some   *)
(* harbour (Moored), to which whoever leaves is taken.  All but the        *)
(* agreement of the tables are proved of a single transport (Sound), which *)
(* each operation keeps.                                                   *)
(***************************************************************************)
EXTENDS Travel, TLAPS

Rested(x) == x.route = <<>> /\ x.rpos = 0 => x.due["changeHp"] = 0

Moored(x) == x.docked => x.at \in Harbours

Sound(x) == /\ x \in Transport
            /\ IndexOK(x) /\ Rested(x) /\ Moored(x) /\ Single(x) /\ Stationed(x)

IInv == /\ TypeOK /\ OneChain /\ DockedAtStation /\ TablesAgree
        /\ \A s \in Ships : Rested(ship[s]) /\ Moored(ship[s])
-----------------------------------------------------------------------------
\* A halted transport has no call_out, so nothing is asked of its station.
LEMMA HaltSound ==
  ASSUME NEW x, Sound(x)
  PROVE  Sound(Halt(x)) /\ Halt(x).due = None /\ Halt(x).route = x.route
BY DEF Sound, Halt, Transport, IndexOK, Rested, Moored, Single, Stationed, Pending, None, Jobs

\* A transport without call_outs may be sent to any point of a route.
LEMMA CallOutSound ==
  ASSUME NEW x \in Transport, IndexOK(x), x.due = None,
         x.route = <<>> => x.rpos = -1, Moored(x)
  PROVE  Sound(CallOut(x, "changeHp"))
BY DEF Sound, CallOut, Transport, IndexOK, Rested, Moored, Single, Stationed, Pending, None, Jobs

LEMMA StartSound ==
  ASSUME NEW x, Sound(x), NEW pos \in Nat
  PROVE  Sound(Start(x, pos))
<1> DEFINE y == [Halt(x) EXCEPT !.rpos = IF pos >= Len(x.route) THEN -1 ELSE pos - 1]
<1>1. /\ Halt(x) \in Transport /\ Halt(x).due = None /\ Halt(x).route = x.route
      /\ Moored(Halt(x))
  BY HaltSound DEF Sound
<1>2. x.route \in Seq(Points) /\ Len(x.route) \in Nat
  BY DEF Sound, Transport
<1>3. y \in Transport /\ y.due = None /\ y.route = x.route
  BY <1>1, <1>2 DEF Transport
<1>3a. Moored(y)
  BY <1>1 DEF Moored, Transport
<1>4. IndexOK(y)
  BY <1>1, <1>2, <1>3 DEF Transport, IndexOK
<1>5. y.route = <<>> => y.rpos = -1
  BY <1>1, <1>2, <1>3 DEF Transport
<1> QED
  BY <1>3, <1>3a, <1>4, <1>5, CallOutSound DEF Start

LEMMA OtherRoute ==
  ASSUME NEW x \in Transport, NEW r \in Seq(Points)
  PROVE  LET y == [x EXCEPT !.route = r]
         IN  /\ y \in Transport /\ y.due = x.due /\ y.rpos = x.rpos
             /\ y.route = r /\ y.docked = x.docked /\ y.at = x.at
<1>1. [x EXCEPT !.route = r] \in Transport
  BY DEF Transport
<1> QED
  BY <1>1 DEF Transport

LEMMA OtherPosition ==
  ASSUME NEW x \in Transport, NEW n \in Int
  PROVE  LET y == [x EXCEPT !.rpos = n]
         IN  /\ y \in Transport /\ y.due = x.due /\ y.rpos = n
             /\ y.route = x.route /\ y.docked = x.docked /\ y.at = x.at
<1>1. [x EXCEPT !.rpos = n] \in Transport
  BY DEF Transport
<1> QED
  BY <1>1 DEF Transport

LEMMA RemoveRouteSound ==
  ASSUME NEW x, Sound(x)
  PROVE  Sound(RemoveRoute(x)) /\ RemoveRoute(x).due = None
<1> DEFINE r == <<>>
           y == Halt(x)
<1>1. y \in Transport /\ y.due = None /\ Moored(y)
  BY HaltSound DEF Sound
<1>2. r \in Seq(Points)
  OBVIOUS
<1> DEFINE a == [y EXCEPT !.route = r]
           b == [a EXCEPT !.rpos = 0]
<1>3. RemoveRoute(x) = b
  BY DEF RemoveRoute
<1> HIDE DEF r, y
<1>3a. a \in Transport /\ a.due = None /\ a.route = r /\ Moored(a)
  BY <1>1, <1>2, OtherRoute DEF Moored
<1> HIDE DEF a
<1>3b. b \in Transport /\ b.due = None /\ b.route = r /\ b.rpos = 0 /\ Moored(b)
  BY <1>3a, OtherPosition DEF Moored
<1> HIDE DEF b
<1>4. /\ RemoveRoute(x) \in Transport /\ RemoveRoute(x).due = None
      /\ RemoveRoute(x).route = r /\ RemoveRoute(x).rpos = 0
      /\ Moored(RemoveRoute(x))
  BY <1>3, <1>3b
<1>5. None["changeHp"] = 0 /\ None["disconnect"] = 0
  BY DEF None, Jobs
<1>6. Single(RemoveRoute(x)) /\ Stationed(RemoveRoute(x))
  BY <1>4, <1>5 DEF Single, Stationed, Pending
<1>7. IndexOK(RemoveRoute(x))
  BY <1>4 DEF r, IndexOK
<1>8. Rested(RemoveRoute(x))
  BY <1>4, <1>5 DEF Rested
<1> QED
  BY <1>4, <1>6, <1>7, <1>8 DEF Sound

\* What was added comes after the station where the transport may stand.
LEMMA AddPointSound ==
  ASSUME NEW x, Sound(x), NEW q \in Points
  PROVE  Sound(AddPoint(x, q))
<1> DEFINE y == AddPoint(x, q)
<1>a. x \in Transport /\ x.route \in Seq(Points)
  BY DEF Sound, Transport
<1>b. Append(x.route, q) \in Seq(Points)
  BY <1>a
<1>1. /\ y \in Transport /\ y.route = Append(x.route, q) /\ y.rpos = x.rpos
      /\ y.due = x.due /\ y.docked = x.docked /\ y.at = x.at
  BY <1>a, <1>b DEF AddPoint, Transport
<1>2. /\ Len(y.route) = Len(x.route) + 1 /\ Len(x.route) \in Nat
      /\ \A i \in 1 .. Len(x.route) : y.route[i] = x.route[i]
  BY <1>1 DEF Sound, Transport
<1>3. IndexOK(y)
  BY <1>1, <1>2 DEF Sound, IndexOK, Transport
<1>4. Single(y)
  BY <1>1 DEF Sound, Single
<1>5. Stationed(y)
  <2>1. CASE ~Pending(x, "disconnect")
    BY <2>1, <1>1 DEF Stationed, Pending
  <2>2. CASE Pending(x, "disconnect")
    <3>1. x.rpos \in 0 .. Len(x.route) - 1 /\ x.rpos + 1 \in 1 .. Len(x.route)
      BY <2>2, <1>2 DEF Sound, Stationed
    <3>2. y.route[x.rpos + 1] = x.route[x.rpos + 1]
      BY <3>1, <1>2
    <3> QED
      BY <2>2, <3>1, <3>2, <1>1, <1>2 DEF Sound, Stationed, Pending
  <2> QED
    BY <2>1, <2>2
<1>6. Rested(y) /\ Moored(y)
  BY <1>1, <1>2 DEF Sound, Rested, Moored
<1> QED
  BY <1>1, <1>3, <1>4, <1>5, <1>6 DEF Sound
-----------------------------------------------------------------------------
\* The register: each operation keeps the tables' types and agreement.
LEMMA RemoveTransporterAgrees ==
  ASSUME NEW k \in Register, Agree(k), NEW s \in Ships
  PROVE  /\ RemoveTransporter(k, s) \in Register /\ Agree(RemoveTransporter(k, s))
         /\ \A h \in Harbours : s \notin RemoveTransporter(k, s).stops[h]
BY DEF Register, Agree, RemoveTransporter

LEMMA RemoveStopAgrees ==
  ASSUME NEW k \in Register, Agree(k), NEW h \in Harbours
  PROVE  RemoveStop(k, h) \in Register /\ Agree(RemoveStop(k, h))
BY DEF Register, Agree, RemoveStop

LEMMA ReportAgrees ==
  ASSUME NEW k \in Register, Agree(k), NEW s \in Ships, NEW r
  PROVE  ReportRoute(k, s, r) \in Register /\ Agree(ReportRoute(k, s, r))
<1> DEFINE l == Stops(r)
           c == RemoveTransporter(k, s)
<1>1. l \subseteq Harbours
  BY DEF Stops
<1>2. c \in Register /\ Agree(c) /\ \A h \in Harbours : s \notin c.stops[h]
  BY RemoveTransporterAgrees
<1>3. AddRouteKept(c, s, l) \in Register
  BY <1>1, <1>2 DEF Register, AddRouteKept
<1>4. Agree(AddRouteKept(c, s, l))
  BY <1>1, <1>2 DEF Register, Agree, AddRouteKept
<1> QED
  BY <1>3, <1>4 DEF ReportRoute, AddRoute
-----------------------------------------------------------------------------
\* A transport whose changeHp() runs has no other call_out: what is left of
\* it when the call_out is taken is without any.
LEMMA StepTaken ==
  ASSUME NEW x, Sound(x), Pending(x, "changeHp")
  PROVE  LET n == IF x.rpos + 1 = Len(x.route) THEN 0 ELSE x.rpos + 1
             y == [x EXCEPT !.rpos = n, !.due["changeHp"] = @ - 1]
         IN  /\ y \in Transport /\ y.due = None /\ y.route = x.route /\ y.rpos = n
             /\ IndexOK(y) /\ Moored(y)
             /\ x.route # <<>> => n \in 0 .. Len(x.route) - 1
<1> DEFINE n == IF x.rpos + 1 = Len(x.route) THEN 0 ELSE x.rpos + 1
           d == [x.due EXCEPT !["changeHp"] = @ - 1]
           a == [x EXCEPT !.rpos = n]
           y == [x EXCEPT !.rpos = n, !.due["changeHp"] = @ - 1]
<1>1. /\ x \in Transport /\ Len(x.route) \in Nat /\ x.rpos \in Int
      /\ x.route \in Seq(Points) /\ x.due \in [Jobs -> Nat]
  BY DEF Sound, Transport
<1>2. x.due["changeHp"] = 1 /\ x.due["disconnect"] = 0
  BY <1>1 DEF Sound, Pending, Single, Jobs
<1>3. d = None
  BY <1>1, <1>2 DEF None, Jobs
<1>4. n \in Int
  BY <1>1
<1>5. /\ x.route # <<>> => n \in 0 .. Len(x.route) - 1
      /\ x.route = <<>> => n = 0
  <2>1. x.route = <<>> => x.rpos = -1 /\ Len(x.route) = 0
    BY <1>1, <1>2 DEF Sound, Rested, IndexOK
  <2>2. x.route # <<>> => Len(x.route) > 0 /\ x.rpos \in -1 .. Len(x.route) - 1
    BY <1>1 DEF Sound, IndexOK
  <2> QED
    BY <2>1, <2>2, <1>1
<1>6. y = [a EXCEPT !.due = d]
  OBVIOUS
<1> HIDE DEF n, d
<1>7. /\ a \in Transport /\ a.route = x.route /\ a.rpos = n /\ a.due = x.due
      /\ Moored(a)
  BY <1>1, <1>4, OtherPosition DEF Sound, Moored
<1> HIDE DEF a
<1>8. d \in [Jobs -> Nat]
  BY <1>3 DEF None
<1>9. [a EXCEPT !.due = d] \in Transport
  BY <1>7, <1>8 DEF Transport
<1>10. /\ [a EXCEPT !.due = d].due = d /\ [a EXCEPT !.due = d].route = x.route
       /\ [a EXCEPT !.due = d].rpos = n /\ Moored([a EXCEPT !.due = d])
  BY <1>7 DEF Transport, Moored
<1> HIDE DEF y
<1>11. /\ y \in Transport /\ y.due = None /\ y.route = x.route /\ y.rpos = n
       /\ Moored(y)
  BY <1>3, <1>6, <1>9, <1>10
<1>12. IndexOK(y)
  BY <1>1, <1>5, <1>11 DEF IndexOK
<1> QED
  BY <1>5, <1>11, <1>12 DEF n, y

\* The transport docks at the point it has gone to, or finds it does not load.
LEMMA DockSound ==
  ASSUME NEW y \in Transport, IndexOK(y), y.due = None,
         y.rpos \in 0 .. Len(y.route) - 1,
         y.route[y.rpos + 1] \in Harbours,
         NEW z \in Transport, z.route = y.route, z.rpos = y.rpos,
         z.due = CallOut(y, "disconnect").due,
         z.docked <=> y.route[y.rpos + 1] \notin Broken,
         z.docked => z.at = y.route[y.rpos + 1]
  PROVE  Sound(z)
<1>1. z.due["changeHp"] = 0 /\ z.due["disconnect"] = 1
  BY DEF CallOut, Transport, None, Jobs
<1> QED
  BY <1>1 DEF Sound, IndexOK, Rested, Moored, Single, Stationed, Pending

\* A function of a transport that replaces its route and starts it.
LEMMA NewCourseSound ==
  ASSUME NEW x, Sound(x), NEW r \in Seq(Points)
  PROVE  Sound(Start([RemoveRoute(x) EXCEPT !.route = r], 0))
<1> DEFINE y == RemoveRoute(x)
           z == [y EXCEPT !.route = r]
<1>1. y \in Transport /\ y.due = None /\ y.rpos = 0 /\ Moored(y)
  <2>1. Sound(y) /\ y.due = None
    BY RemoveRouteSound
  <2>2. y.rpos = 0
    BY DEF RemoveRoute, Halt, Sound, Transport
  <2> QED
    BY <2>1, <2>2 DEF Sound
<1> HIDE DEF y
<1>2. /\ z \in Transport /\ z.due = None /\ z.rpos = 0 /\ z.route = r
      /\ Moored(z)
  BY <1>1, OtherRoute DEF Moored
<1> HIDE DEF z
<1>3. None["changeHp"] = 0 /\ None["disconnect"] = 0
  BY DEF None, Jobs
<1>4. IndexOK(z)
  BY <1>2 DEF IndexOK
<1>5. Rested(z) /\ Single(z) /\ Stationed(z)
  BY <1>2, <1>3 DEF Rested, Single, Stationed, Pending
<1>6. Sound(z)
  BY <1>2, <1>4, <1>5 DEF Sound
<1> QED
  BY <1>6, StartSound DEF y, z

LEMMA DisconnectSound ==
  ASSUME NEW x, Sound(x), Pending(x, "disconnect")
  PROVE  Sound(CastOff(x))
<1> DEFINE d == [x.due EXCEPT !["disconnect"] = @ - 1]
           a == [x EXCEPT !.docked = FALSE]
           y == [x EXCEPT !.docked = FALSE, !.due["disconnect"] = @ - 1]
<1>1. /\ x \in Transport /\ Len(x.route) \in Nat /\ x.due \in [Jobs -> Nat]
      /\ x.rpos \in 0 .. Len(x.route) - 1
  BY DEF Sound, Transport, Stationed
<1>2. d = None
  BY <1>1 DEF Sound, Pending, Single, None, Jobs
<1>3. y = [a EXCEPT !.due = d]
  OBVIOUS
<1> HIDE DEF d
<1>4. a \in Transport
  BY <1>1 DEF Transport
<1>5. a.route = x.route /\ a.rpos = x.rpos /\ a.docked = FALSE
  BY <1>1 DEF Transport
<1> HIDE DEF a
<1>6. d \in [Jobs -> Nat]
  BY <1>2 DEF None
<1>7. [a EXCEPT !.due = d] \in Transport
  BY <1>4, <1>6 DEF Transport
<1>8. /\ [a EXCEPT !.due = d].due = d /\ [a EXCEPT !.due = d].route = x.route
      /\ [a EXCEPT !.due = d].rpos = x.rpos /\ [a EXCEPT !.due = d].docked = FALSE
  BY <1>4, <1>5 DEF Transport
<1> HIDE DEF y
<1>9. /\ y \in Transport /\ y.due = None /\ y.route = x.route /\ y.rpos = x.rpos
      /\ y.docked = FALSE
  BY <1>2, <1>3, <1>7, <1>8
<1>10. IndexOK(y) /\ Moored(y) /\ y.route # <<>>
  BY <1>1, <1>9 DEF IndexOK, Moored
<1>11. Sound(CallOut(y, "changeHp"))
  BY <1>9, <1>10, CallOutSound
<1> QED
  BY <1>11 DEF y, CastOff
-----------------------------------------------------------------------------
\* The invariant by its actors.
ShipsOK == ship \in [Ships -> Transport] /\ \A s \in Ships : Sound(ship[s])
KnownOK == known \in Register /\ Agree(known)
PlayersOK == /\ env \in [Players -> Harbours \cup Ships]
             /\ info \in [Players -> Information \cup {Nil}]
             /\ fighting \subseteq Players
EditsOK == edits \in 0 .. MaxEdits

LEMMA ByActors == IInv <=> ShipsOK /\ KnownOK /\ PlayersOK /\ EditsOK
BY DEF IInv, TypeOK, OneChain, DockedAtStation, TablesAgree, ShipsOK, KnownOK,
       PlayersOK, EditsOK, Sound

\* One transport changes.
LEMMA OneShip ==
  ASSUME ShipsOK, NEW s \in Ships, NEW z, Sound(z), ship' = [ship EXCEPT ![s] = z]
  PROVE  ShipsOK'
<1>1. z \in Transport
  BY DEF Sound
<1>2. ship' \in [Ships -> Transport]
  BY <1>1 DEF ShipsOK
<1>3. \A t \in Ships : ship'[t] = IF t = s THEN z ELSE ship[t]
  BY DEF ShipsOK
<1>4. \A t \in Ships : Sound(ship'[t])
  BY <1>3 DEF ShipsOK
<1> QED
  BY <1>2, <1>4 DEF ShipsOK, Sound, IndexOK, Rested, Moored, Single, Stationed, Pending

LEMMA KnownKept ==
  ASSUME KnownOK, NEW k, k \in Register /\ Agree(k), known' = k
  PROVE  KnownOK'
BY DEF KnownOK, Agree

LEMMA Untouched ==
  /\ ShipsOK /\ UNCHANGED ship => ShipsOK'
  /\ KnownOK /\ UNCHANGED known => KnownOK'
  /\ PlayersOK /\ UNCHANGED players => PlayersOK'
  /\ EditsOK /\ UNCHANGED edits => EditsOK'
BY DEF ShipsOK, KnownOK, PlayersOK, EditsOK, players, Sound, Agree, IndexOK, Rested,
       Moored, Single, Stationed, Pending

LEMMA Counted == ASSUME EditsOK, edits < MaxEdits, edits' = edits + 1  PROVE EditsOK'
BY TravelAssumption DEF EditsOK
-----------------------------------------------------------------------------
LEMMA Initially == Init => IInv
<1> SUFFICES ASSUME Init  PROVE ShipsOK /\ KnownOK /\ PlayersOK /\ EditsOK
  BY ByActors
<1>1. PICK c \in [Ships -> Courses] :
        /\ ship = [s \in Ships |-> SetOut(c[s])]
        /\ known = [transporters |-> [s \in Ships |-> Stops(c[s])],
                    stops |-> [h \in Harbours |-> {s \in Ships : h \in Stops(c[s])}]]
  BY DEF Init
<1>2. \A r \in Seq(Points) : Sound(SetOut(r))
  <2> TAKE r \in Seq(Points)
  <2> DEFINE d == [None EXCEPT !["changeHp"] = 1]
             x == [route |-> r, rpos |-> -1, docked |-> FALSE, at |-> Nil, due |-> d]
  <2>1. d \in [Jobs -> Nat] /\ d["changeHp"] = 1 /\ d["disconnect"] = 0
    BY DEF None, Jobs
  <2> HIDE DEF d
  <2>2. x \in Transport
    BY <2>1 DEF Transport
  <2>3. IndexOK(x) /\ Rested(x) /\ Moored(x) /\ Single(x) /\ Stationed(x)
    BY <2>1 DEF IndexOK, Rested, Moored, Single, Stationed, Pending
  <2>4. Sound(x)
    BY <2>2, <2>3 DEF Sound
  <2> QED
    BY <2>4 DEF SetOut, d
<1>3. ShipsOK
  BY <1>1, <1>2, TravelAssumption DEF ShipsOK, Sound
<1>4. KnownOK
  BY <1>1 DEF KnownOK, Register, Agree, Stops
<1>5. PlayersOK /\ EditsOK
  BY TravelAssumption DEF Init, PlayersOK, EditsOK
<1> QED
  BY <1>3, <1>4, <1>5
-----------------------------------------------------------------------------
\* Putting ashore and taking aboard leaves everybody somewhere.
LEMMA ExchangeKeeps ==
  ASSUME PlayersOK, NEW s \in Ships, NEW r \in Harbours, Exchange(s, r), UNCHANGED fighting
  PROVE  PlayersOK'
<1>1. PICK on \in Boardings(s, r) :
        /\ env' = [p \in Players |-> IF p \in PutAshore(s, r) THEN r
                                      ELSE IF p \in on THEN s ELSE env[p]]
        /\ info' = [p \in Players |-> IF p \in PutAshore(s, r) THEN Nil
                      ELSE IF p \in on THEN [info[p] EXCEPT !.where = s]
                      ELSE info[p]]
  BY DEF Exchange
<1>2. \A p \in on : p \in Players /\ info[p] \in Information
  BY DEF Boardings, TakeAboard, Travels, PlayersOK
<1>3. \A p \in on : [info[p] EXCEPT !.where = s] \in Information
  BY <1>2 DEF Information
<1>4. env' \in [Players -> Harbours \cup Ships]
  BY <1>1 DEF PlayersOK
<1>5. info' \in [Players -> Information \cup {Nil}]
  BY <1>1, <1>3 DEF PlayersOK
<1> QED
  BY <1>4, <1>5 DEF PlayersOK

LEMMA TravelKeeps ==
  ASSUME PlayersOK, NEW p \in Players, NEW s \in Ships, NEW h \in Harbours \cup {Nil},
         Travel(p, s, h)
  PROVE  PlayersOK'
<1> DEFINE place == IF CanEnter(p, s) THEN s ELSE env[p]
           i == [where |-> place, with |-> s, to |-> h]
<1>1. place \in Harbours \cup Ships
  BY DEF PlayersOK
<1>2. env' = [env EXCEPT ![p] = place] /\ info' = [info EXCEPT ![p] = i]
      /\ fighting' = fighting
  BY DEF Travel
<1> HIDE DEF place
<1>3. i \in Information
  BY <1>1 DEF Information
<1> HIDE DEF i
<1> QED
  BY <1>1, <1>2, <1>3 DEF PlayersOK

LEMMA AshoreKeeps ==
  ASSUME PlayersOK, ShipsOK, NEW p \in Players, NEW s \in Ships, ship[s].docked,
         Ashore(p, s), UNCHANGED fighting
  PROVE  PlayersOK'
<1>1. ship[s].at \in Harbours
  BY DEF ShipsOK, Sound, Moored
<1> QED
  BY <1>1 DEF PlayersOK, Ashore

\* Whatever a player does, only he is concerned.
LEMMA PlayerKeeps ==
  ASSUME IInv, NEW p \in Players,
         \/ \E s \in Ships : Enter(p, s) \/ Leave(p, s) \/ ReiseMit(p, s)
         \/ \E s \in Ships, h \in Harbours : ReiseMitNach(p, s, h)
         \/ \E h \in Harbours : GoElsewhere(p, h) \/ ReiseNach(p, h) \/ ReiseAboard(p, h)
         \/ Fight(p) \/ ReiseAus(p)
  PROVE  IInv'
<1> USE ByActors
<1>1. UNCHANGED <<ship, known, edits>>
  BY DEF Enter, Leave, ReiseMit, ReiseMitNach, GoElsewhere, ReiseNach, ReiseAboard,
         Fight, ReiseAus, Travel
<1>2. PlayersOK'
  <2>1. ASSUME NEW s \in Ships, Enter(p, s)  PROVE PlayersOK'
    BY <2>1 DEF Enter, PlayersOK
  <2>2. ASSUME NEW s \in Ships, Leave(p, s)  PROVE PlayersOK'
    BY <2>2, AshoreKeeps DEF Leave
  <2>3. ASSUME NEW s \in Ships, ReiseMit(p, s)  PROVE PlayersOK'
    <3> DEFINE h == IF info[p] # Nil /\ info[p].to \in Stops(ship[s].route)
                    THEN info[p].to ELSE Nil
    <3>1. h \in Harbours \cup {Nil}
      BY DEF Stops
    <3>2. Travel(p, s, h)
      BY <2>3 DEF ReiseMit
    <3> HIDE DEF h
    <3> QED
      BY <3>1, <3>2, TravelKeeps
  <2>4. ASSUME NEW s \in Ships, NEW h \in Harbours, ReiseMitNach(p, s, h)  PROVE PlayersOK'
    BY <2>4, TravelKeeps DEF ReiseMitNach
  <2>5. ASSUME NEW h \in Harbours, GoElsewhere(p, h)  PROVE PlayersOK'
    BY <2>5 DEF GoElsewhere, PlayersOK
  <2>6. ASSUME NEW h \in Harbours, ReiseNach(p, h)  PROVE PlayersOK'
    <3>1. \E s \in Ships : Travel(p, s, h)
      <4>1. env[p] \in Harbours
        BY <2>6 DEF ReiseNach
      <4>2. known.stops[env[p]] \subseteq Ships
        BY <4>1 DEF KnownOK, Register
      <4> QED
        BY <2>6, <4>2 DEF ReiseNach
    <3> QED
      BY <3>1, TravelKeeps
  <2>7. ASSUME NEW h \in Harbours, ReiseAboard(p, h)  PROVE PlayersOK'
    <3>1. env[p] \in Ships /\ UNCHANGED fighting
      BY <2>7 DEF ReiseAboard
    <3>2. CASE DockedAt(env[p], h)
      BY <2>7, <3>1, <3>2, AshoreKeeps DEF ReiseAboard, DockedAt
    <3>3. CASE ~DockedAt(env[p], h)
      <4> DEFINE i == [where |-> env[p], with |-> env[p], to |-> h]
      <4>1. i \in Information
        BY <3>1 DEF Information
      <4>2. info' = [info EXCEPT ![p] = i] /\ UNCHANGED <<env, fighting>>
        BY <2>7, <3>3 DEF ReiseAboard
      <4> HIDE DEF i
      <4> QED
        BY <4>1, <4>2 DEF PlayersOK
    <3> QED
      BY <3>2, <3>3
  <2>8. ASSUME Fight(p)  PROVE PlayersOK'
    BY <2>8 DEF Fight, PlayersOK
  <2>9. ASSUME ReiseAus(p)  PROVE PlayersOK'
    BY <2>9 DEF ReiseAus, PlayersOK
  <2> QED
    BY <2>1, <2>2, <2>3, <2>4, <2>5, <2>6, <2>7, <2>8, <2>9
<1>3. ShipsOK' /\ KnownOK' /\ EditsOK'
  BY <1>1, Untouched
<1> QED
  BY <1>2, <1>3 DEF ShipsOK, KnownOK, PlayersOK, EditsOK, IInv, TypeOK, OneChain,
                    DockedAtStation, TablesAgree, Sound
-----------------------------------------------------------------------------
LEMMA ConnectKeeps ==
  ASSUME ShipsOK, PlayersOK, NEW s \in Ships, UNCHANGED fighting,
         NEW y \in Transport, IndexOK(y), Moored(y), y.due = None,
         y.rpos \in 0 .. Len(y.route) - 1, y.route[y.rpos + 1] \in Harbours,
         Connect(s, CallOut(y, "disconnect"), y.route[y.rpos + 1])
  PROVE  ShipsOK' /\ PlayersOK'
<1> DEFINE q == y.route[y.rpos + 1]
           x == CallOut(y, "disconnect")
<1>1. /\ x \in Transport /\ x.route = y.route /\ x.rpos = y.rpos
      /\ x.docked = y.docked /\ x.at = y.at
  BY DEF CallOut, Transport, Jobs
<1> HIDE DEF x
<1>2. CASE q \in Broken
  <2> DEFINE z == [x EXCEPT !.docked = FALSE]
  <2>1. ship' = [ship EXCEPT ![s] = z] /\ UNCHANGED players
    BY <1>2 DEF Connect, x, players
  <2>2. /\ z \in Transport /\ z.route = y.route /\ z.rpos = y.rpos /\ z.due = x.due
        /\ z.docked = FALSE
    BY <1>1 DEF Transport
  <2> HIDE DEF z
  <2>3. Sound(z)
    BY <1>2, <2>2, DockSound DEF x
  <2> QED
    BY <2>1, <2>3, OneShip, Untouched
<1>3. CASE q \notin Broken
  <2> DEFINE a == [x EXCEPT !.docked = TRUE]
             z == [a EXCEPT !.at = q]
  <2>1. ship' = [ship EXCEPT ![s] = [x EXCEPT !.docked = TRUE, !.at = q]]
        /\ Exchange(s, q)
    BY <1>3 DEF Connect, x
  <2>2. [x EXCEPT !.docked = TRUE, !.at = q] = z
    OBVIOUS
  <2>3. /\ a \in Transport /\ a.route = y.route /\ a.rpos = y.rpos /\ a.due = x.due
        /\ a.docked = TRUE
    BY <1>1 DEF Transport
  <2> HIDE DEF a
  <2>4. q \in Harbours
    OBVIOUS
  <2> HIDE DEF q
  <2>5. z \in Transport
    BY <2>3, <2>4 DEF Transport
  <2>6. /\ z.route = y.route /\ z.rpos = y.rpos /\ z.due = x.due /\ z.docked = TRUE
        /\ z.at = q
    BY <2>3 DEF Transport
  <2> HIDE DEF z
  <2>7. Sound(z)
    BY <1>3, <2>5, <2>6, DockSound DEF x, q
  <2>8. ShipsOK'
    BY <2>1, <2>2, <2>7, OneShip
  <2> QED
    BY <2>1, <2>4, <2>8, ExchangeKeeps
<1> QED
  BY <1>2, <1>3

\* A function of the transport, called when it is the next point.
LEMMA CallFunKeeps ==
  ASSUME ShipsOK, EditsOK, NEW s \in Ships, NEW x, Sound(x),
         NEW k, k \in Register /\ Agree(k), CallFun(s, x, k)
  PROVE  ShipsOK' /\ KnownOK' /\ EditsOK'
<1>a. k \in Register /\ Agree(k)
  OBVIOUS
<1>1. ASSUME ship' = [ship EXCEPT ![s] = x], known' = k, edits' = edits
      PROVE  ShipsOK' /\ KnownOK' /\ EditsOK'
  BY <1>1, <1>a, OneShip, Untouched DEF KnownOK, Agree
<1>2. ASSUME edits < MaxEdits, edits' = edits + 1, known' = k,
             ship' = [ship EXCEPT ![s] = Halt(x)]
      PROVE  ShipsOK' /\ KnownOK' /\ EditsOK'
  <2>1. Sound(Halt(x))
    BY HaltSound
  <2> QED
    BY <1>2, <1>a, <2>1, OneShip, Counted DEF KnownOK, Agree
<1>3. ASSUME NEW r \in Courses \cup {x.route}, edits < MaxEdits, edits' = edits + 1,
             ship' = [ship EXCEPT ![s] = Start([RemoveRoute(x) EXCEPT !.route = r], 0)],
             known' = ReportRoute(k, s, r)
      PROVE  ShipsOK' /\ KnownOK' /\ EditsOK'
  <2>1. r \in Seq(Points)
    BY TravelAssumption DEF Sound, Transport
  <2>2. Sound(Start([RemoveRoute(x) EXCEPT !.route = r], 0))
    BY <2>1, NewCourseSound
  <2>3. KnownOK'
    BY <1>3, <1>a, ReportAgrees DEF KnownOK, Agree
  <2> QED
    BY <1>3, <2>2, <2>3, OneShip, Counted
<1> QED
  BY <1>1, <1>2, <1>3 DEF CallFun

LEMMA ChangeHpKeeps ==
  ASSUME IInv, NEW s \in Ships, ChangeHp(s)
  PROVE  ShipsOK' /\ KnownOK' /\ PlayersOK' /\ EditsOK'
<1> DEFINE x == ship[s]
           n == IF x.rpos + 1 = Len(x.route) THEN 0 ELSE x.rpos + 1
           y == [x EXCEPT !.rpos = n, !.due["changeHp"] = @ - 1]
           k == IF n = 0 THEN ReportRoute(known, s, x.route) ELSE known
           q == x.route[n + 1]
<1>0. ShipsOK /\ KnownOK /\ PlayersOK /\ EditsOK
  BY ByActors
<1>1. Sound(x) /\ Pending(x, "changeHp") /\ UNCHANGED fighting
  BY <1>0 DEF ShipsOK, ChangeHp
<1>2. /\ y \in Transport /\ y.due = None /\ y.route = x.route /\ y.rpos = n
      /\ IndexOK(y) /\ Moored(y)
      /\ x.route # <<>> => n \in 0 .. Len(x.route) - 1
  BY <1>1, StepTaken
<1>3. k \in Register /\ Agree(k)
  BY <1>0, ReportAgrees DEF KnownOK
<1>4. \/ /\ x.route = <<>>
         /\ ship' = [ship EXCEPT ![s] = y]
         /\ UNCHANGED <<known, edits, env, info>>
      \/ /\ x.route # <<>>
         /\ \/ /\ ship' = [ship EXCEPT ![s] = CallOut(y, "changeHp")]
               /\ known' = k
               /\ UNCHANGED <<edits, env, info>>
            \/ /\ CallFun(s, CallOut(y, "changeHp"), k)
               /\ UNCHANGED <<env, info>>
            \/ /\ q \in Harbours
               /\ Connect(s, CallOut(y, "disconnect"), q)
               /\ known' = k
               /\ UNCHANGED edits
  BY DEF ChangeHp
<1>5. None["changeHp"] = 0 /\ None["disconnect"] = 0
  BY DEF None, Jobs
<1>6. x.route # <<>> => Sound(CallOut(y, "changeHp"))
  BY <1>2, CallOutSound
<1>7. ASSUME x.route = <<>>, ship' = [ship EXCEPT ![s] = y],
             UNCHANGED <<known, edits, env, info>>
      PROVE  ShipsOK' /\ KnownOK' /\ PlayersOK' /\ EditsOK'
  <2> HIDE DEF y
  <2>1. Sound(y)
    BY <1>2, <1>5 DEF Sound, Rested, Single, Stationed, Pending
  <2> QED
    BY <1>0, <1>1, <1>7, <2>1, OneShip, Untouched DEF players
<1>8. ASSUME x.route # <<>>, ship' = [ship EXCEPT ![s] = CallOut(y, "changeHp")],
             known' = k, UNCHANGED <<edits, env, info>>
      PROVE  ShipsOK' /\ KnownOK' /\ PlayersOK' /\ EditsOK'
  <2> HIDE DEF y, k
  <2> QED
    BY <1>0, <1>1, <1>3, <1>6, <1>8, OneShip, KnownKept, Untouched DEF players
<1>9. ASSUME x.route # <<>>, CallFun(s, CallOut(y, "changeHp"), k), UNCHANGED <<env, info>>
      PROVE  ShipsOK' /\ KnownOK' /\ PlayersOK' /\ EditsOK'
  <2> HIDE DEF y, k
  <2> QED
    BY <1>0, <1>1, <1>3, <1>6, <1>9, CallFunKeeps, Untouched DEF players
<1>10. ASSUME x.route # <<>>, q \in Harbours, Connect(s, CallOut(y, "disconnect"), q),
              known' = k, UNCHANGED edits
       PROVE  ShipsOK' /\ KnownOK' /\ PlayersOK' /\ EditsOK'
  <2>1. q = y.route[y.rpos + 1] /\ y.rpos \in 0 .. Len(y.route) - 1
    BY <1>2, <1>10
  <2> HIDE DEF y, k, q
  <2>2. ShipsOK' /\ PlayersOK'
    BY <1>0, <1>1, <1>2, <1>10, <2>1, ConnectKeeps
  <2> QED
    BY <1>0, <1>3, <1>10, <2>2, KnownKept, Untouched
<1> HIDE DEF y, k, q
<1> QED
  BY <1>4, <1>7, <1>8, <1>9, <1>10

\* Casting off, and the interventions.
LEMMA DisconnectKeeps ==
  ASSUME IInv, NEW s \in Ships, Disconnect(s)
  PROVE  ShipsOK' /\ KnownOK' /\ PlayersOK' /\ EditsOK'
<1>1. ShipsOK /\ KnownOK /\ PlayersOK /\ EditsOK
  BY ByActors
<1>2. ship' = [ship EXCEPT ![s] = CastOff(ship[s])] /\ UNCHANGED <<known, players, edits>>
  BY DEF Disconnect
<1>3. Sound(CastOff(ship[s]))
  BY <1>1, DisconnectSound DEF Disconnect, ShipsOK
<1> QED
  BY <1>1, <1>2, <1>3, OneShip, Untouched

LEMMA EditKeeps ==
  ASSUME IInv, NEW s \in Ships,
         \/ HaltShip(s) \/ StartShip(s) \/ ClearRoute(s) \/ ExtendRoute(s)
         \/ ForgetShip(s)
  PROVE  ShipsOK' /\ KnownOK' /\ PlayersOK' /\ EditsOK'
<1>1. ShipsOK /\ KnownOK /\ PlayersOK /\ EditsOK /\ Sound(ship[s])
  BY ByActors DEF ShipsOK
<1>2. PlayersOK' /\ EditsOK'
  BY <1>1, Untouched, Counted DEF HaltShip, StartShip, ClearRoute, ExtendRoute,
                                  ForgetShip, Edit
<1>3. CASE HaltShip(s)
  BY <1>1, <1>2, <1>3, HaltSound, OneShip, Untouched DEF HaltShip
<1>4. CASE StartShip(s)
  <2>1. PICK pos \in 0 .. Len(ship[s].route) : ship' = [ship EXCEPT ![s] = Start(@, pos)]
    BY <1>4 DEF StartShip
  <2>2. Sound(Start(ship[s], pos))
    BY <1>1, StartSound
  <2>3. known' = ReportRoute(known, s, ship[s].route)
    BY <1>4 DEF StartShip
  <2>4. KnownOK'
    BY <1>1, <2>3, ReportAgrees DEF KnownOK, Agree
  <2> QED
    BY <1>1, <1>2, <2>1, <2>2, <2>4, OneShip
<1>5. CASE ClearRoute(s)
  BY <1>1, <1>2, <1>5, RemoveRouteSound, OneShip, Untouched DEF ClearRoute
<1>6. CASE ExtendRoute(s)
  <2>1. PICK q \in Points : ship' = [ship EXCEPT ![s] = AddPoint(@, q)]
    BY <1>6 DEF ExtendRoute
  <2>2. Sound(AddPoint(ship[s], q))
    BY <1>1, AddPointSound
  <2> QED
    BY <1>1, <1>2, <1>6, <2>1, <2>2, OneShip, Untouched DEF ExtendRoute
<1>7. CASE ForgetShip(s)
  BY <1>1, <1>2, <1>7, RemoveTransporterAgrees, Untouched DEF ForgetShip, KnownOK, Agree
<1> QED
  BY <1>3, <1>4, <1>5, <1>6, <1>7

LEMMA ForgetStopKeeps ==
  ASSUME IInv, NEW h \in Harbours, ForgetStop(h)
  PROVE  ShipsOK' /\ KnownOK' /\ PlayersOK' /\ EditsOK'
<1>1. ShipsOK /\ KnownOK /\ PlayersOK /\ EditsOK
  BY ByActors
<1>2. ShipsOK' /\ PlayersOK' /\ EditsOK'
  BY <1>1, Untouched, Counted DEF ForgetStop, Edit
<1>3. KnownOK'
  BY <1>1, RemoveStopAgrees DEF ForgetStop, KnownOK, Agree
<1> QED
  BY <1>2, <1>3

LEMMA Stutter == ASSUME IInv, UNCHANGED vars  PROVE IInv'
BY DEF vars, IInv, TypeOK, OneChain, DockedAtStation, TablesAgree, IndexOK, Rested,
       Moored, Single, Stationed, Pending, Agree

LEMMA ByActorsAfter ==
  ASSUME ShipsOK', KnownOK', PlayersOK', EditsOK'
  PROVE  IInv'
BY DEF ShipsOK, KnownOK, PlayersOK, EditsOK, IInv, TypeOK, OneChain, DockedAtStation,
       TablesAgree, Sound

LEMMA Inductive == ASSUME IInv, [Next]_vars  PROVE IInv'
<1>1. ASSUME NEW s \in Ships, ChangeHp(s)  PROVE IInv'
  BY <1>1, ChangeHpKeeps, ByActorsAfter
<1>2. ASSUME NEW s \in Ships, Disconnect(s)  PROVE IInv'
  BY <1>2, DisconnectKeeps, ByActorsAfter
<1>3. ASSUME NEW s \in Ships,
             HaltShip(s) \/ StartShip(s) \/ ClearRoute(s) \/ ExtendRoute(s) \/ ForgetShip(s)
      PROVE  IInv'
  BY <1>3, EditKeeps, ByActorsAfter
<1>4. ASSUME NEW h \in Harbours, ForgetStop(h)  PROVE IInv'
  BY <1>4, ForgetStopKeeps, ByActorsAfter
<1>5. ASSUME NEW p \in Players,
             \/ \E s \in Ships : Enter(p, s) \/ Leave(p, s) \/ ReiseMit(p, s)
             \/ \E s \in Ships, h \in Harbours : ReiseMitNach(p, s, h)
             \/ \E h \in Harbours : GoElsewhere(p, h) \/ ReiseNach(p, h) \/ ReiseAboard(p, h)
             \/ Fight(p) \/ ReiseAus(p)
      PROVE  IInv'
  BY <1>5, PlayerKeeps
<1>6. CASE UNCHANGED vars
  BY <1>6, Stutter
<1> QED
  BY <1>1, <1>2, <1>3, <1>4, <1>5, <1>6 DEF Next
-----------------------------------------------------------------------------
LEMMA Invariance == Spec => []IInv
BY Initially, Inductive, PTL DEF Spec

\* Types: changeHp() finds a point to go to unless the route is empty, whatever
\* was added to it, removed or restarted.
THEOREM TravelTypeCorrect == Spec => []TypeOK
<1>1. IInv => TypeOK
  BY DEF IInv
<1> QED
  BY <1>1, Invariance, PTL

\* changeHp() and disconnect() call each other in one chain of call_outs, for
\* any number of interventions by wizards and by the transport's functions.
THEOREM TravelOneChain == Spec => []OneChain
<1>1. IInv => OneChain
  BY DEF IInv
<1> QED
  BY <1>1, Invariance, PTL

\* A transport waiting to cast off stands at a harbour of its route and is
\* open there exactly if the harbour loaded.
THEOREM TravelDocked == Spec => []DockedAtStation
<1>1. IInv => DockedAtStation
  BY DEF IInv
<1> QED
  BY <1>1, Invariance, PTL

\* The register's two mappings agree for any order of reports and removals.
THEOREM TravelTablesAgree == Spec => []TablesAgree
<1>1. IInv => TablesAgree
  BY DEF IInv
<1> QED
  BY <1>1, Invariance, PTL

-----------------------------------------------------------------------------
\* What only changes the route, the position and the call_outs leaves the
\* transport where it is.
SameMooring(y, x) == y.docked = x.docked /\ y.at = x.at

LEMMA HaltStays ==
  ASSUME NEW x \in Transport
  PROVE  Halt(x) \in Transport /\ SameMooring(Halt(x), x)
BY DEF Halt, Transport, SameMooring, None, Jobs

LEMMA StartStays ==
  ASSUME NEW x \in Transport, NEW pos \in Nat
  PROVE  SameMooring(Start(x, pos), x)
<1> DEFINE n == IF pos >= Len(x.route) THEN -1 ELSE pos - 1
           y == [Halt(x) EXCEPT !.rpos = n]
<1>1. n \in Int
  OBVIOUS
<1>2. Halt(x) \in Transport /\ SameMooring(Halt(x), x)
  BY HaltStays
<1> HIDE DEF n
<1>3. y \in Transport /\ SameMooring(y, x)
  BY <1>1, <1>2, OtherPosition DEF SameMooring
<1> HIDE DEF y
<1>4. SameMooring(CallOut(y, "changeHp"), x)
  BY <1>3 DEF CallOut, SameMooring, Transport, Jobs
<1> QED
  BY <1>4 DEF Start, y, n

LEMMA NewCourseStays ==
  ASSUME NEW x, Sound(x), NEW r \in Seq(Points)
  PROVE  /\ SameMooring(RemoveRoute(x), x)
         /\ SameMooring(Start([RemoveRoute(x) EXCEPT !.route = r], 0), x)
<1> DEFINE y == RemoveRoute(x)
           z == [y EXCEPT !.route = r]
<1>1. y \in Transport
  BY RemoveRouteSound DEF Sound
<1>2. SameMooring(y, x)
  BY DEF RemoveRoute, Halt, Sound, Transport, SameMooring
<1> HIDE DEF y
<1>3. z \in Transport /\ SameMooring(z, x)
  BY <1>1, <1>2, OtherRoute DEF SameMooring
<1> HIDE DEF z
<1>4. SameMooring(Start(z, 0), x)
  BY <1>3, StartStays DEF SameMooring
<1> QED
  BY <1>2, <1>4 DEF y, z

\* Whoever docks puts ashore everybody who travels there.
LEMMA DockingPutsAshore ==
  ASSUME IInv, NEW s \in Ships, NEW p \in Aboard(s), NEW r \in Harbours,
         Exchange(s, r), UNCHANGED fighting, ship'[s].at = r
  PROVE  ~CarriedPast(p, s)'
<1>1. p \in Players /\ env[p] = s /\ s # r
  BY TravelAssumption DEF Aboard
<1>2. PICK on \in Boardings(s, r) :
        /\ env' = [t \in Players |-> IF t \in PutAshore(s, r) THEN r
                                      ELSE IF t \in on THEN s ELSE env[t]]
        /\ info' = [t \in Players |-> IF t \in PutAshore(s, r) THEN Nil
                      ELSE IF t \in on THEN [info[t] EXCEPT !.where = s]
                      ELSE info[t]]
  BY DEF Exchange
<1>3. p \notin on
  BY <1>1 DEF Boardings, TakeAboard
<1>4. CASE p \in PutAshore(s, r)
  BY <1>1, <1>2, <1>4 DEF CarriedPast
<1>5. CASE p \notin PutAshore(s, r)
  <2>1. info'[p] = info[p]
    BY <1>1, <1>2, <1>3, <1>5
  <2>2. ~(info[p] # Nil /\ info[p].where = s /\ p \notin fighting /\ info[p].to = r)
    BY <1>5 DEF PutAshore, Travels
  <2> QED
    BY <2>1, <2>2 DEF CarriedPast, Travels, DockedAt
<1> QED
  BY <1>4, <1>5

LEMMA ChangeHpPutsAshore ==
  ASSUME IInv, NEW t \in Ships, ChangeHp(t), NEW s \in Ships, Reaches(s),
         NEW p \in Aboard(s)
  PROVE  ~CarriedPast(p, s)'
<1> DEFINE x == ship[t]
           n == IF x.rpos + 1 = Len(x.route) THEN 0 ELSE x.rpos + 1
           y == [x EXCEPT !.rpos = n, !.due["changeHp"] = @ - 1]
           k == IF n = 0 THEN ReportRoute(known, t, x.route) ELSE known
           q == x.route[n + 1]
<1>0. ship \in [Ships -> Transport] /\ Sound(x)
  BY ByActors DEF ShipsOK
<1>1. Pending(x, "changeHp") /\ UNCHANGED fighting
  BY DEF ChangeHp
<1>2. /\ y \in Transport /\ y.due = None /\ y.route = x.route /\ y.rpos = n
      /\ IndexOK(y) /\ Moored(y)
      /\ x.route # <<>> => n \in 0 .. Len(x.route) - 1
  BY <1>0, <1>1, StepTaken
<1>3. SameMooring(y, x)
  BY <1>0 DEF SameMooring, Transport
<1>4. /\ SameMooring(CallOut(y, "changeHp"), x)
      /\ CallOut(y, "disconnect") \in Transport
  <2> HIDE DEF y
  <2> QED
    BY <1>2, <1>3 DEF SameMooring, CallOut, Transport, Jobs
<1>5. x.route # <<>> => Sound(CallOut(y, "changeHp"))
  BY <1>2, CallOutSound
<1>6. \/ ship' = [ship EXCEPT ![t] = y]
      \/ ship' = [ship EXCEPT ![t] = CallOut(y, "changeHp")]
      \/ x.route # <<>> /\ CallFun(t, CallOut(y, "changeHp"), k)
      \/ q \in Harbours /\ Connect(t, CallOut(y, "disconnect"), q)
  BY DEF ChangeHp
<1> HIDE DEF y, k, q
\* A transport that is as it was, or in the same mooring, reaches nothing.
<1>7. ASSUME NEW z, ship' = [ship EXCEPT ![t] = z], SameMooring(z, x)  PROVE FALSE
  BY <1>0, <1>7 DEF SameMooring, Reaches
<1>8. ASSUME x.route # <<>>, CallFun(t, CallOut(y, "changeHp"), k)  PROVE FALSE
  <2> DEFINE w == CallOut(y, "changeHp")
  <2>1. Sound(w) /\ SameMooring(w, x)
    BY <1>4, <1>5, <1>8
  <2> HIDE DEF w
  <2>2. \/ ship' = [ship EXCEPT ![t] = w]
        \/ ship' = [ship EXCEPT ![t] = Halt(w)]
        \/ \E r \in Courses \cup {w.route} :
             ship' = [ship EXCEPT ![t] = Start([RemoveRoute(w) EXCEPT !.route = r], 0)]
    BY <1>8 DEF CallFun, w
  <2>3. SameMooring(Halt(w), x)
    BY <2>1, HaltStays DEF Sound, SameMooring
  <2>4. ASSUME NEW r \in Courses \cup {w.route}
        PROVE  SameMooring(Start([RemoveRoute(w) EXCEPT !.route = r], 0), x)
    <3>1. r \in Seq(Points)
      BY <2>1, TravelAssumption DEF Sound, Transport
    <3> QED
      BY <2>1, <3>1, NewCourseStays DEF SameMooring
  <2> QED
    BY <1>7, <2>1, <2>2, <2>3, <2>4
<1>9. ASSUME q \in Harbours, Connect(t, CallOut(y, "disconnect"), q)
      PROVE  ~CarriedPast(p, s)'
  <2> DEFINE w == CallOut(y, "disconnect")
  <2>1. w \in Transport
    BY <1>4
  <2> HIDE DEF w
  <2>2. CASE q \in Broken
    <3>1. ship' = [ship EXCEPT ![t] = [w EXCEPT !.docked = FALSE]]
      BY <1>9, <2>2 DEF Connect, w
    <3> QED
      BY <1>0, <2>1, <3>1 DEF Reaches, Transport
  <2>3. CASE q \notin Broken
    <3>1. /\ ship' = [ship EXCEPT ![t] = [w EXCEPT !.docked = TRUE, !.at = q]]
          /\ Exchange(t, q)
      BY <1>9, <2>3 DEF Connect, w
    <3>2. s = t
      BY <1>0, <3>1 DEF Reaches
    <3>3. ship'[s].at = q
      BY <1>0, <2>1, <3>1, <3>2 DEF Transport
    <3> QED
      BY <1>1, <1>9, <3>1, <3>2, <3>3, DockingPutsAshore
  <2> QED
    BY <2>2, <2>3
<1> QED
  BY <1>3, <1>4, <1>6, <1>7, <1>8, <1>9

LEMMA OthersReachNothing ==
  ASSUME IInv, NEW s \in Ships, [Next]_vars, \A t \in Ships : ~ChangeHp(t)
  PROVE  ~Reaches(s)
<1>0. ship \in [Ships -> Transport] /\ \A t \in Ships : Sound(ship[t])
  BY ByActors DEF ShipsOK
<1>1. ASSUME NEW t \in Ships, NEW z, ship' = [ship EXCEPT ![t] = z],
             SameMooring(z, ship[t]) \/ z.docked = FALSE
      PROVE  ~Reaches(s)
  BY <1>0, <1>1 DEF SameMooring, Reaches
<1>2. ASSUME UNCHANGED ship  PROVE ~Reaches(s)
  BY <1>2 DEF Reaches
<1>3. ASSUME NEW t \in Ships, Disconnect(t)  PROVE ~Reaches(s)
  <2>1. CastOff(ship[t]).docked = FALSE
    BY <1>0 DEF CastOff, CallOut, Transport, Sound, Jobs
  <2>2. ship' = [ship EXCEPT ![t] = CastOff(ship[t])]
    BY <1>3 DEF Disconnect
  <2> QED
    BY <1>1, <2>1, <2>2
<1>4. ASSUME NEW t \in Ships, HaltShip(t)  PROVE ~Reaches(s)
  <2>1. SameMooring(Halt(ship[t]), ship[t])
    BY <1>0, HaltStays
  <2> QED
    BY <1>1, <1>4, <2>1 DEF HaltShip
<1>5. ASSUME NEW t \in Ships, StartShip(t)  PROVE ~Reaches(s)
  <2>1. PICK pos \in 0 .. Len(ship[t].route) : ship' = [ship EXCEPT ![t] = Start(@, pos)]
    BY <1>5 DEF StartShip
  <2>2. SameMooring(Start(ship[t], pos), ship[t])
    BY <1>0, StartStays
  <2> QED
    BY <1>1, <2>1, <2>2
<1>6. ASSUME NEW t \in Ships, ClearRoute(t)  PROVE ~Reaches(s)
  <2>1. SameMooring(RemoveRoute(ship[t]), ship[t])
    BY <1>0 DEF RemoveRoute, Halt, Sound, Transport, SameMooring
  <2> QED
    BY <1>1, <1>6, <2>1 DEF ClearRoute
<1>7. ASSUME NEW t \in Ships, ExtendRoute(t)  PROVE ~Reaches(s)
  <2>1. PICK q \in Points : ship' = [ship EXCEPT ![t] = AddPoint(@, q)]
    BY <1>7 DEF ExtendRoute
  <2>2. SameMooring(AddPoint(ship[t], q), ship[t])
    BY <1>0 DEF AddPoint, Transport, SameMooring
  <2> QED
    BY <1>1, <2>1, <2>2
<1>8. CASE UNCHANGED ship
  BY <1>2, <1>8
<1>9. \/ UNCHANGED ship
      \/ \E t \in Ships : \/ Disconnect(t) \/ HaltShip(t) \/ StartShip(t)
                          \/ ClearRoute(t) \/ ExtendRoute(t)
  BY DEF Next, ForgetShip, ForgetStop, Enter, Leave, ReiseMit, ReiseMitNach,
         GoElsewhere, ReiseNach, ReiseAboard, Fight, ReiseAus, Travel, vars
<1> QED
  BY <1>3, <1>4, <1>5, <1>6, <1>7, <1>8, <1>9

\* Nobody is carried past his destination.
THEOREM TravelPutAshore == Spec => PutAshoreInTime
<1>1. ASSUME IInv, [Next]_vars
      PROVE  [\A s \in Ships : \A p \in Aboard(s) : Reaches(s) => ~CarriedPast(p, s)']_vars
  <2> SUFFICES ASSUME NEW s \in Ships, NEW p \in Aboard(s), Reaches(s)
               PROVE  ~CarriedPast(p, s)'
    OBVIOUS
  <2>1. PICK t \in Ships : ChangeHp(t)
    BY <1>1, OthersReachNothing
  <2> QED
    BY <1>1, <2>1, ChangeHpPutsAshore
<1> QED
  BY <1>1, Invariance, PTL DEF Spec, PutAshoreInTime
=============================================================================
