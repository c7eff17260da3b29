------------------------------- MODULE Travel -------------------------------
(***************************************************************************)
(* Transports (std/transport.c), the register of their stops               *)
(* (p/daemon/traveld.c) and the players' command "reise"                   *)
(* (std/player/travel.c).                                                  *)
(*                                                                         *)
(* A transport works off its route with two functions that call each other *)
(* by call_out: changeHp() goes to the next point of the route and, where  *)
(* that is a harbour, docks; disconnect() casts off.  Whoever docks puts   *)
(* ashore and takes aboard the travellers that asked for it with "reise".  *)
(* Wizards and the transport's own functions, which are points of the      *)
(* route too, halt, restart and replace the route at any time.             *)
(*                                                                         *)
(* A destination is its harbour.  The places where a player may be are the *)
(* harbours and the transports.                                            *)
(***************************************************************************)
EXTENDS Integers, Sequences, FiniteSets

CONSTANTS
  Ships,          \* transports
  Harbours,       \* rooms where they stop
  Broken,         \* harbours that do not load
  Players,
  Courses,        \* the routes that the code of a transport sets up
  MaxPassengers,  \* P_MAX_PASSENGERS, 0 for no limit
  MaxRoute,       \* bound: points of a route
  MaxEdits,       \* bound: interventions by wizards and functions of transports
  Nil             \* LPC's 0

\* The points of a route that are no harbours: a message or a function.
Events == {"hpMsg", "hpFun"}
Points == Harbours \cup Events
Jobs == {"changeHp", "disconnect"}

ASSUME TravelAssumption ==
  /\ Broken \subseteq Harbours
  /\ Courses \subseteq Seq(Points)
  /\ MaxPassengers \in Nat /\ MaxRoute \in Nat /\ MaxEdits \in Nat
  /\ Nil \notin Harbours \cup Ships
  /\ Ships \cap Harbours = {} /\ Events \cap Harbours = {}

VARIABLES
  ship,      \* the variables of each transport, its environment and call_outs
  known,     \* the two mappings of the register, {} for a missing entry
  env,       \* where each player is
  info,      \* P_TRAVEL_INFO of each player
  fighting,  \* the players whose InFight() is true
  edits      \* interventions so far

vars == <<ship, known, env, info, fighting, edits>>
players == <<env, info, fighting>>

Stops(r) == {r[i] : i \in DOMAIN r} \cap Harbours
None == [j \in Jobs |-> 0]
-----------------------------------------------------------------------------
\* The register.
RemoveTransporter(k, s) ==
  [transporters |-> [k.transporters EXCEPT ![s] = {}],
   stops |-> [h \in Harbours |->
                IF h \in k.transporters[s] THEN k.stops[h] \ {s} ELSE k.stops[h]]]

RemoveStop(k, h) ==
  [stops |-> [k.stops EXCEPT ![h] = {}],
   transporters |-> [s \in Ships |->
                IF s \in k.stops[h] THEN k.transporters[s] \ {h} ELSE k.transporters[s]]]

AddRouteKept(k, s, l) ==
  [transporters |-> [k.transporters EXCEPT ![s] = l],
   stops |-> [h \in Harbours |->
                IF h \in l THEN k.stops[h] \cup {s} ELSE k.stops[h]]]

AddRoute(k, s, l) ==
  IF l = {} THEN k ELSE AddRouteKept(RemoveTransporter(k, s), s, l)

ReportRoute(k, s, r) == AddRoute(k, s, Stops(r))
-----------------------------------------------------------------------------
\* A transport.  A call_out of a name may be pending more than once.
Pending(x, job) == x.due[job] > 0
Moving(s) == \E job \in Jobs : Pending(ship[s], job)
CallOut(x, job) == [x EXCEPT !.due[job] = @ + 1]

Halt(x) == [x EXCEPT !.due = None]

\* Fault: the old chain is not ended.
StartBeside(x, pos) ==
  CallOut([x EXCEPT !.rpos = IF pos >= Len(x.route) THEN -1 ELSE pos - 1], "changeHp")

Start(x, pos) ==
  CallOut([Halt(x) EXCEPT !.rpos = IF pos >= Len(x.route) THEN -1 ELSE pos - 1],
          "changeHp")

\* Fault: the position in the old route is kept.
RemovePoints(x) == [Halt(x) EXCEPT !.route = <<>>]

\* RemoveRoute() asks the register to forget the transport, which refuses
\* that to everyone below an arch wizard.
RemoveRoute(x) == [Halt(x) EXCEPT !.route = <<>>, !.rpos = 0]

AddPoint(x, q) == [x EXCEPT !.route = Append(@, q)]

SetOut(r) == [route |-> r, rpos |-> -1, docked |-> FALSE, at |-> Nil,
              due |-> [None EXCEPT !["changeHp"] = 1]]

DockedAt(s, h) == ship[s].docked /\ ship[s].at = h
Aboard(s) == {p \in Players : env[p] = s}
Room(n) == IF MaxPassengers = 0 THEN Cardinality(Players) ELSE MaxPassengers - n

\* HasRoute() looks for the destination from rpos on.  Between Start() and
\* the first changeHp() that is -1, an illegal index, and the command that
\* asks ends with an error.
HasRouteFails(s) == ship[s].rpos < 0 /\ ship[s].route # <<>>
HasRoute(s, h) == ~HasRouteFails(s) /\ h \in Stops(ship[s].route) \ Broken

Init ==
  /\ \E c \in [Ships -> Courses] :
       /\ ship = [s \in Ships |-> SetOut(c[s])]
       /\ known = [transporters |-> [s \in Ships |-> Stops(c[s])],
                   stops |-> [h \in Harbours |-> {s \in Ships : h \in Stops(c[s])}]]
  /\ env \in [Players -> Harbours]
  /\ info = [p \in Players |-> Nil]
  /\ fighting = {}
  /\ edits = 0
-----------------------------------------------------------------------------
\* What the travel information of a player asks for where he is.
Travels(p, place) == info[p] # Nil /\ info[p].where = place

\* Faults: the harbour the transport comes from is compared; the information
\* is looked for under the harbour.
PutAshoreLate(s, r) ==
  {p \in Aboard(s) \ fighting : Travels(p, s) /\ info[p].to = ship[s].at}
PutAshoreByHarbour(s, r) ==
  {p \in Aboard(s) \ fighting : Travels(p, r) /\ info[p].to = r}

PutAshore(s, r) ==
  {p \in Aboard(s) \ fighting : Travels(p, s) /\ info[p].to = r}

TakeAboard(s, r) ==
  {p \in Players \ fighting : env[p] = r /\ Travels(p, r) /\ info[p].with = s}

\* Of those who want to come aboard as many do as there is room for.
Boardings(s, r) ==
  LET wish == TakeAboard(s, r)
      room == Room(Cardinality(Aboard(s) \ PutAshore(s, r)))
  IN  {b \in SUBSET wish : \/ b = wish /\ Cardinality(b) <= room
                           \/ b # wish /\ Cardinality(b) = room}

Exchange(s, r) ==
  \E on \in Boardings(s, r) :
    LET off == PutAshore(s, r)
    IN  /\ env' = [p \in Players |-> IF p \in off THEN r
                                     ELSE IF p \in on THEN s ELSE env[p]]
        /\ info' = [p \in Players |-> IF p \in off THEN Nil
                      ELSE IF p \in on THEN [info[p] EXCEPT !.where = s]
                      ELSE info[p]]

\* Fault: a harbour that does not load is not noticed.
ConnectBlindly(s, x, r) ==
  /\ ship' = [ship EXCEPT ![s] =
                [x EXCEPT !.docked = TRUE, !.at = IF r \in Broken THEN @ ELSE r]]
  /\ Exchange(s, r)

\* connect() after the transport x has reached the point r of its route.
Connect(s, x, r) ==
  \/ /\ r \in Broken
     /\ ship' = [ship EXCEPT ![s] = [x EXCEPT !.docked = FALSE]]
     /\ UNCHANGED <<env, info>>
  \/ /\ r \notin Broken
     /\ ship' = [ship EXCEPT ![s] = [x EXCEPT !.docked = TRUE, !.at = r]]
     /\ Exchange(s, r)

\* A function of the transport that is a point of its route: it does
\* something else, halts, starts anew or sets up another course.
CallFun(s, x, k) ==
  \/ /\ ship' = [ship EXCEPT ![s] = x]
     /\ known' = k
     /\ edits' = edits
  \/ /\ edits < MaxEdits
     /\ edits' = edits + 1
     /\ \/ /\ ship' = [ship EXCEPT ![s] = Halt(x)]
           /\ known' = k
        \/ \E r \in Courses \cup {x.route} :
             /\ ship' = [ship EXCEPT ![s] = Start([RemoveRoute(x) EXCEPT !.route = r], 0)]
             /\ known' = ReportRoute(k, s, r)

ChangeHp(s) ==
  LET x == ship[s]
      n == IF x.rpos + 1 = Len(x.route) THEN 0 ELSE x.rpos + 1
      y == [x EXCEPT !.rpos = n, !.due["changeHp"] = @ - 1]
      k == IF n = 0 THEN ReportRoute(known, s, x.route) ELSE known
  IN  /\ Pending(x, "changeHp")
      /\ \/ /\ x.route = <<>>              \* route[0] is an error
            /\ ship' = [ship EXCEPT ![s] = y]
            /\ UNCHANGED <<known, edits, env, info>>
         \/ /\ x.route # <<>>
            /\ LET q == x.route[n + 1]
               IN \/ /\ q = "hpMsg"
                     /\ ship' = [ship EXCEPT ![s] = CallOut(y, "changeHp")]
                     /\ known' = k
                     /\ UNCHANGED <<edits, env, info>>
                  \/ /\ q = "hpFun"
                     /\ CallFun(s, CallOut(y, "changeHp"), k)
                     /\ UNCHANGED <<env, info>>
                  \/ /\ q \in Harbours
                     /\ Connect(s, CallOut(y, "disconnect"), q)
                     /\ known' = k
                     /\ UNCHANGED edits
      /\ UNCHANGED fighting

\* Fault: nothing is scheduled at departure.
DisconnectOnly(s) ==
  /\ Pending(ship[s], "disconnect")
  /\ ship' = [ship EXCEPT ![s].docked = FALSE, ![s].due["disconnect"] = @ - 1]
  /\ UNCHANGED <<known, players, edits>>

CastOff(x) ==
  CallOut([x EXCEPT !.docked = FALSE, !.due["disconnect"] = @ - 1], "changeHp")

Disconnect(s) ==
  /\ Pending(ship[s], "disconnect")
  /\ ship' = [ship EXCEPT ![s] = CastOff(ship[s])]
  /\ UNCHANGED <<known, players, edits>>
-----------------------------------------------------------------------------
\* Wizards and the rest of the transport's code.
Edit ==
  /\ edits < MaxEdits
  /\ edits' = edits + 1
  /\ UNCHANGED players

HaltShip(s) ==
  /\ Edit
  /\ ship' = [ship EXCEPT ![s] = Halt(@)]
  /\ UNCHANGED known

StartShip(s) ==
  /\ Edit
  /\ \E pos \in 0 .. Len(ship[s].route) :
       ship' = [ship EXCEPT ![s] = Start(@, pos)]
  /\ known' = ReportRoute(known, s, ship[s].route)

ClearRoute(s) ==
  /\ Edit
  /\ ship' = [ship EXCEPT ![s] = RemoveRoute(@)]
  /\ UNCHANGED known

ExtendRoute(s) ==
  /\ Edit
  /\ Len(ship[s].route) < MaxRoute
  /\ \E q \in Points : ship' = [ship EXCEPT ![s] = AddPoint(@, q)]
  /\ UNCHANGED known

ForgetShip(s) ==
  /\ Edit
  /\ known' = RemoveTransporter(known, s)
  /\ UNCHANGED ship

ForgetStop(h) ==
  /\ Edit
  /\ known' = RemoveStop(known, h)
  /\ UNCHANGED ship
-----------------------------------------------------------------------------
\* Players.
CanEnter(p, s) ==
  /\ ship[s].docked
  /\ ship[s].at = env[p]
  /\ Room(Cardinality(Aboard(s))) > 0

Enter(p, s) ==
  /\ CanEnter(p, s)
  /\ env' = [env EXCEPT ![p] = s]
  /\ UNCHANGED <<ship, known, info, fighting, edits>>

\* Leave() drops the travel information before it moves the player.
Ashore(p, s) ==
  /\ env' = [env EXCEPT ![p] = ship[s].at]
  /\ info' = [info EXCEPT ![p] = Nil]

Leave(p, s) ==
  /\ env[p] = s
  /\ ship[s].docked
  /\ Ashore(p, s)
  /\ UNCHANGED <<ship, known, fighting, edits>>

\* On foot, by magic or by death.
GoElsewhere(p, h) ==
  /\ env[p] # h
  /\ env' = [env EXCEPT ![p] = h]
  /\ UNCHANGED <<ship, known, info, fighting, edits>>

Fight(p) ==
  /\ fighting' = IF p \in fighting THEN fighting \ {p} ELSE fighting \cup {p}
  /\ UNCHANGED <<ship, known, env, info, edits>>

Already(p, h) == info[p] # Nil /\ info[p].to = h

\* Boards the transport s if it is there and sets the travel information.
Travel(p, s, h) ==
  LET place == IF CanEnter(p, s) THEN s ELSE env[p]
  IN  /\ env' = [env EXCEPT ![p] = place]
      /\ info' = [info EXCEPT ![p] = [where |-> place, with |-> s, to |-> h]]
      /\ UNCHANGED <<ship, known, fighting, edits>>

\* "reise mit s nach h" on land.
ReiseMitNach(p, s, h) ==
  /\ env[p] \in Harbours \ {h}
  /\ s \in known.stops[env[p]]
  /\ HasRoute(s, h)
  /\ ~Already(p, h)
  /\ Travel(p, s, h)

\* "reise nach h" on land: the transport already chosen, else one that is
\* present, else any.
ReiseNach(p, h) ==
  /\ env[p] \in Harbours \ {h}
  /\ \A s \in known.stops[env[p]] : ~HasRouteFails(s)
  /\ LET fit == {s \in known.stops[env[p]] : HasRoute(s, h)}
         same == {s \in fit : info[p] # Nil /\ info[p].with = s}
         of == IF same # {} THEN same ELSE fit
         here == {s \in of : DockedAt(s, env[p])}
     IN  /\ Cardinality(of) = 1 => ~Already(p, h)
         /\ \E s \in IF here # {} THEN here ELSE of : Travel(p, s, h)

\* "reise nach h" aboard.
ReiseAboard(p, h) ==
  /\ env[p] \in Ships
  /\ HasRoute(env[p], h)
  /\ ~Already(p, h)
  /\ IF DockedAt(env[p], h)
     THEN Ashore(p, env[p])
     ELSE /\ info' = [info EXCEPT ![p] = [where |-> env[p], with |-> env[p], to |-> h]]
          /\ UNCHANGED env
  /\ UNCHANGED <<ship, known, fighting, edits>>

\* "reise mit s": keeps the destination when the transport goes there.
ReiseMit(p, s) ==
  /\ env[p] \in Harbours
  /\ ~(Travels(p, env[p]) /\ info[p].with = s)
  /\ s \in known.stops[env[p]]
  /\ Travel(p, s, IF info[p] # Nil /\ info[p].to \in Stops(ship[s].route)
                  THEN info[p].to ELSE Nil)

ReiseAus(p) ==
  /\ info[p] # Nil
  /\ info' = [info EXCEPT ![p] = Nil]
  /\ UNCHANGED <<ship, known, env, fighting, edits>>

Next ==
  \/ \E s \in Ships : \/ ChangeHp(s) \/ Disconnect(s)
                      \/ HaltShip(s) \/ StartShip(s) \/ ClearRoute(s)
                      \/ ExtendRoute(s) \/ ForgetShip(s)
  \/ \E h \in Harbours : ForgetStop(h)
  \/ \E p \in Players :
       \/ \E s \in Ships : Enter(p, s) \/ Leave(p, s) \/ ReiseMit(p, s)
       \/ \E s \in Ships, h \in Harbours : ReiseMitNach(p, s, h)
       \/ \E h \in Harbours : GoElsewhere(p, h) \/ ReiseNach(p, h) \/ ReiseAboard(p, h)
       \/ Fight(p) \/ ReiseAus(p)

\* The driver runs due call_outs.
Fairness == \A s \in Ships : WF_vars(ChangeHp(s)) /\ WF_vars(Disconnect(s))

Spec == Init /\ [][Next]_vars
FairSpec == Spec /\ Fairness
-----------------------------------------------------------------------------
\* Types.  rpos names a point of the route or, before the first, -1: whatever
\* was added, removed or restarted, changeHp() finds a point to go to, unless the
\* route is empty.
Transport == [route : Seq(Points), rpos : Int, docked : BOOLEAN,
              at : Harbours \cup {Nil}, due : [Jobs -> Nat]]
Information == [where : Harbours \cup Ships, with : Ships, to : Harbours \cup {Nil}]
Register == [transporters : [Ships -> SUBSET Harbours],
             stops : [Harbours -> SUBSET Ships]]
IndexOK(x) == \/ x.rpos \in -1 .. Len(x.route) - 1
              \/ x.route = <<>> /\ x.rpos = 0

TypeOK ==
  /\ ship \in [Ships -> Transport]
  /\ \A s \in Ships : IndexOK(ship[s])
  /\ known \in Register
  /\ env \in [Players -> Harbours \cup Ships]
  /\ info \in [Players -> Information \cup {Nil}]
  /\ fighting \subseteq Players
  /\ edits \in 0 .. MaxEdits

\* The two functions that call each other never run in two chains: however a
\* transport is halted and restarted, by others or by its own functions, at
\* most one of the two call_outs is pending, and it once (Start(), Halt()).
Single(x) == x.due["changeHp"] + x.due["disconnect"] <= 1
OneChain == \A s \in Ships : Single(ship[s])

\* A transport that waits to cast off stands at a harbour of its route, and
\* is open there if and only if it got there: after a harbour that does not
\* load nobody can leave it where it was before (connect()).
Stationed(x) ==
  Pending(x, "disconnect") =>
    /\ x.rpos \in 0 .. Len(x.route) - 1
    /\ LET q == x.route[x.rpos + 1]
       IN  /\ q \in Harbours
           /\ x.docked <=> q \notin Broken
           /\ x.docked => x.at = q
DockedAtStation == \A s \in Ships : Stationed(ship[s])

\* The two mappings of the register say the same, in whatever order
\* transports report, and transports and stops are removed.
Agree(k) == \A s \in Ships, h \in Harbours :
              h \in k.transporters[s] <=> s \in k.stops[h]
TablesAgree == Agree(known)

\* Nobody is carried past his destination: of those aboard when the transport
\* reaches a harbour none is left there who travels to it and does not fight
\* (connect()).  That "reise mit" keeps a destination at which the player
\* already is, and then takes him for a round trip, is the exception.
Reaches(s) == ship'[s].docked /\ (~ship[s].docked \/ ship'[s].at # ship[s].at)
CarriedPast(p, s) ==
  env[p] = s /\ Travels(p, s) /\ p \notin fighting /\ DockedAt(s, info[p].to)

PutAshoreInTime ==
  [][\A s \in Ships : \A p \in Aboard(s) : Reaches(s) => ~CarriedPast(p, s)']_vars

-----------------------------------------------------------------------------
Serves(s, h) == Moving(s) /\ h \in Stops(ship[s].route) \ Broken

\* A transport that runs docks at every harbour of its route, unless somebody
\* intervenes: the chain of call_outs never breaks by itself.
ServesEveryStop ==
  \A s \in Ships, h \in Harbours, n \in 0 .. MaxEdits :
    Serves(s, h) /\ edits = n ~> DockedAt(s, h) \/ edits # n

\* Who waits for a transport comes aboard, unless it is full; who travels aboard
\* to a harbour of the route gets there.  Neither does if he fights, or the
\* transport stops or takes another route.
Waiting(p, s, h) == /\ env[p] = h /\ Serves(s, h)
                    /\ Travels(p, h) /\ info[p].with = s
Underway(p, s, h) == /\ env[p] = s /\ Serves(s, h)
                     /\ info[p] = [where |-> s, with |-> s, to |-> h]
JourneyEnds ==
  \A p \in Players, s \in Ships, h \in Harbours :
    /\ Waiting(p, s, h) ~> \/ ~Waiting(p, s, h) \/ p \in fighting
                           \/ Room(Cardinality(Aboard(s))) = 0
    /\ Underway(p, s, h) ~> ~Underway(p, s, h) \/ p \in fighting
=============================================================================
