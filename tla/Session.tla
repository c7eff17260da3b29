------------------------------- MODULE Session -------------------------------
(***************************************************************************)
(* The session of one character: the dialogue of the login objects         *)
(* (secure/login.c), the player object from start_player() over loss of    *)
(* the link and sleep to its end (std/player/base.c), and the table of     *)
(* the link-dead players (secure/simul_efun/livings.c).                    *)
(*                                                                         *)
(* All connections name the same character; what they are asked besides    *)
(* (mud played before, help on races, spelling) is left out.  A player     *)
(* object is named "race:name", so there is at most one of each race.      *)
(* Guests, who have no savefile, are left out.                             *)
(***************************************************************************)
EXTENDS Naturals, FiniteSets

CONSTANTS
  Conns,     \* connections; a login object lives as long as its connection
  Races,     \* the shells a new player can choose from
  Nil,       \* no object, the LPC value 0
  Kinds,     \* "new": a name nobody has used, "old", "wizard": IS_LEARNER()
  OldSaves,  \* whether an old savefile answers all questions of InitPlayer()
  MaxTimers  \* bound: pending call_outs of disconnect() that are told apart

ASSUME SessionAssumption ==
  /\ Cardinality(Races) >= 2 /\ Nil \notin Races
  /\ Kinds \subseteq {"new", "old", "wizard"}
  /\ OldSaves \subseteq {"partial", "full"}
  /\ MaxTimers \in Nat \ {0}
  /\ Races \cap {"off", "name", "newname", "newpw", "again", "pw", "race"} = {}

VARIABLES
  kind,     \* what the character is, chosen once
  disk,     \* the secure savefile and the savefile of the player object
  conn,     \* of each connection where its input goes, see Conn
  body,     \* the player objects
  netdead   \* netdead[name]

vars == <<kind, disk, conn, body, netdead>>

Dialogue == {"name", "newname", "newpw", "again", "pw", "race"}

\* The login object has read the name, see loginname().
Named == {"newpw", "again", "pw", "race"}

\* shell is the login object's variable, a copy of the one in the savefile.
Conn == [at : {"off"} \cup Dialogue \cup Races, shell : Races \cup {Nil}]
Off  == [at |-> "off", shell |-> Nil]

Body == [init     : BOOLEAN,         \* InitPlayer4() has run
         level    : {"-1", "1.."},   \* P_LEVEL
         asks     : BOOLEAN,         \* a question of InitPlayer() is open
         named    : BOOLEAN,         \* it has its living name
         hb       : BOOLEAN,         \* its heart beat is on
         timers   : 0 .. MaxTimers,  \* pending call_outs of disconnect()
         asleep   : BOOLEAN,         \* ndead_currently
         lasttime : BOOLEAN,         \* ndead_lasttime
         hb_obs   : BOOLEAN,         \* the heart beats of its things are stopped
         things   : BOOLEAN]         \* it carries things that are not saved

\* A player object is not the value 0.
ASSUME BodyAssumption == Nil \notin Body

Disk == [file  : BOOLEAN, shell : Races \cup {Nil},
         save  : {"none", "partial", "full"}]

Interactive(r) == \E c \in Conns : conn[c].at = r
Wizard == kind = "wizard"

Init ==
  /\ kind \in Kinds
  /\ \/ kind = "new" /\ disk = [file |-> FALSE, shell |-> Nil, save |-> "none"]
     \/ /\ kind # "new"
        /\ \E r \in Races, s \in OldSaves : disk = [file |-> TRUE, shell |-> r, save |-> s]
  /\ conn = [c \in Conns |-> Off]
  /\ body = [r \in Races |-> Nil]
  /\ netdead = Nil

-----------------------------------------------------------------------------
(* The player object.  m is [body, netdead], r the object.                 *)

Mud == [body |-> body, netdead |-> netdead]

\* Faulty variant: removes only one of the call_outs.
StopsOneTimer(b) ==
  [b EXCEPT !.init = TRUE, !.level = "1..", !.asks = FALSE, !.named = TRUE,
            !.hb = TRUE, !.timers = @ - 1]

InitPlayer4(b) ==
  [b EXCEPT !.init = TRUE, !.level = "1..", !.asks = FALSE, !.named = TRUE,
            !.hb = TRUE, !.timers = 0]

\* start_player() restores the object and asks what is missing.
StartPlayer(b) ==
  LET restored == [b EXCEPT !.timers = IF @ < MaxTimers THEN @ + 1 ELSE @,
                            !.level = IF disk.save = "none" THEN "-1" ELSE "1.."]
  IN IF disk.save = "full" THEN InitPlayer4(restored)
                           ELSE [restored EXCEPT !.asks = TRUE]

\* Faulty variant: takes the living name without _set_netdead().
NetDeadUnnoted(m, r) ==
  [m EXCEPT !.body[r].named = FALSE, !.body[r].asks = FALSE]

\* The question that was open is lost with the connection.
NetDead(m, r) ==
  [m EXCEPT !.body[r].named = FALSE, !.body[r].asks = FALSE, !.netdead = r]

\* A sleeping player is woken up, ndead_revive().
Reconnect(b) ==
  [b EXCEPT !.named = TRUE, !.hb = TRUE, !.hb_obs = FALSE, !.asleep = FALSE,
            !.lasttime = IF b.asleep THEN FALSE ELSE @]

Removed(m, r) ==
  [body |-> [m.body EXCEPT ![r] = Nil],
   netdead |-> IF m.netdead = r THEN Nil ELSE m.netdead]

\* Faulty variant: an object without its commands keeps its connection.
ClosedIfNamed(cs, r) ==
  [c \in Conns |-> IF cs[c].at = r /\ ~body[r].asks THEN Off ELSE cs[c]]

\* remove_interactive(), or the end of the object: its connection is closed.
Closed(cs, r) == [c \in Conns |-> IF cs[c].at = r THEN Off ELSE cs[c]]

Enters(m) == body' = m.body /\ netdead' = m.netdead

\* save_me(): what InitPlayer() has asked is saved with the rest.
SavedBy(r) == [disk EXCEPT !.save = IF body[r].init THEN "full" ELSE @]

Quit(r) ==
  /\ disk' = SavedBy(r)
  /\ conn' = Closed(conn, r)
  /\ Enters(Removed(Mud, r))

\* disconnect(): "schlafe ein", or called by a call_out.
Disconnect(m, r) ==
  IF Wizard THEN /\ disk' = SavedBy(r) /\ conn' = Closed(conn, r)
                 /\ Enters(Removed(m, r))
            ELSE /\ UNCHANGED disk /\ conn' = Closed(conn, r)
                 /\ Enters(IF Interactive(r) THEN NetDead(m, r) ELSE m)

-----------------------------------------------------------------------------
(* The login object.                                                       *)

\* Faulty variant: only players who are not link-dead are looked for.
FoundPlaying == {r \in Races : body[r] # Nil /\ body[r].named}

\* find_player() || find_netdead(): one of the living with this name.
Found ==
  LET playing == {r \in Races : body[r] # Nil /\ body[r].named} IN
  IF playing # {} THEN playing ELSE {netdead} \ {Nil}

\* A new player object takes the connection; one of the same name must go.
LoadBody(c, r) ==
  LET new == [init |-> FALSE, level |-> "-1", asks |-> FALSE, named |-> FALSE,
              hb |-> FALSE, timers |-> 0, asleep |-> FALSE, lasttime |-> FALSE,
              hb_obs |-> FALSE, things |-> FALSE]
      rest == IF body[r] = Nil THEN Mud ELSE Removed(Mud, r)
  IN /\ conn' = [Closed(conn, r) EXCEPT ![c] = [at |-> r, shell |-> Nil]]
     /\ Enters([rest EXCEPT !.body[r] = StartPlayer(new)])

\* The running object takes the connection, the one it had is closed first.
TakeOver(c, r) ==
  LET left == IF Interactive(r) THEN NetDead(Mud, r) ELSE Mud
      back == IF body[r].level = "-1"
                THEN [left EXCEPT !.body[r] = StartPlayer(left.body[r])]
                ELSE [left EXCEPT !.body[r] = Reconnect(left.body[r]), !.netdead = Nil]
  IN /\ conn' = [Closed(conn, r) EXCEPT ![c] = [at |-> r, shell |-> Nil]]
     /\ Enters(back)

Ends(c) == conn' = [conn EXCEPT ![c] = Off] /\ UNCHANGED <<body, netdead>>
Goes(c, to, sh) ==
  conn' = [conn EXCEPT ![c] = [at |-> to, shell |-> sh]] /\ UNCHANGED <<body, netdead>>

\* The game may be full or closed for players.
LoadPlayerObject(c, sh) ==
  \/ Ends(c)
  \/ \E r \in Found : TakeOver(c, r)
  \/ Found = {} /\ sh # Nil /\ LoadBody(c, sh)
  \/ Found = {} /\ sh = Nil /\ Goes(c, "race", Nil)

Logon(c) ==
  /\ conn[c].at = "off"
  /\ Goes(c, "name", Nil)
  /\ UNCHANGED <<kind, disk>>

\* "neu" instead of a name.
SayNew(c) ==
  /\ conn[c].at = "name"
  /\ Goes(c, "newname", Nil)
  /\ UNCHANGED <<kind, disk>>

\* The name of a character that exists: its savefile is read.
Logon2(c) ==
  /\ conn[c].at = "name" /\ disk.file
  /\ Goes(c, "pw", disk.shell)
  /\ UNCHANGED <<kind, disk>>

\* The name of a new character; there may be another login for it.
Logon2New(c) ==
  /\ conn[c].at = "newname" /\ ~disk.file
  /\ IF \E d \in Conns \ {c} : conn[d].at \in Named
       THEN Ends(c) ELSE Goes(c, "newpw", Nil)
  /\ UNCHANGED <<kind, disk>>

NewPassword(c) ==
  /\ conn[c].at = "newpw"
  /\ Goes(c, "again", Nil)
  /\ UNCHANGED <<kind, disk>>

\* The variables of the login object are written to the secure savefile.
SaveLogin(c) == [disk EXCEPT !.file = TRUE, !.shell = conn[c].shell]

AgainPassword(c) ==
  /\ conn[c].at = "again"
  /\ \/ UNCHANGED disk /\ Ends(c)
     \/ disk' = SaveLogin(c) /\ LoadPlayerObject(c, conn[c].shell)
  /\ UNCHANGED kind

\* A wrong password is saved too: it counts as a failed login.
CheckPassword(c) ==
  /\ conn[c].at = "pw"
  /\ disk' = SaveLogin(c)
  /\ Ends(c) \/ LoadPlayerObject(c, conn[c].shell)
  /\ UNCHANGED kind

GetRaceAnswer(c, r) ==
  /\ conn[c].at = "race"
  /\ disk' = [disk EXCEPT !.shell = r]
  /\ LoadBody(c, r)
  /\ UNCHANGED kind

\* Faulty variant: again_password() removes the call_out and sets no new one.
TimeOutBefore(c) ==
  /\ conn[c].at \in Dialogue \ {"race"}
  /\ Ends(c)
  /\ UNCHANGED <<kind, disk>>

TimeOut(c) ==
  /\ conn[c].at \in Dialogue
  /\ Ends(c)
  /\ UNCHANGED <<kind, disk>>

-----------------------------------------------------------------------------
(* The player, his link and the call_outs and heart beats of his object.   *)

Lives(r) == body[r] # Nil
Ready(r) == Lives(r) /\ body[r].named /\ Interactive(r)

\* The link is lost; a login object is left alone by the driver.
LinkLost(c) ==
  /\ conn[c].at # "off"
  /\ conn' = [conn EXCEPT ![c] = Off]
  /\ IF conn[c].at \in Races THEN Enters(NetDead(Mud, conn[c].at))
                             ELSE UNCHANGED <<body, netdead>>
  /\ UNCHANGED <<kind, disk>>

\* getmailaddr(), getgender(), gettty(): the last answer goes to InitPlayer4().
Answer(r) ==
  /\ Lives(r) /\ Interactive(r) /\ body[r].asks
  /\ body' = [body EXCEPT ![r] = InitPlayer4(@)]
  /\ UNCHANGED <<kind, disk, conn, netdead>>

\* He takes things that are not saved with him.
TakeThings(r) ==
  /\ Ready(r)
  /\ body' = [body EXCEPT ![r].things = TRUE]
  /\ UNCHANGED <<kind, disk, conn, netdead>>

SaveCharacter(r) ==
  /\ Ready(r)
  /\ disk' = SavedBy(r)
  /\ UNCHANGED <<kind, conn, body, netdead>>

QuitCommand(r) ==
  /\ Ready(r)
  /\ Quit(r)
  /\ UNCHANGED kind

SleepCommand(r) ==
  /\ Ready(r)
  /\ Disconnect(Mud, r)
  /\ UNCHANGED kind

\* Faulty variant: the call_out runs again after it was removed.
TimerUnguarded(r) ==
  /\ Lives(r)
  /\ Disconnect([Mud EXCEPT !.body[r].timers = @ - 1], r)
  /\ UNCHANGED kind

\* The call_out of start_player().
Timer(r) ==
  /\ Lives(r) /\ body[r].timers > 0
  /\ Disconnect([Mud EXCEPT !.body[r].timers = @ - 1], r)
  /\ UNCHANGED kind

\* The player is moved to the room of the link-dead, his things are stopped.
NdeadMoveMe(b) ==
  [b EXCEPT !.hb = FALSE, !.hb_obs = TRUE, !.asleep = TRUE, !.lasttime = FALSE]

\* Faulty variant: the mark of the first check does not last to the second.
HeartBeatForgets(r) ==
  /\ Lives(r) /\ body[r].hb /\ ~body[r].asleep
  /\ body' = [body EXCEPT ![r].lasttime = FALSE]
  /\ UNCHANGED <<kind, disk, conn, netdead>>

\* The beat that checks the link.  A player is put to sleep by the second
\* one in a row that finds him without link; a wizard is logged out.
HeartBeat(r) ==
  /\ Lives(r) /\ body[r].hb /\ ~body[r].asleep
  /\ IF ~Interactive(r) /\ body[r].lasttime
       THEN IF Wizard THEN Quit(r)
            ELSE /\ disk' = SavedBy(r)
                 /\ body' = [body EXCEPT ![r] = NdeadMoveMe(@)]
                 /\ UNCHANGED <<conn, netdead>>
       ELSE /\ body' = [body EXCEPT ![r].lasttime = ~Interactive(r)]
            /\ UNCHANGED <<disk, conn, netdead>>
  /\ UNCHANGED kind

\* The reset of a wizard's object.
Reset(r) ==
  /\ Wizard /\ Lives(r) /\ ~Interactive(r)
  /\ Quit(r)
  /\ UNCHANGED kind

CleanNetdead ==
  /\ netdead # Nil
  /\ Interactive(netdead)
  /\ netdead' = Nil
  /\ UNCHANGED <<kind, disk, conn, body>>

Reboot ==
  /\ conn' = [c \in Conns |-> Off] /\ body' = [r \in Races |-> Nil] /\ netdead' = Nil
  /\ UNCHANGED <<kind, disk>>

Next ==
  \/ \E c \in Conns :
       \/ Logon(c) \/ SayNew(c) \/ Logon2(c) \/ Logon2New(c) \/ NewPassword(c)
       \/ AgainPassword(c) \/ CheckPassword(c) \/ TimeOut(c) \/ LinkLost(c)
       \/ \E r \in Races : GetRaceAnswer(c, r)
  \/ \E r \in Races :
       \/ Answer(r) \/ TakeThings(r) \/ SaveCharacter(r) \/ QuitCommand(r)
       \/ SleepCommand(r) \/ Timer(r) \/ HeartBeat(r) \/ Reset(r)
  \/ CleanNetdead \/ Reboot

Spec == Init /\ [][Next]_vars

\* The driver runs call_outs, heart beats and resets.
Fairness ==
  /\ \A c \in Conns : WF_vars(TimeOut(c))
  /\ \A r \in Races : WF_vars(Timer(r)) /\ WF_vars(HeartBeat(r)) /\ WF_vars(Reset(r))

FairSpec == Spec /\ Fairness

-----------------------------------------------------------------------------
(* Properties.                                                             *)

\* The variables have their types, and a connection ends at a login object or
\* at a player object that exists (exec() and remove_interactive()).
TypeOK ==
  /\ kind \in Kinds /\ disk \in Disk
  /\ conn \in [Conns -> Conn]
  /\ body \in [Races -> Body \cup {Nil}]
  /\ netdead \in Races \cup {Nil}
  /\ \A c \in Conns : conn[c].at \in Races => Lives(conn[c].at)

\* load_player_object() closes the connection a player object has before it
\* gives it another one: nobody is heard by two connections.
OneConnection ==
  \A c, d \in Conns : conn[c].at = conn[d].at /\ conn[c].at \in Races => c = d

\* A character that has its shell is found whenever its object is in the game
\* without a link, by its living name or among the link-dead: the next login
\* takes the object back instead of loading it anew.
LinkDeadIsFound ==
  kind # "new" => \A r \in Races : Lives(r) /\ ~Interactive(r) => r \in Found

\* A player who has his commands has run through InitPlayer4(), and no
\* call_out is left that would throw him out ten minutes after his login.
NamedIsInitialised ==
  \A r \in Races : Lives(r) /\ body[r].named => body[r].init /\ body[r].timers = 0

\* stop_heart_beats() is undone by every way back into the game: the things
\* of a player who is awake beat, those of a sleeping one do not, and he does
\* not either ("Niemals zweimal hintereinander rufen").
HeartBeatsPaired ==
  \A r \in Races : Lives(r) =>
    /\ body[r].hb_obs = body[r].asleep
    /\ body[r].asleep => ~body[r].hb /\ ~body[r].named

\* "Du behaeltst Deine Sachen": no login replaces the object of a character
\* that has its shell, however many connections race for it.
ThingsKept ==
  [][\A r \in Races : kind # "new" /\ Lives(r) /\ body[r].things =>
        body'[r] = Nil \/ body'[r].things]_vars

\* Whoever loses his link in the game comes back, falls asleep or is logged out.
LinkDeadSleeps ==
  \A r \in Races :
    Lives(r) /\ body[r].init /\ ~Interactive(r)
      ~> (~Lives(r) \/ Interactive(r) \/ body[r].asleep)

\* A connection does not stay in the dialogue of the login object, and a player
\* not at the questions of InitPlayer().
DialoguesEnd ==
  /\ \A c \in Conns : conn[c].at \in Dialogue ~> conn[c].at \notin Dialogue
  /\ \A r \in Races : Lives(r) /\ body[r].asks ~> ~(Lives(r) /\ body[r].asks)

\* "If the user is already logged in, he will be reconnected to the running
\* object." (login.c:13-14)  A character is in the game once.
OneBody == Cardinality({r \in Races : Lives(r)}) <= 1
=============================================================================
