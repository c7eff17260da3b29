---------------------------- MODULE SessionProofs ----------------------------
(***************************************************************************)
(* Theorems about the session of a character, for any number of            *)
(* connections and races and for every kind of character and savefile.     *)
(***************************************************************************)
EXTENDS Session, TLAPS

-----------------------------------------------------------------------------
(* The inductive invariant.                                                *)

\* What is true of a player object besides HeartBeatsPaired, i: whether it has
\* a connection.  Only then it has commands and questions, and before its level
\* is known it is neither awake nor asleep and carries nothing.
Sound(b, i) ==
  /\ b.hb_obs = b.asleep
  /\ b.asleep => ~b.hb /\ ~b.named
  /\ b.named => i
  /\ b.asks => i /\ ~b.asleep
  /\ b.level = "-1" => ~b.asleep /\ ~b.hb /\ ~b.named /\ ~b.things
  /\ b.things => b.named \/ ~i

Awake == \A r \in Races : Lives(r) => Sound(body[r], Interactive(r))

\* A character that has its shell is in no other one, and its object is in the
\* table of the link-dead as long as it has no connection.
SettledIn(d) ==
  /\ d.file /\ d.shell # Nil
  /\ \A c \in Conns : /\ conn[c].at \notin {"newpw", "again", "race"}
                      /\ conn[c].at = "pw" => conn[c].shell = d.shell
  /\ \A r \in Races : Lives(r) => r = d.shell /\ (Interactive(r) \/ netdead = r)
Settled == kind # "new" => SettledIn(disk)

\* The table holds objects that exist.
Listed == netdead # Nil => Lives(netdead)

IInv == TypeOK /\ OneConnection /\ Awake /\ Settled /\ Listed

LEMMA Initially == Init => IInv
<1> SUFFICES ASSUME Init PROVE IInv
  OBVIOUS
<1>1. TypeOK
  <2>1. kind \in Kinds
    BY DEF Init
  <2>2. disk \in Disk
    <3>1. CASE disk = [file |-> FALSE, shell |-> Nil, save |-> "none"]
      BY <3>1 DEF Disk
    <3>2. CASE \E r \in Races, s \in OldSaves : disk = [file |-> TRUE, shell |-> r, save |-> s]
      BY <3>2, SessionAssumption DEF Disk
    <3> QED BY <3>1, <3>2 DEF Init
  <2>3. conn \in [Conns -> Conn] /\ \A c \in Conns : conn[c].at \notin Races
    BY SessionAssumption DEF Init, Conn, Off
  <2> QED BY <2>1, <2>2, <2>3 DEF Init, TypeOK
<1>2. OneConnection
  BY SessionAssumption DEF Init, Off, OneConnection
<1>3. Awake
  BY DEF Init, Awake, Lives
<1>4. Settled
  BY SessionAssumption DEF Init, Settled, SettledIn, Lives, Off
<1>5. Listed
  BY DEF Init, Listed
<1> QED BY <1>1, <1>2, <1>3, <1>4, <1>5 DEF IInv

-----------------------------------------------------------------------------
(* What the steps are made of.                                             *)

\* The files of a character that has its shell are only written with it.
Keeps == /\ kind' = kind /\ disk' \in Disk
         /\ kind # "new" => disk'.file /\ disk'.shell = disk.shell

\* A login object goes on or ends; no player object is touched.
LEMMA DialogueStep ==
  ASSUME IInv, Keeps,
         NEW c \in Conns, NEW to \in {"off"} \cup Dialogue, NEW sh \in Races \cup {Nil},
         conn[c].at \notin Races, Goes(c, to, sh),
         kind # "new" => to \notin {"newpw", "again", "race"} /\ (to = "pw" => sh = disk.shell)
  PROVE  IInv'
<1>1. /\ conn \in [Conns -> Conn] /\ body' = body /\ netdead' = netdead
      /\ conn' = [conn EXCEPT ![c] = [at |-> to, shell |-> sh]]
  BY DEF IInv, TypeOK, Goes
<1>2. to \notin Races
  BY SessionAssumption DEF Dialogue
<1>3. conn' \in [Conns -> Conn]
  BY <1>1 DEF Conn
<1>4. \A d \in Conns : d # c => conn'[d] = conn[d]
  BY <1>1
<1>5. conn'[c].at = to /\ conn'[c].shell = sh
  BY <1>1
<1>6. \A r \in Races : Interactive(r)' <=> Interactive(r)
  BY <1>2, <1>4, <1>5 DEF Interactive
<1>7. TypeOK'
  BY <1>1, <1>2, <1>3, <1>4, <1>5 DEF IInv, TypeOK, Lives, Keeps
<1>8. OneConnection'
  BY <1>2, <1>4, <1>5 DEF IInv, OneConnection
<1>9. Awake'
  BY <1>1, <1>6 DEF IInv, Awake, Lives, Sound
<1>10. Settled'
  BY <1>1, <1>4, <1>5, <1>6 DEF IInv, Settled, SettledIn, Keeps, Lives
<1>11. Listed'
  BY <1>1, <1>2 DEF IInv, Listed, Lives, TypeOK
<1> QED BY <1>7, <1>8, <1>9, <1>10, <1>11 DEF IInv

\* A player object changes, its connection does not.
LEMMA BodyStep ==
  ASSUME IInv, Keeps,
         NEW r \in Races, NEW b \in Body, Lives(r), Sound(b, Interactive(r)),
         body' = [body EXCEPT ![r] = b], UNCHANGED <<conn, netdead>>
  PROVE  IInv'
<1>1. body \in [Races -> Body \cup {Nil}] /\ body'[r] = b /\ \A s \in Races : s # r => body'[s] = body[s]
  BY DEF IInv, TypeOK
<1>2. \A s \in Races : Lives(s)' <=> Lives(s)
  BY <1>1, BodyAssumption DEF Lives
<1>3. \A s \in Races : Interactive(s)' <=> Interactive(s)
  BY DEF Interactive
<1>4. TypeOK'
  BY <1>1, <1>2 DEF IInv, TypeOK, Keeps
<1>5. OneConnection'
  BY DEF IInv, OneConnection
<1>6. Awake'
  BY <1>1, <1>2, <1>3 DEF IInv, Awake, Sound
<1>7. Settled'
  BY <1>2, <1>3 DEF IInv, Settled, SettledIn, Keeps
<1>8. Listed'
  BY <1>2 DEF IInv, Listed, TypeOK
<1> QED BY <1>4, <1>5, <1>6, <1>7, <1>8 DEF IInv

\* A player object loses its connection and is noted in the table.
LEMMA NetDeadStep ==
  ASSUME IInv, Keeps,
         NEW r \in Races, NEW b \in Body, Lives(r), Sound(b, FALSE),
         body' = [body EXCEPT ![r] = b], netdead' = r, conn' = Closed(conn, r)
  PROVE  IInv'
<1>1. body \in [Races -> Body \cup {Nil}] /\ body'[r] = b /\ \A s \in Races : s # r => body'[s] = body[s]
  BY DEF IInv, TypeOK
<1>2. \A s \in Races : Lives(s)' <=> Lives(s)
  BY <1>1, BodyAssumption DEF Lives
<1>3. \A d \in Conns : conn'[d] = IF conn[d].at = r THEN Off ELSE conn[d]
  BY DEF Closed
<1>4. Off \in Conn /\ Off.at = "off" /\ "off" \notin Races
  BY SessionAssumption DEF Off, Conn
<1>5. conn' \in [Conns -> Conn]
  BY <1>3, <1>4 DEF Closed, IInv, TypeOK
<1>6. ~Interactive(r)' /\ \A s \in Races : s # r => (Interactive(s)' <=> Interactive(s))
  BY <1>3, <1>4 DEF Interactive
<1>7. TypeOK'
  BY <1>1, <1>2, <1>3, <1>4, <1>5 DEF IInv, TypeOK, Keeps
<1>8. OneConnection'
  BY <1>3, <1>4 DEF IInv, OneConnection
<1>9. Awake'
  BY <1>1, <1>2, <1>6 DEF IInv, Awake, Sound
<1>10. Settled'
  BY <1>2, <1>3, <1>4, <1>6 DEF IInv, Settled, SettledIn, Keeps
<1>11. Listed'
  BY <1>1, <1>2 DEF IInv, Listed, Lives, TypeOK
<1> QED BY <1>7, <1>8, <1>9, <1>10, <1>11 DEF IInv

\* A player object and its connection end.
LEMMA RemovedStep ==
  ASSUME IInv, Keeps, NEW r \in Races,
         body' = [body EXCEPT ![r] = Nil],
         netdead' = IF netdead = r THEN Nil ELSE netdead, conn' = Closed(conn, r)
  PROVE  IInv'
<1>1. body \in [Races -> Body \cup {Nil}] /\ body'[r] = Nil /\ \A s \in Races : s # r => body'[s] = body[s]
  BY DEF IInv, TypeOK
<1>2. ~Lives(r)' /\ \A s \in Races : s # r => (Lives(s)' <=> Lives(s))
  BY <1>1 DEF Lives
<1>3. \A d \in Conns : conn'[d] = IF conn[d].at = r THEN Off ELSE conn[d]
  BY DEF Closed
<1>4. Off \in Conn /\ Off.at = "off" /\ "off" \notin Races
  BY SessionAssumption DEF Off, Conn
<1>5. conn' \in [Conns -> Conn]
  BY <1>3, <1>4 DEF Closed, IInv, TypeOK
<1>6. \A s \in Races : s # r => (Interactive(s)' <=> Interactive(s))
  BY <1>3, <1>4 DEF Interactive
<1>7. TypeOK'
  BY <1>1, <1>2, <1>3, <1>4, <1>5 DEF IInv, TypeOK, Keeps
<1>8. OneConnection'
  BY <1>3, <1>4 DEF IInv, OneConnection
<1>9. Awake'
  BY <1>1, <1>2, <1>6 DEF IInv, Awake, Sound
<1>10. Settled'
  BY <1>2, <1>3, <1>4, <1>6 DEF IInv, Settled, SettledIn, Keeps
<1>11. Listed'
  BY <1>1, <1>2 DEF IInv, Listed, Lives, TypeOK
<1> QED BY <1>7, <1>8, <1>9, <1>10, <1>11 DEF IInv

\* A connection goes from its login object to a player object, new or old.
LEMMA AttachStep ==
  ASSUME IInv, Keeps,
         NEW c \in Conns, NEW r \in Races, NEW b \in Body, conn[c].at \notin Races,
         Sound(b, TRUE), body' = [body EXCEPT ![r] = b], netdead' \in {Nil, netdead, r},
         conn' = [Closed(conn, r) EXCEPT ![c] = [at |-> r, shell |-> Nil]],
         kind # "new" => r = disk.shell
  PROVE  IInv'
<1>1. body \in [Races -> Body \cup {Nil}] /\ body'[r] = b /\ \A s \in Races : s # r => body'[s] = body[s]
  BY DEF IInv, TypeOK
<1>2. Lives(r)' /\ \A s \in Races : s # r => (Lives(s)' <=> Lives(s))
  BY <1>1, BodyAssumption DEF Lives
<1>3. /\ conn'[c] = [at |-> r, shell |-> Nil]
      /\ \A d \in Conns : d # c => conn'[d] = IF conn[d].at = r THEN Off ELSE conn[d]
  BY DEF Closed
<1>4. Off \in Conn /\ Off.at = "off" /\ "off" \notin Races
  BY SessionAssumption DEF Off, Conn
<1>5. conn' \in [Conns -> Conn]
  <2>1. Closed(conn, r) \in [Conns -> Conn]
    BY <1>4 DEF Closed, IInv, TypeOK
  <2>2. [at |-> r, shell |-> Nil] \in Conn
    BY DEF Conn
  <2> QED BY <2>1, <2>2
<1>6. Interactive(r)' /\ \A s \in Races : s # r => (Interactive(s)' <=> Interactive(s))
  BY <1>3, <1>4 DEF Interactive
<1>7. TypeOK'
  BY <1>1, <1>2, <1>3, <1>4, <1>5 DEF IInv, TypeOK, Keeps
<1>8. OneConnection'
  BY <1>3, <1>4 DEF IInv, OneConnection
<1>9. Awake'
  BY <1>1, <1>2, <1>6 DEF IInv, Awake, Sound
<1>10. Settled'
  <2>1. r \notin {"newpw", "again", "race", "pw"}
    BY SessionAssumption
  <2> QED BY <1>2, <1>3, <1>4, <1>6, <2>1 DEF IInv, Settled, SettledIn, Keeps
<1>11. Listed'
  BY <1>1, <1>2 DEF IInv, Listed, Lives, TypeOK
<1> QED BY <1>7, <1>8, <1>9, <1>10, <1>11 DEF IInv

-----------------------------------------------------------------------------
(* What start_player() and the others make of a player object.             *)

LEMMA StartPlayerSound ==
  ASSUME disk \in Disk, NEW b \in Body, b.level = "-1", b.hb_obs = b.asleep,
         ~b.asleep, ~b.hb, ~b.named, ~b.things
  PROVE  StartPlayer(b) \in Body /\ Sound(StartPlayer(b), TRUE)
<1> DEFINE t == IF b.timers < MaxTimers THEN b.timers + 1 ELSE b.timers
           l == IF disk.save = "none" THEN "-1" ELSE "1.."
           restored == [b EXCEPT !.timers = t, !.level = l]
<1>1. t \in 0 .. MaxTimers /\ 0 \in 0 .. MaxTimers
  BY SessionAssumption DEF Body
<1>2. l \in {"-1", "1.."}
  OBVIOUS
<1>3. /\ restored \in Body /\ restored.hb_obs = b.hb_obs /\ restored.asleep = b.asleep
      /\ ~restored.hb /\ ~restored.named /\ ~restored.things
  BY <1>1, <1>2 DEF Body
<1>4. StartPlayer(b) = IF disk.save = "full" THEN InitPlayer4(restored)
                                             ELSE [restored EXCEPT !.asks = TRUE]
  BY DEF StartPlayer
<1> HIDE DEF restored
<1> QED BY <1>1, <1>3, <1>4 DEF InitPlayer4, Body, Sound

\* The object of a connection that goes: its questions and commands go too.
LEMMA NetDeadSound ==
  ASSUME NEW b \in Body, NEW i \in BOOLEAN, Sound(b, i)
  PROVE  /\ [b EXCEPT !.named = FALSE, !.asks = FALSE] \in Body
         /\ Sound([b EXCEPT !.named = FALSE, !.asks = FALSE], FALSE)
BY DEF Body, Sound

LEMMA ReconnectSound ==
  ASSUME NEW b \in Body, Sound(b, FALSE), b.level # "-1"
  PROVE  Reconnect(b) \in Body /\ Sound(Reconnect(b), TRUE)
BY DEF Body, Sound, Reconnect

LEMMA NetDeadIsPlain ==
  ASSUME IInv, NEW r \in Races, Lives(r)
  PROVE  /\ NetDead(Mud, r).body = [body EXCEPT ![r] = [body[r] EXCEPT !.named = FALSE, !.asks = FALSE]]
         /\ NetDead(Mud, r).netdead = r
<1>1. body[r] \in Body /\ body \in [Races -> Body \cup {Nil}]
  BY DEF IInv, TypeOK, Lives
<1> QED BY <1>1 DEF Mud, NetDead, Body

LEMMA NetDeadIs ==
  ASSUME IInv, NEW r \in Races, Lives(r), NEW t \in 0 .. MaxTimers
  PROVE  LET b == [body[r] EXCEPT !.timers = t]
             m == [Mud EXCEPT !.body[r].timers = t]
         IN /\ b \in Body /\ Sound(b, Interactive(r))
            /\ m.body = [body EXCEPT ![r] = b] /\ m.netdead = netdead
            /\ NetDead(m, r).body = [body EXCEPT ![r] = [b EXCEPT !.named = FALSE, !.asks = FALSE]]
            /\ NetDead(m, r).netdead = r
<1>1. body[r] \in Body /\ body \in [Races -> Body \cup {Nil}] /\ Sound(body[r], Interactive(r))
  BY DEF IInv, TypeOK, Lives, Awake
<1> QED BY <1>1 DEF Mud, NetDead, Body, Sound

-----------------------------------------------------------------------------
(* The steps of the player object.                                         *)

LEMMA SavedByKeeps ==
  ASSUME disk \in Disk, NEW r \in Races
  PROVE  SavedBy(r) \in Disk /\ SavedBy(r).file = disk.file /\ SavedBy(r).shell = disk.shell
BY DEF SavedBy, Disk

\* With or without a call_out taken off before.
LEMMA QuitStep ==
  ASSUME IInv, NEW r \in Races, kind' = kind, disk' = SavedBy(r),
         body' = [body EXCEPT ![r] = Nil],
         netdead' = IF netdead = r THEN Nil ELSE netdead, conn' = Closed(conn, r)
  PROVE  IInv'
<1>1. Keeps
  BY SavedByKeeps DEF IInv, TypeOK, Keeps, Settled, SettledIn
<1> QED BY <1>1, RemovedStep

LEMMA QuitIs ==
  ASSUME IInv, NEW r \in Races, kind' = kind, Quit(r)
  PROVE  IInv'
<1>1. /\ disk' = SavedBy(r) /\ conn' = Closed(conn, r)
      /\ body' = [body EXCEPT ![r] = Nil]
      /\ netdead' = IF netdead = r THEN Nil ELSE netdead
  BY DEF Quit, Enters, Removed, Mud
<1> QED BY <1>1, QuitStep

LEMMA DisconnectStep ==
  ASSUME IInv, NEW r \in Races, Lives(r), kind' = kind, NEW t \in 0 .. MaxTimers,
         Disconnect([Mud EXCEPT !.body[r].timers = t], r)
  PROVE  IInv'
<1> DEFINE b == [body[r] EXCEPT !.timers = t]
           m == [Mud EXCEPT !.body[r].timers = t]
           left == [b EXCEPT !.named = FALSE, !.asks = FALSE]
<1>1. /\ b \in Body /\ Sound(b, Interactive(r))
      /\ m.body = [body EXCEPT ![r] = b] /\ m.netdead = netdead
      /\ NetDead(m, r).body = [body EXCEPT ![r] = left] /\ NetDead(m, r).netdead = r
  BY NetDeadIs
<1>2. Interactive(r) \in BOOLEAN
  BY DEF Interactive
<1>3. left \in Body /\ Sound(left, FALSE)
  BY <1>1, <1>2, NetDeadSound
<1> HIDE DEF b, m, left
<1>4. CASE Wizard
  <2>1. /\ disk' = SavedBy(r) /\ conn' = Closed(conn, r)
        /\ body' = [m.body EXCEPT ![r] = Nil]
        /\ netdead' = IF m.netdead = r THEN Nil ELSE m.netdead
    BY <1>4 DEF Disconnect, Enters, Removed, m
  <2>2. body' = [body EXCEPT ![r] = Nil]
    BY <1>1, <2>1
  <2> QED BY <1>1, <2>1, <2>2, QuitStep
<1>5. CASE ~Wizard /\ Interactive(r)
  <2>1. disk' = disk /\ conn' = Closed(conn, r) /\ Enters(NetDead(m, r))
    BY <1>5 DEF Disconnect, m
  <2>2. body' = [body EXCEPT ![r] = left] /\ netdead' = r
    BY <1>1, <2>1 DEF Enters
  <2>3. Keeps
    BY <2>1 DEF IInv, TypeOK, Keeps, Settled, SettledIn
  <2> QED BY <1>3, <2>1, <2>2, <2>3, NetDeadStep
<1>6. CASE ~Wizard /\ ~Interactive(r)
  <2>1. disk' = disk /\ conn' = Closed(conn, r) /\ Enters(m)
    BY <1>6 DEF Disconnect, m
  <2>2. body' = [body EXCEPT ![r] = b] /\ netdead' = netdead
    BY <1>1, <2>1 DEF Enters
  <2>3. conn' = conn
    BY <1>6, <2>1 DEF Closed, Interactive, IInv, TypeOK
  <2>4. Keeps
    BY <2>1 DEF IInv, TypeOK, Keeps, Settled, SettledIn
  <2> QED BY <1>1, <2>2, <2>3, <2>4, BodyStep
<1> QED BY <1>4, <1>5, <1>6

LEMMA LinkLostStep ==
  ASSUME IInv, NEW c \in Conns, LinkLost(c)
  PROVE  IInv'
<1>1. Keeps
  BY DEF LinkLost, IInv, TypeOK, Keeps, Settled, SettledIn
<1>2. CASE conn[c].at \in Races
  <2> DEFINE r == conn[c].at
             left == [body[r] EXCEPT !.named = FALSE, !.asks = FALSE]
  <2>1. r \in Races /\ Lives(r) /\ Interactive(r) /\ body[r] \in Body /\ Sound(body[r], TRUE)
    BY <1>2 DEF IInv, TypeOK, Lives, Interactive, Awake, Sound
  <2>3. NetDead(Mud, r).body = [body EXCEPT ![r] = left] /\ NetDead(Mud, r).netdead = r
    BY <2>1, NetDeadIsPlain
  <2>4. left \in Body /\ Sound(left, FALSE)
    BY <2>1, NetDeadSound
  <2>5. conn' = [conn EXCEPT ![c] = Off]
    BY DEF LinkLost
  <2>6. conn' = Closed(conn, r)
    BY <1>2, <2>5 DEF Closed, IInv, TypeOK, OneConnection
  <2>7. body' = [body EXCEPT ![r] = left] /\ netdead' = r
    BY <1>2, <2>3 DEF LinkLost, Enters
  <2> HIDE DEF r, left
  <2> QED BY <1>1, <2>1, <2>4, <2>6, <2>7, NetDeadStep
<1>3. CASE conn[c].at \notin Races
  <2>1. Goes(c, "off", Nil)
    BY <1>3 DEF LinkLost, Goes, Off
  <2> QED BY <1>1, <1>3, <2>1, DialogueStep
<1> QED BY <1>2, <1>3

LEMMA AnswerStep ==
  ASSUME IInv, NEW r \in Races, Answer(r)
  PROVE  IInv'
<1>1. body[r] \in Body /\ Sound(body[r], TRUE) /\ body[r].asks
  BY DEF Answer, IInv, TypeOK, Awake, Lives, Sound
<1>2. Keeps /\ Interactive(r) /\ Lives(r)
  BY DEF Answer, IInv, TypeOK, Keeps, Settled, SettledIn
<1>3. InitPlayer4(body[r]) \in Body /\ Sound(InitPlayer4(body[r]), Interactive(r))
  <2>1. 0 \in 0 .. MaxTimers
    BY SessionAssumption
  <2> QED BY <1>1, <1>2, <2>1 DEF InitPlayer4, Body, Sound
<1>4. body' = [body EXCEPT ![r] = InitPlayer4(body[r])] /\ UNCHANGED <<conn, netdead>>
  BY DEF Answer
<1> QED BY <1>2, <1>3, <1>4, BodyStep

LEMMA TakeThingsStep ==
  ASSUME IInv, NEW r \in Races, TakeThings(r)
  PROVE  IInv'
<1> DEFINE b == [body[r] EXCEPT !.things = TRUE]
<1>1. body[r] \in Body /\ Sound(body[r], Interactive(r)) /\ body[r].named
  BY DEF TakeThings, Ready, IInv, TypeOK, Awake, Lives
<1>2. b \in Body /\ Sound(b, Interactive(r))
  BY <1>1 DEF Body, Sound
<1>3. body' = [body EXCEPT ![r] = b] /\ UNCHANGED <<conn, netdead>>
  BY DEF TakeThings
<1>4. Keeps /\ Lives(r)
  BY DEF TakeThings, Ready, IInv, TypeOK, Keeps, Settled, SettledIn
<1> QED BY <1>2, <1>3, <1>4, BodyStep

LEMMA HeartBeatStep ==
  ASSUME IInv, NEW r \in Races, HeartBeat(r)
  PROVE  IInv'
<1>1. /\ body[r] \in Body /\ Sound(body[r], Interactive(r)) /\ Lives(r) /\ kind' = kind
      /\ body[r].hb
  BY DEF HeartBeat, IInv, TypeOK, Awake, Lives
<1>2. CASE ~Interactive(r) /\ body[r].lasttime /\ Wizard
  BY <1>1, <1>2, QuitIs DEF HeartBeat
<1>3. CASE ~Interactive(r) /\ body[r].lasttime /\ ~Wizard
  <2>1. NdeadMoveMe(body[r]) \in Body /\ Sound(NdeadMoveMe(body[r]), Interactive(r))
    BY <1>1, <1>3 DEF NdeadMoveMe, Body, Sound
  <2>2. Keeps
    BY <1>1, <1>3, SavedByKeeps DEF HeartBeat, IInv, TypeOK, Keeps, Settled, SettledIn
  <2>3. body' = [body EXCEPT ![r] = NdeadMoveMe(body[r])] /\ UNCHANGED <<conn, netdead>>
    BY <1>3 DEF HeartBeat
  <2> QED BY <1>1, <2>1, <2>2, <2>3, BodyStep
<1>4. CASE Interactive(r) \/ ~body[r].lasttime
  <2> DEFINE b == [body[r] EXCEPT !.lasttime = ~Interactive(r)]
  <2>1. b \in Body /\ Sound(b, Interactive(r))
    <3>1. (~Interactive(r)) \in BOOLEAN
      OBVIOUS
    <3> QED BY <1>1, <3>1 DEF Body, Sound
  <2>2. Keeps
    BY <1>1, <1>4 DEF HeartBeat, IInv, TypeOK, Keeps, Settled, SettledIn
  <2>3. body' = [body EXCEPT ![r] = b] /\ UNCHANGED <<conn, netdead>>
    BY <1>4 DEF HeartBeat
  <2> QED BY <1>1, <2>1, <2>2, <2>3, BodyStep
<1> QED BY <1>2, <1>3, <1>4

-----------------------------------------------------------------------------
(* The steps of the login object.                                          *)

LEMMA LoadBodyStep ==
  ASSUME IInv, Keeps, NEW c \in Conns, conn[c].at \notin Races, NEW r \in Races,
         kind # "new" => r = disk.shell, LoadBody(c, r)
  PROVE  IInv'
<1> DEFINE new == [init |-> FALSE, level |-> "-1", asks |-> FALSE, named |-> FALSE,
                   hb |-> FALSE, timers |-> 0, asleep |-> FALSE, lasttime |-> FALSE,
                   hb_obs |-> FALSE, things |-> FALSE]
           b == StartPlayer(new)
           rest == IF body[r] = Nil THEN Mud ELSE Removed(Mud, r)
<1>1. new \in Body
  <2>1. 0 \in 0 .. MaxTimers
    BY SessionAssumption
  <2> QED BY <2>1 DEF Body
<1>2. b \in Body /\ Sound(b, TRUE)
  <2>1. disk \in Disk
    BY DEF IInv, TypeOK
  <2> QED BY <1>1, <2>1, StartPlayerSound
<1> HIDE DEF b
<1>3. /\ conn' = [Closed(conn, r) EXCEPT ![c] = [at |-> r, shell |-> Nil]]
      /\ Enters([rest EXCEPT !.body[r] = b])
  BY DEF LoadBody, b
<1>4. /\ rest.body = IF body[r] = Nil THEN body ELSE [body EXCEPT ![r] = Nil]
      /\ rest.netdead \in {Nil, netdead}
      /\ [rest EXCEPT !.body[r] = b].body = [rest.body EXCEPT ![r] = b]
      /\ [rest EXCEPT !.body[r] = b].netdead = rest.netdead
  BY DEF Mud, Removed
<1>5. body' = [body EXCEPT ![r] = b] /\ netdead' \in {Nil, netdead, r}
  <2>1. body \in [Races -> Body \cup {Nil}]
    BY DEF IInv, TypeOK
  <2> HIDE DEF rest
  <2>2. body' = [rest.body EXCEPT ![r] = b] /\ netdead' = rest.netdead
    BY <1>3, <1>4 DEF Enters
  <2> QED BY <1>4, <2>1, <2>2
<1> QED BY <1>2, <1>3, <1>5, AttachStep

\* Who is found exists, and is in the shell of a character that has one.
LEMMA FoundLives ==
  ASSUME IInv, NEW r \in Found
  PROVE  r \in Races /\ Lives(r) /\ (kind # "new" => r = disk.shell)
BY DEF Found, IInv, TypeOK, Listed, Lives, Settled, SettledIn

LEMMA TakeOverStep ==
  ASSUME IInv, Keeps, NEW c \in Conns, conn[c].at \notin Races, NEW r \in Found, TakeOver(c, r)
  PROVE  IInv'
<1> DEFINE off == [body[r] EXCEPT !.named = FALSE, !.asks = FALSE]
           was == IF Interactive(r) THEN off ELSE body[r]
           left == IF Interactive(r) THEN NetDead(Mud, r) ELSE Mud
           b == IF body[r].level = "-1" THEN StartPlayer(was) ELSE Reconnect(was)
<1>1. r \in Races /\ Lives(r) /\ (kind # "new" => r = disk.shell)
  BY FoundLives
<1>2. body \in [Races -> Body \cup {Nil}] /\ body[r] \in Body /\ Sound(body[r], Interactive(r))
  BY <1>1 DEF IInv, TypeOK, Lives, Awake
<1>3. was \in Body /\ Sound(was, FALSE) /\ was.level = body[r].level
  <2>1. CASE Interactive(r)
    BY <1>2, <2>1, NetDeadSound DEF Body
  <2>2. CASE ~Interactive(r)
    BY <1>2, <2>2 DEF Sound
  <2> QED BY <2>1, <2>2
<1>4. left.body = [body EXCEPT ![r] = was] /\ left.netdead \in {netdead, r}
  <2>1. CASE Interactive(r)
    BY <1>1, <2>1, NetDeadIsPlain
  <2>2. CASE ~Interactive(r)
    BY <1>2, <2>2 DEF Mud
  <2> QED BY <2>1, <2>2
<1>5. b \in Body /\ Sound(b, TRUE)
  <2> HIDE DEF was
  <2>1. CASE body[r].level = "-1"
    <3>1. disk \in Disk
      BY DEF IInv, TypeOK
    <3> QED BY <1>3, <2>1, <3>1, StartPlayerSound DEF Sound
  <2>2. CASE body[r].level # "-1"
    BY <1>3, <2>2, ReconnectSound
  <2> QED BY <2>1, <2>2
<1>6. left.body[r] = was
  BY <1>1, <1>2, <1>4
<1>7. conn' = [Closed(conn, r) EXCEPT ![c] = [at |-> r, shell |-> Nil]]
  BY DEF TakeOver
<1>8. body' = [body EXCEPT ![r] = b] /\ netdead' \in {Nil, netdead, r}
  <2>1. /\ [left EXCEPT !.body[r] = b].body = [left.body EXCEPT ![r] = b]
        /\ [left EXCEPT !.body[r] = b].netdead = left.netdead
        /\ [left EXCEPT !.body[r] = b, !.netdead = Nil].body = [left.body EXCEPT ![r] = b]
        /\ [left EXCEPT !.body[r] = b, !.netdead = Nil].netdead = Nil
    <3> HIDE DEF b
    <3> QED BY DEF Mud, NetDead
  <2>2. Enters(IF body[r].level = "-1" THEN [left EXCEPT !.body[r] = b]
               ELSE [left EXCEPT !.body[r] = b, !.netdead = Nil])
    BY <1>6 DEF TakeOver
  <2> HIDE DEF left, b, was
  <2>3. body' = [left.body EXCEPT ![r] = b] /\ netdead' \in {Nil, left.netdead}
    BY <2>1, <2>2 DEF Enters
  <2> QED BY <1>2, <1>4, <2>3
<1> HIDE DEF b
<1> QED BY <1>1, <1>5, <1>7, <1>8, AttachStep

LEMMA LoadPlayerObjectStep ==
  ASSUME IInv, Keeps, NEW c \in Conns, conn[c].at \notin Races, NEW sh \in Races \cup {Nil},
         kind # "new" => sh = disk.shell, LoadPlayerObject(c, sh)
  PROVE  IInv'
<1>1. CASE Ends(c)
  <2>1. Goes(c, "off", Nil)
    BY <1>1 DEF Ends, Goes, Off
  <2> QED BY <2>1, DialogueStep
<1>2. CASE \E r \in Found : TakeOver(c, r)
  BY <1>2, TakeOverStep
<1>3. CASE sh # Nil /\ LoadBody(c, sh)
  BY <1>3, LoadBodyStep
<1>4. CASE sh = Nil /\ Goes(c, "race", Nil)
  <2>1. kind = "new"
    BY <1>4 DEF IInv, Settled, SettledIn
  <2> QED BY <1>4, <2>1, DialogueStep DEF Dialogue
<1> QED BY <1>1, <1>2, <1>3, <1>4 DEF LoadPlayerObject

LEMMA SaveLoginKeeps ==
  ASSUME IInv, NEW c \in Conns, kind' = kind, disk' = SaveLogin(c),
         kind # "new" => conn[c].shell = disk.shell
  PROVE  Keeps
BY DEF IInv, TypeOK, Conn, SaveLogin, Disk, Keeps, Settled, SettledIn

LEMMA LoginStep ==
  ASSUME IInv, NEW c \in Conns,
         \/ Logon(c) \/ SayNew(c) \/ Logon2(c) \/ Logon2New(c) \/ NewPassword(c)
         \/ AgainPassword(c) \/ CheckPassword(c) \/ TimeOut(c)
         \/ \E r \in Races : GetRaceAnswer(c, r)
  PROVE  IInv'
<1>1. conn[c] \in Conn
  BY DEF IInv, TypeOK
<1>2. Ends(c) => Goes(c, "off", Nil)
  BY DEF Ends, Goes, Off
<1>3. Dialogue \cap Races = {} /\ "off" \notin Races
  BY SessionAssumption DEF Dialogue
<1>4. UNCHANGED <<kind, disk>> => Keeps
  BY DEF IInv, TypeOK, Keeps, Settled, SettledIn
<1>5. CASE Logon(c)
  BY <1>3, <1>4, <1>5, DialogueStep DEF Logon, Dialogue
<1>6. CASE SayNew(c)
  BY <1>3, <1>4, <1>6, DialogueStep DEF SayNew, Dialogue
<1>7. CASE Logon2(c)
  <2>1. disk.shell \in Races \cup {Nil}
    BY DEF IInv, TypeOK, Disk
  <2> QED BY <1>3, <1>4, <1>7, <2>1, DialogueStep DEF Logon2, Dialogue
<1>8. CASE Logon2New(c)
  <2>1. kind = "new"
    BY <1>8 DEF Logon2New, IInv, Settled, SettledIn
  <2> QED BY <1>2, <1>3, <1>4, <1>8, <2>1, DialogueStep DEF Logon2New, Dialogue
<1>9. CASE NewPassword(c)
  <2>1. kind = "new"
    BY <1>9 DEF NewPassword, IInv, Settled, SettledIn
  <2> QED BY <1>3, <1>4, <1>9, <2>1, DialogueStep DEF NewPassword, Dialogue
<1>10. CASE AgainPassword(c)
  <2>1. kind = "new"
    BY <1>10 DEF AgainPassword, IInv, Settled, SettledIn
  <2>2. conn[c].at \notin Races /\ conn[c].shell \in Races \cup {Nil} /\ kind' = kind
    BY <1>1, <1>3, <1>10 DEF AgainPassword, Conn, Dialogue
  <2>3. CASE UNCHANGED disk /\ Ends(c)
    BY <1>2, <1>4, <2>1, <2>2, <2>3, DialogueStep
  <2>4. CASE disk' = SaveLogin(c) /\ LoadPlayerObject(c, conn[c].shell)
    <3>1. Keeps
      BY <2>1, <2>2, <2>4, SaveLoginKeeps
    <3> QED BY <2>1, <2>2, <2>4, <3>1, LoadPlayerObjectStep
  <2> QED BY <1>10, <2>3, <2>4 DEF AgainPassword
<1>11. CASE CheckPassword(c)
  <2>1. conn[c].at \notin Races /\ conn[c].shell \in Races \cup {Nil} /\ kind' = kind
    BY <1>1, <1>3, <1>11 DEF CheckPassword, Conn, Dialogue
  <2>2. kind # "new" => conn[c].shell = disk.shell
    BY <1>11 DEF CheckPassword, IInv, Settled, SettledIn
  <2>3. Keeps
    BY <1>11, <2>1, <2>2, SaveLoginKeeps DEF CheckPassword
  <2>4. CASE Ends(c)
    BY <1>2, <2>1, <2>3, <2>4, DialogueStep
  <2>5. CASE LoadPlayerObject(c, conn[c].shell)
    BY <2>1, <2>2, <2>3, <2>5, LoadPlayerObjectStep
  <2> QED BY <1>11, <2>4, <2>5 DEF CheckPassword
<1>12. CASE TimeOut(c)
  BY <1>2, <1>3, <1>4, <1>12, DialogueStep DEF TimeOut
<1>13. ASSUME NEW r \in Races, GetRaceAnswer(c, r) PROVE IInv'
  <2>1. kind = "new" /\ kind' = kind /\ conn[c].at \notin Races
    BY <1>3, <1>13 DEF GetRaceAnswer, IInv, Settled, SettledIn, Dialogue
  <2>2. disk' \in Disk
    BY <1>13 DEF GetRaceAnswer, IInv, TypeOK, Disk
  <2>3. Keeps
    BY <2>1, <2>2 DEF Keeps
  <2> QED BY <1>13, <2>1, <2>3, LoadBodyStep DEF GetRaceAnswer
<1> QED BY <1>5, <1>6, <1>7, <1>8, <1>9, <1>10, <1>11, <1>12, <1>13

-----------------------------------------------------------------------------
(* The specification.                                                      *)

LEMMA Inductive == IInv /\ [Next]_vars => IInv'
<1> SUFFICES ASSUME IInv, [Next]_vars PROVE IInv'
  OBVIOUS
<1>1. CASE UNCHANGED vars
  BY <1>1 DEF vars, IInv, TypeOK, OneConnection, Awake, Sound, Settled, SettledIn, Listed,
              Lives, Interactive
<1>2. ASSUME NEW c \in Conns,
             \/ Logon(c) \/ SayNew(c) \/ Logon2(c) \/ Logon2New(c) \/ NewPassword(c)
             \/ AgainPassword(c) \/ CheckPassword(c) \/ TimeOut(c)
             \/ \E r \in Races : GetRaceAnswer(c, r)
      PROVE  IInv'
  BY <1>2, LoginStep
<1>3. ASSUME NEW c \in Conns, LinkLost(c) PROVE IInv'
  BY <1>3, LinkLostStep
<1>4. ASSUME NEW r \in Races, Answer(r) \/ TakeThings(r) \/ HeartBeat(r) PROVE IInv'
  BY <1>4, AnswerStep, TakeThingsStep, HeartBeatStep
<1>5. ASSUME NEW r \in Races, SaveCharacter(r) PROVE IInv'
  <2>1. body[r] \in Body /\ Sound(body[r], Interactive(r)) /\ Lives(r)
    BY <1>5 DEF SaveCharacter, Ready, IInv, TypeOK, Awake, Lives
  <2>2. Keeps
    BY <1>5, SavedByKeeps DEF SaveCharacter, IInv, TypeOK, Keeps, Settled, SettledIn
  <2>3. body' = [body EXCEPT ![r] = body[r]] /\ UNCHANGED <<conn, netdead>>
    BY <1>5 DEF SaveCharacter, IInv, TypeOK
  <2> QED BY <2>1, <2>2, <2>3, BodyStep
<1>6. ASSUME NEW r \in Races, QuitCommand(r) \/ Reset(r) PROVE IInv'
  BY <1>6, QuitIs DEF QuitCommand, Reset
<1>7. ASSUME NEW r \in Races, SleepCommand(r) PROVE IInv'
  <2>1. Lives(r) /\ body[r] \in Body /\ body \in [Races -> Body \cup {Nil}]
    BY <1>7 DEF SleepCommand, Ready, IInv, TypeOK, Lives
  <2>2. body[r].timers \in 0 .. MaxTimers /\ [Mud EXCEPT !.body[r].timers = body[r].timers] = Mud
    BY <2>1 DEF Body, Mud
  <2> QED BY <1>7, <2>1, <2>2, DisconnectStep DEF SleepCommand
<1>8. ASSUME NEW r \in Races, Timer(r) PROVE IInv'
  <2>1. Lives(r) /\ body[r].timers - 1 \in 0 .. MaxTimers /\ body \in [Races -> Body \cup {Nil}]
    BY <1>8, SessionAssumption DEF Timer, IInv, TypeOK, Lives, Body
  <2>2. [Mud EXCEPT !.body[r].timers = @ - 1] = [Mud EXCEPT !.body[r].timers = body[r].timers - 1]
    BY DEF Mud
  <2> QED BY <1>8, <2>1, <2>2, DisconnectStep DEF Timer
<1>9. CASE CleanNetdead
  <2>1. Interactive(netdead)
    BY <1>9 DEF CleanNetdead
  <2> QED BY <1>9, <2>1 DEF CleanNetdead, IInv, TypeOK, OneConnection, Awake, Sound, Settled,
                            SettledIn, Listed, Lives, Interactive
<1>10. CASE Reboot
  <2>1. \A r \in Races : ~Lives(r)'
    BY <1>10 DEF Reboot, Lives
  <2>2. Off \in Conn /\ Off.at = "off" /\ "off" \notin Races
    BY SessionAssumption DEF Off, Conn
  <2>3. conn' \in [Conns -> Conn] /\ \A c \in Conns : conn'[c].at = "off"
    BY <1>10, <2>2 DEF Reboot
  <2> QED BY <1>10, <2>1, <2>2, <2>3
          DEF Reboot, IInv, TypeOK, OneConnection, Awake, Settled, SettledIn, Listed
<1> QED BY <1>1, <1>2, <1>3, <1>4, <1>5, <1>6, <1>7, <1>8, <1>9, <1>10 DEF Next

LEMMA Invariant == Spec => []IInv
BY Initially, Inductive, PTL DEF Spec

\* The variables keep their types, and no connection hangs on a player object
\* that is gone (exec(), remove_interactive(), destruct()).
THEOREM SessionTypeCorrect == Spec => []TypeOK
<1>1. IInv => TypeOK
  BY DEF IInv
<1> QED BY <1>1, Invariant, PTL

\* However many connections race for a character, no player object is heard by
\* two of them (load_player_object()).
THEOREM SessionOneConnection == Spec => []OneConnection
<1>1. IInv => OneConnection
  BY DEF IInv
<1> QED BY <1>1, Invariant, PTL

\* Every way back into the game restarts the heart beats that sleep stopped, and
\* none restarts those of a sleeping player (ndead_move_me(), ndead_revive()).
THEOREM SessionHeartBeatsPaired == Spec => []HeartBeatsPaired
<1>1. IInv => HeartBeatsPaired
  BY DEF IInv, Awake, Sound, HeartBeatsPaired
<1> QED BY <1>1, Invariant, PTL

\* The object of a character with a shell is found by the next login, whenever
\* it is in the game without a link (find_player(), find_netdead()).
THEOREM SessionLinkDeadIsFound == Spec => []LinkDeadIsFound
<1>1. IInv => LinkDeadIsFound
  <2> SUFFICES ASSUME IInv, kind # "new", NEW r \in Races, Lives(r), ~Interactive(r)
               PROVE  r \in Found
    BY DEF LinkDeadIsFound
  <2>1. r = disk.shell /\ netdead = r /\ r # Nil
    BY SessionAssumption DEF IInv, Settled, SettledIn
  <2>2. \A s \in Races : ~(body[s] # Nil /\ body[s].named)
    BY <2>1 DEF IInv, Settled, SettledIn, Lives, Awake, Sound
  <2> QED BY <2>1, <2>2 DEF Found
<1> QED BY <1>1, Invariant, PTL

-----------------------------------------------------------------------------
(* What a player carries.                                                  *)

\* The object r is not loaded anew while it carries things.
LEMMA NotLoadedAnew ==
  ASSUME IInv, kind # "new", NEW r \in Races, Lives(r), body[r].things
  PROVE  Found # {}
<1>1. r # Nil /\ (body[r].named \/ ~Interactive(r))
  BY SessionAssumption DEF IInv, Awake, Sound
<1>2. Interactive(r) \/ netdead = r
  BY DEF IInv, Settled, SettledIn
<1> QED BY <1>1, <1>2 DEF Found, Lives

\* No step of a login object takes things away from a character with a shell.
LEMMA LoginKeeps ==
  ASSUME IInv, kind # "new", NEW s \in Races, Lives(s), body[s].things, NEW c \in Conns,
         \/ Logon(c) \/ SayNew(c) \/ Logon2(c) \/ Logon2New(c) \/ NewPassword(c)
         \/ AgainPassword(c) \/ CheckPassword(c) \/ TimeOut(c)
         \/ \E r \in Races : GetRaceAnswer(c, r)
  PROVE  body'[s] = Nil \/ body'[s].things
<1>1. Found # {}
  BY NotLoadedAnew
<1>2. conn[c].at \notin {"newpw", "again", "race"}
  BY DEF IInv, Settled, SettledIn
<1>3. body' = body \/ \E r \in Found : TakeOver(c, r)
  <2>1. CASE body' = body
    BY <2>1
  <2>2. CASE CheckPassword(c)
    BY <1>1, <2>2 DEF CheckPassword, LoadPlayerObject, Ends, Goes
  <2>3. CASE ~CheckPassword(c)
    BY <1>2, <2>3 DEF Logon, SayNew, Logon2, Logon2New, NewPassword, AgainPassword, TimeOut,
                      GetRaceAnswer, Goes, Ends
  <2> QED BY <2>2, <2>3
<1>4. ASSUME NEW r \in Found, TakeOver(c, r) PROVE body'[s] = Nil \/ body'[s].things
  <2> DEFINE off == [body[r] EXCEPT !.named = FALSE, !.asks = FALSE]
             was == IF Interactive(r) THEN off ELSE body[r]
             left == IF Interactive(r) THEN NetDead(Mud, r) ELSE Mud
             b == IF body[r].level = "-1" THEN StartPlayer(was) ELSE Reconnect(was)
  <2>1. r \in Races /\ Lives(r) /\ body \in [Races -> Body \cup {Nil}] /\ body[r] \in Body
    BY <1>4, FoundLives DEF IInv, TypeOK, Lives
  <2>2. left.body = [body EXCEPT ![r] = was]
    BY <2>1, NetDeadIsPlain DEF Mud
  <2>3. was \in Body /\ was.things = body[r].things
    BY <2>1 DEF Body
  <2>4. left.body[r] = was
    BY <2>1, <2>2
  <2>5. body' = [body EXCEPT ![r] = b]
    <3>1. body' = [left.body EXCEPT ![r] = b]
      BY <1>4, <2>4 DEF TakeOver, Enters, Mud, NetDead
    <3> HIDE DEF b, left, was
    <3> QED BY <2>1, <2>2, <3>1
  <2>6. b.things = body[r].things
    <3> HIDE DEF was
    <3>1. StartPlayer(was).things = was.things
      BY <2>3 DEF StartPlayer, InitPlayer4, Body
    <3>2. Reconnect(was).things = was.things
      BY <2>3 DEF Reconnect, Body
    <3> QED BY <2>3, <3>1, <3>2
  <2> HIDE DEF b
  <2> QED BY <2>1, <2>5, <2>6
<1> QED BY <1>3, <1>4

\* The step that Disconnect() is for the things.
LEMMA DisconnectKeeps ==
  ASSUME IInv, NEW s \in Races, Lives(s), body[s].things, NEW r \in Races, Lives(r),
         NEW t \in 0 .. MaxTimers, Disconnect([Mud EXCEPT !.body[r].timers = t], r)
  PROVE  body'[s] = Nil \/ body'[s].things
<1> DEFINE b == [body[r] EXCEPT !.timers = t]
           m == [Mud EXCEPT !.body[r].timers = t]
           left == [b EXCEPT !.named = FALSE, !.asks = FALSE]
<1>1. /\ b \in Body /\ Sound(b, Interactive(r))
      /\ m.body = [body EXCEPT ![r] = b] /\ m.netdead = netdead
      /\ NetDead(m, r).body = [body EXCEPT ![r] = left] /\ NetDead(m, r).netdead = r
  BY NetDeadIs
<1>2. body[r] \in Body /\ body \in [Races -> Body \cup {Nil}]
  BY DEF IInv, TypeOK, Lives
<1>3. b.things = body[r].things /\ left.things = body[r].things
  BY <1>2 DEF Body
<1>4. body' \in {[m.body EXCEPT ![r] = Nil], NetDead(m, r).body, m.body}
  <2> HIDE DEF m
  <2>1. Disconnect(m, r)
    BY DEF m
  <2> QED BY <2>1 DEF Disconnect, Enters, Removed
<1> HIDE DEF b, left, m
<1> QED BY <1>1, <1>2, <1>3, <1>4

\* No login replaces the object of a character that has its shell by a new one
\* without what it carries, however many connections race for it ("Du behaeltst
\* Deine Sachen", load_player_object()).
THEOREM SessionThingsKept == Spec => ThingsKept
<1>1. ASSUME IInv, [Next]_vars, NEW s \in Races, kind # "new", Lives(s), body[s].things
      PROVE  body'[s] = Nil \/ body'[s].things
  <2>0. body \in [Races -> Body \cup {Nil}]
    BY <1>1 DEF IInv, TypeOK
  <2>1. CASE body' = body
    BY <1>1, <2>1
  <2>2. ASSUME NEW c \in Conns,
               \/ Logon(c) \/ SayNew(c) \/ Logon2(c) \/ Logon2New(c) \/ NewPassword(c)
               \/ AgainPassword(c) \/ CheckPassword(c) \/ TimeOut(c)
               \/ \E r \in Races : GetRaceAnswer(c, r)
        PROVE  body'[s] = Nil \/ body'[s].things
    BY <1>1, <2>2, LoginKeeps
  <2>3. ASSUME NEW c \in Conns, LinkLost(c), conn[c].at \in Races
        PROVE  body'[s] = Nil \/ body'[s].things
    <3>1. Lives(conn[c].at) /\ body[conn[c].at] \in Body
      BY <1>1, <2>3 DEF IInv, TypeOK, Lives
    <3>2. body' = [body EXCEPT ![conn[c].at] =
                     [body[conn[c].at] EXCEPT !.named = FALSE, !.asks = FALSE]]
      BY <1>1, <2>3, <3>1, NetDeadIsPlain DEF LinkLost, Enters
    <3> QED BY <1>1, <2>0, <2>3, <3>1, <3>2 DEF Body
  <2>4. ASSUME NEW r \in Races, Answer(r) \/ TakeThings(r) \/ HeartBeat(r)
        PROVE  body'[s] = Nil \/ body'[s].things
    <3>1. body[r] \in Body
      BY <1>1, <2>4 DEF IInv, TypeOK, Lives, Answer, TakeThings, Ready, HeartBeat
    <3>2. CASE Answer(r)
      BY <1>1, <2>0, <3>1, <3>2 DEF Answer, InitPlayer4, Body
    <3>3. CASE TakeThings(r)
      BY <1>1, <2>0, <3>1, <3>3 DEF TakeThings, Body
    <3>4. CASE HeartBeat(r)
      BY <1>1, <2>0, <3>1, <3>4 DEF HeartBeat, Quit, Enters, Removed, Mud, NdeadMoveMe, Body
    <3> QED BY <2>4, <3>2, <3>3, <3>4
  <2>5. ASSUME NEW r \in Races, QuitCommand(r) \/ Reset(r)
        PROVE  body'[s] = Nil \/ body'[s].things
    BY <1>1, <2>0, <2>5 DEF QuitCommand, Reset, Quit, Enters, Removed, Mud
  <2>6. ASSUME NEW r \in Races, SleepCommand(r) PROVE body'[s] = Nil \/ body'[s].things
    <3>1. Lives(r) /\ body[r] \in Body
      BY <1>1, <2>6 DEF SleepCommand, Ready, IInv, TypeOK, Lives
    <3>2. body[r].timers \in 0 .. MaxTimers /\ [Mud EXCEPT !.body[r].timers = body[r].timers] = Mud
      BY <2>0, <3>1 DEF Body, Mud
    <3> QED BY <1>1, <2>6, <3>1, <3>2, DisconnectKeeps DEF SleepCommand
  <2>7. ASSUME NEW r \in Races, Timer(r) PROVE body'[s] = Nil \/ body'[s].things
    <3>1. Lives(r) /\ body[r].timers - 1 \in 0 .. MaxTimers
      BY <1>1, <2>7, SessionAssumption DEF Timer, IInv, TypeOK, Lives, Body
    <3>2. [Mud EXCEPT !.body[r].timers = @ - 1] = [Mud EXCEPT !.body[r].timers = body[r].timers - 1]
      BY DEF Mud
    <3> QED BY <1>1, <2>7, <3>1, <3>2, DisconnectKeeps DEF Timer
  <2>8. CASE Reboot
    BY <2>8 DEF Reboot
  <2>9. ASSUME NEW c \in Conns, LinkLost(c), conn[c].at \notin Races PROVE body' = body
    BY <2>9 DEF LinkLost
  <2>10. ASSUME NEW r \in Races, SaveCharacter(r) PROVE body' = body
    BY <2>10 DEF SaveCharacter
  <2>11. CleanNetdead \/ UNCHANGED vars => body' = body
    BY DEF CleanNetdead, vars
  <2> QED BY <1>1, <2>1, <2>2, <2>3, <2>4, <2>5, <2>6, <2>7, <2>8, <2>9, <2>10, <2>11 DEF Next
<1>2. IInv /\ [Next]_vars =>
        [\A r \in Races : kind # "new" /\ Lives(r) /\ body[r].things =>
            body'[r] = Nil \/ body'[r].things]_vars
  BY <1>1
<1> QED BY <1>2, Invariant, PTL DEF Spec, ThingsKept
-----------------------------------------------------------------------------
(* Who has his commands has answered everything.                           *)

\* A player object whose level is known has run through InitPlayer4().
Done(b) == b.level = "1.." => b.init /\ b.timers = 0

\* No savefile leaves questions of InitPlayer() open.
Complete == disk.save # "partial" /\ \A r \in Races : Lives(r) => Done(body[r])

LEMMA StartPlayerDone ==
  ASSUME disk \in Disk, disk.save # "partial", NEW b \in Body
  PROVE  Done(StartPlayer(b))
<1> DEFINE t == IF b.timers < MaxTimers THEN b.timers + 1 ELSE b.timers
           l == IF disk.save = "none" THEN "-1" ELSE "1.."
           restored == [b EXCEPT !.timers = t, !.level = l]
<1>1. t \in 0 .. MaxTimers /\ l \in {"-1", "1.."}
  BY SessionAssumption DEF Body
<1>4. restored \in Body /\ restored.level = l
  BY <1>1 DEF Body
<1>2. StartPlayer(b) = IF disk.save = "full" THEN InitPlayer4(restored)
                                             ELSE [restored EXCEPT !.asks = TRUE]
  BY DEF StartPlayer
<1>3. disk.save \in {"none", "full"}
  BY DEF Disk
<1> HIDE DEF restored
<1>5. 0 \in 0 .. MaxTimers
  BY SessionAssumption
<1> QED BY <1>2, <1>3, <1>4, <1>5 DEF InitPlayer4, Done, Body

\* A step that writes the files only with what is complete, and leaves every
\* object complete but the one it makes complete or removes.
LEMMA CompleteStep ==
  ASSUME IInv, Complete, NEW r \in Races, NEW b \in Body \cup {Nil},
         disk'.save \in {disk.save, "full"}, body' = [body EXCEPT ![r] = b],
         b # Nil => Done(b)
  PROVE  Complete'
<1>1. \A s \in Races : body'[s] = IF s = r THEN b ELSE body[s]
  BY DEF IInv, TypeOK
<1> QED BY <1>1 DEF Complete, Lives, Done

LEMMA CompleteStays ==
  ASSUME IInv, Complete, disk'.save \in {disk.save, "full"}, body' = body
  PROVE  Complete'
BY DEF Complete, Lives, Done

LEMMA SavedByCompletes ==
  ASSUME disk \in Disk, NEW r \in Races
  PROVE  SavedBy(r).save \in {disk.save, "full"}
BY DEF SavedBy, Disk

LEMMA DisconnectCompletes ==
  ASSUME IInv, Complete, NEW r \in Races, Lives(r), NEW t \in 0 .. MaxTimers,
         t = body[r].timers \/ (t = body[r].timers - 1 /\ body[r].timers > 0),
         Disconnect([Mud EXCEPT !.body[r].timers = t], r)
  PROVE  Complete'
<1> DEFINE b == [body[r] EXCEPT !.timers = t]
           m == [Mud EXCEPT !.body[r].timers = t]
           left == [b EXCEPT !.named = FALSE, !.asks = FALSE]
<1>1. /\ b \in Body /\ m.body = [body EXCEPT ![r] = b]
      /\ NetDead(m, r).body = [body EXCEPT ![r] = left]
  BY NetDeadIs
<1>2. body[r] \in Body /\ body \in [Races -> Body \cup {Nil}] /\ Done(body[r])
  BY DEF IInv, TypeOK, Lives, Complete
<1>3. Done(b) /\ Done(left) /\ left \in Body
  <2>1. b.level = body[r].level /\ b.init = body[r].init /\ b.timers = t
    BY <1>2 DEF Body
  <2>2. body[r].level = "1.." => t = body[r].timers
    BY <1>2 DEF Done
  <2>3. Done(b)
    BY <1>2, <2>1, <2>2 DEF Done
  <2> HIDE DEF b
  <2>4. left \in Body /\ Done(left)
    BY <1>1, <2>3 DEF Body, Done
  <2> QED BY <2>3, <2>4
<1>4. /\ body' \in {[m.body EXCEPT ![r] = Nil], NetDead(m, r).body, m.body}
      /\ disk' \in {disk, SavedBy(r)}
  <2> HIDE DEF m
  <2>1. Disconnect(m, r)
    BY DEF m
  <2> QED BY <2>1 DEF Disconnect, Enters, Removed
<1>5. disk'.save \in {disk.save, "full"}
  BY <1>4, SavedByCompletes DEF IInv, TypeOK
<1> HIDE DEF b, left, m
<1>6. body' \in {[body EXCEPT ![r] = Nil], [body EXCEPT ![r] = left], [body EXCEPT ![r] = b]}
  BY <1>1, <1>2, <1>4
<1> QED BY <1>1, <1>3, <1>5, <1>6, CompleteStep

LEMMA TakeOverCompletes ==
  ASSUME IInv, Complete, NEW c \in Conns, NEW r \in Found, TakeOver(c, r),
         disk'.save \in {disk.save, "full"}
  PROVE  Complete'
<1> DEFINE off == [body[r] EXCEPT !.named = FALSE, !.asks = FALSE]
           was == IF Interactive(r) THEN off ELSE body[r]
           left == IF Interactive(r) THEN NetDead(Mud, r) ELSE Mud
           b == IF body[r].level = "-1" THEN StartPlayer(was) ELSE Reconnect(was)
<1>1. /\ r \in Races /\ Lives(r) /\ body \in [Races -> Body \cup {Nil}]
      /\ body[r] \in Body /\ Sound(body[r], Interactive(r))
  BY FoundLives DEF IInv, TypeOK, Lives, Awake
<1>2. left.body = [body EXCEPT ![r] = was]
  BY <1>1, NetDeadIsPlain DEF Mud
<1>3. was \in Body /\ Done(was) /\ was.level = body[r].level
  BY <1>1 DEF Body, Complete, Done
<1>4. left.body[r] = was
  BY <1>1, <1>2
<1>5. body' = [body EXCEPT ![r] = b]
  <2>1. body' = [left.body EXCEPT ![r] = b]
    BY <1>4 DEF TakeOver, Enters, Mud, NetDead
  <2> HIDE DEF b, left, was
  <2> QED BY <1>1, <1>2, <2>1
<1>6. b \in Body /\ Done(b)
  <2>1. CASE body[r].level = "-1"
    <3>1. was.hb_obs = was.asleep /\ ~was.asleep /\ ~was.hb /\ ~was.named /\ ~was.things
      BY <1>1, <2>1 DEF Body, Sound
    <3>2. disk \in Disk /\ disk.save # "partial"
      BY DEF IInv, TypeOK, Complete
    <3> HIDE DEF was
    <3> QED BY <1>3, <2>1, <3>1, <3>2, StartPlayerSound, StartPlayerDone
  <2>2. CASE body[r].level # "-1"
    <3> HIDE DEF was
    <3>1. Reconnect(was) \in Body /\ Done(Reconnect(was))
      BY <1>3 DEF Reconnect, Body, Done
    <3> QED BY <2>2, <3>1
  <2> QED BY <2>1, <2>2
<1> HIDE DEF b
<1> QED BY <1>1, <1>5, <1>6, CompleteStep

LEMMA LoadBodyCompletes ==
  ASSUME IInv, Complete, NEW c \in Conns, NEW r \in Races, LoadBody(c, r),
         disk'.save \in {disk.save, "full"}
  PROVE  Complete'
<1> DEFINE new == [init |-> FALSE, level |-> "-1", asks |-> FALSE, named |-> FALSE,
                   hb |-> FALSE, timers |-> 0, asleep |-> FALSE, lasttime |-> FALSE,
                   hb_obs |-> FALSE, things |-> FALSE]
           b == StartPlayer(new)
           rest == IF body[r] = Nil THEN Mud ELSE Removed(Mud, r)
<1>1. 0 \in 0 .. MaxTimers
  BY SessionAssumption
<1>2. b \in Body /\ Done(b)
  <2>1. new \in Body /\ disk \in Disk /\ disk.save # "partial"
    BY <1>1 DEF Body, IInv, TypeOK, Complete
  <2> QED BY <2>1, StartPlayerSound, StartPlayerDone
<1> HIDE DEF b
<1>3. Enters([rest EXCEPT !.body[r] = b])
  BY DEF LoadBody, b
<1>4. /\ rest.body = IF body[r] = Nil THEN body ELSE [body EXCEPT ![r] = Nil]
      /\ [rest EXCEPT !.body[r] = b].body = [rest.body EXCEPT ![r] = b]
  BY DEF Mud, Removed
<1>5. body' = [body EXCEPT ![r] = b]
  <2>1. body \in [Races -> Body \cup {Nil}]
    BY DEF IInv, TypeOK
  <2> HIDE DEF rest
  <2>2. body' = [rest.body EXCEPT ![r] = b]
    BY <1>3, <1>4 DEF Enters
  <2> QED BY <1>4, <2>1, <2>2
<1> QED BY <1>2, <1>5, CompleteStep

LEMMA LoginCompletes ==
  ASSUME IInv, Complete, NEW c \in Conns,
         \/ Logon(c) \/ SayNew(c) \/ Logon2(c) \/ Logon2New(c) \/ NewPassword(c)
         \/ AgainPassword(c) \/ CheckPassword(c) \/ TimeOut(c)
         \/ \E r \in Races : GetRaceAnswer(c, r)
  PROVE  Complete'
<1>1. disk'.save \in {disk.save, "full"}
  <2>1. disk \in Disk
    BY DEF IInv, TypeOK
  <2>2. /\ \A r \in Races : [disk EXCEPT !.shell = r].save = disk.save
        /\ SaveLogin(c).save = disk.save
    BY <2>1 DEF SaveLogin, Disk
  <2> QED BY <2>2 DEF Logon, SayNew, Logon2, Logon2New, NewPassword, AgainPassword,
                      CheckPassword, TimeOut, GetRaceAnswer
<1>2. \/ body' = body \/ \E r \in Found : TakeOver(c, r)
      \/ \E r \in Races : LoadBody(c, r)
  <2>1. conn[c].shell \in Races \cup {Nil}
    BY DEF IInv, TypeOK, Conn
  <2>2. LoadPlayerObject(c, conn[c].shell) =>
          \/ body' = body \/ \E r \in Found : TakeOver(c, r)
          \/ \E r \in Races : LoadBody(c, r)
    BY <2>1 DEF LoadPlayerObject, Ends, Goes
  <2> QED BY <2>2 DEF Logon, SayNew, Logon2, Logon2New, NewPassword, AgainPassword,
                      CheckPassword, TimeOut, GetRaceAnswer, Ends, Goes
<1> QED BY <1>1, <1>2, CompleteStays, TakeOverCompletes, LoadBodyCompletes

LEMMA CompleteInductive == IInv /\ Complete /\ [Next]_vars => Complete'
<1> SUFFICES ASSUME IInv, Complete, [Next]_vars PROVE Complete'
  OBVIOUS
<1>0. body \in [Races -> Body \cup {Nil}] /\ disk \in Disk
  BY DEF IInv, TypeOK
<1>1. ASSUME NEW c \in Conns,
             \/ Logon(c) \/ SayNew(c) \/ Logon2(c) \/ Logon2New(c) \/ NewPassword(c)
             \/ AgainPassword(c) \/ CheckPassword(c) \/ TimeOut(c)
             \/ \E r \in Races : GetRaceAnswer(c, r)
      PROVE  Complete'
  BY <1>1, LoginCompletes
<1>2. ASSUME NEW c \in Conns, LinkLost(c), conn[c].at \in Races PROVE Complete'
  <2> DEFINE r == conn[c].at
             left == [body[r] EXCEPT !.named = FALSE, !.asks = FALSE]
  <2>1. Lives(r) /\ body[r] \in Body /\ Done(body[r])
    BY <1>2 DEF IInv, TypeOK, Lives, Complete
  <2>2. body' = [body EXCEPT ![r] = left]
    BY <1>2, <2>1, NetDeadIsPlain DEF LinkLost, Enters
  <2>3. left \in Body /\ Done(left)
    BY <2>1 DEF Body, Done
  <2>4. disk' = disk
    BY <1>2 DEF LinkLost
  <2> HIDE DEF r, left
  <2>5. r \in Races
    BY <1>2 DEF r
  <2> QED BY <2>2, <2>3, <2>4, <2>5, CompleteStep
<1>3. ASSUME NEW r \in Races, Answer(r) \/ TakeThings(r) \/ HeartBeat(r) PROVE Complete'
  <2>1. body[r] \in Body /\ Done(body[r])
    BY <1>3 DEF IInv, TypeOK, Lives, Answer, TakeThings, Ready, HeartBeat, Complete
  <2>2. 0 \in 0 .. MaxTimers /\ (~Interactive(r)) \in BOOLEAN
    BY SessionAssumption
  <2>3. SavedBy(r).save \in {disk.save, "full"}
    BY <1>0, SavedByCompletes
  <2>4. CASE Answer(r)
    <3>1. InitPlayer4(body[r]) \in Body /\ Done(InitPlayer4(body[r]))
      BY <2>1, <2>2 DEF InitPlayer4, Body, Done
    <3> QED BY <2>4, <3>1, CompleteStep DEF Answer
  <2>5. CASE TakeThings(r)
    <3>1. [body[r] EXCEPT !.things = TRUE] \in Body /\ Done([body[r] EXCEPT !.things = TRUE])
      BY <2>1 DEF Body, Done
    <3> QED BY <2>5, <3>1, CompleteStep DEF TakeThings
  <2>6. CASE HeartBeat(r)
    <3> DEFINE b == [body[r] EXCEPT !.lasttime = ~Interactive(r)]
    <3>1. NdeadMoveMe(body[r]) \in Body /\ Done(NdeadMoveMe(body[r]))
      BY <2>1 DEF NdeadMoveMe, Body, Done
    <3>2. b \in Body /\ Done(b)
      BY <2>1, <2>2 DEF Body, Done
    <3>3. \/ disk' \in {disk, SavedBy(r)} /\ body' = [body EXCEPT ![r] = Nil]
          \/ disk' \in {disk, SavedBy(r)} /\ body' = [body EXCEPT ![r] = NdeadMoveMe(body[r])]
          \/ disk' = disk /\ body' = [body EXCEPT ![r] = b]
      BY <2>6 DEF HeartBeat, Quit, Enters, Removed, Mud
    <3> HIDE DEF b
    <3> QED BY <2>3, <3>1, <3>2, <3>3, CompleteStep
  <2> QED BY <1>3, <2>4, <2>5, <2>6
<1>4. ASSUME NEW r \in Races, QuitCommand(r) \/ Reset(r) PROVE Complete'
  <2>1. disk' = SavedBy(r) /\ body' = [body EXCEPT ![r] = Nil]
    BY <1>4 DEF QuitCommand, Reset, Quit, Enters, Removed, Mud
  <2> QED BY <1>0, <2>1, SavedByCompletes, CompleteStep
<1>5. ASSUME NEW r \in Races, SleepCommand(r) PROVE Complete'
  <2>1. Lives(r) /\ body[r] \in Body
    BY <1>5 DEF SleepCommand, Ready, IInv, TypeOK, Lives
  <2>2. body[r].timers \in 0 .. MaxTimers /\ [Mud EXCEPT !.body[r].timers = body[r].timers] = Mud
    BY <1>0, <2>1 DEF Body, Mud
  <2>3. Disconnect([Mud EXCEPT !.body[r].timers = body[r].timers], r)
    BY <1>5, <2>2 DEF SleepCommand
  <2> QED BY <2>1, <2>2, <2>3, DisconnectCompletes
<1>6. ASSUME NEW r \in Races, Timer(r) PROVE Complete'
  <2>1. Lives(r) /\ body[r].timers - 1 \in 0 .. MaxTimers /\ body[r].timers > 0
    BY <1>6, SessionAssumption DEF Timer, IInv, TypeOK, Lives, Body
  <2>2. [Mud EXCEPT !.body[r].timers = @ - 1] = [Mud EXCEPT !.body[r].timers = body[r].timers - 1]
    BY DEF Mud
  <2> QED BY <1>6, <2>1, <2>2, DisconnectCompletes DEF Timer
<1>7. CASE Reboot
  BY <1>7 DEF Reboot, Complete, Lives
<1>8. ASSUME NEW c \in Conns, LinkLost(c), conn[c].at \notin Races PROVE Complete'
  BY <1>8, CompleteStays DEF LinkLost
<1>9. ASSUME NEW r \in Races, SaveCharacter(r) PROVE Complete'
  BY <1>0, <1>9, SavedByCompletes, CompleteStays DEF SaveCharacter
<1>10. CASE CleanNetdead \/ UNCHANGED vars
  BY <1>10, CompleteStays DEF CleanNetdead, vars
<1> QED BY <1>1, <1>2, <1>3, <1>4, <1>5, <1>6, <1>7, <1>8, <1>9, <1>10 DEF Next

\* Who has his commands has run through InitPlayer4(), and no call_out of
\* start_player() is left to throw him out (remove_call_out() in InitPlayer4()).
\* It is so if the savefile of every character that has one answers all questions
\* of InitPlayer(): it does for whoever has been initialised once, and an older
\* one is completed by the first login.
THEOREM SessionNamedIsInitialised ==
  ASSUME OldSaves \subseteq {"full"}
  PROVE  Spec => []NamedIsInitialised
<1>1. Init => Complete
  BY DEF Init, Complete, Lives
<1>2. IInv /\ Complete => NamedIsInitialised
  BY DEF IInv, TypeOK, Body, Awake, Sound, Complete, Done, Lives, NamedIsInitialised
<1> QED BY <1>1, <1>2, Invariant, CompleteInductive, PTL DEF Spec
=============================================================================
