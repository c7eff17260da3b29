------------------------------- MODULE Channeld -------------------------------
(***************************************************************************)
(* The channel daemon /p/daemon/channeld.c, the channel client of the      *)
(* players (std/player/channel.c) and the part of /secure/memory.c they    *)
(* use.  A channel is created by a player, who becomes its master, or by   *)
(* the daemon itself (Fixed); it vanishes with its last member.            *)
(*                                                                         *)
(* Every call into the daemon runs to its end, so its functions are        *)
(* operators on the daemon's state, and an action is a whole command of a  *)
(* player, a login or logout, or a reload of the daemon.  Levels and bans  *)
(* are left out: everybody may use every channel.                          *)
(***************************************************************************)
EXTENDS Lists

CONSTANTS
  Players,       \* players
  Grown,         \* players of level 5 or more, who may create channels
  Channels,      \* lower case channel names
  Fixed,         \* channels of channeld.init, their master is the daemon
  CHMASTER,      \* the daemon as member of its channels
  Nil,           \* the LPC value 0
  Texts,         \* descriptions of channels
  StdInfo,       \* the description of the fixed channels
  MAX_HIST_SIZE, \* limit of a channel's history
  MAX_CHANNELS,  \* limit of the number of channels
  MaxZeros,      \* bound: destructed members on the list of a channel
  MaxList        \* bound: names on the list of a player

ASSUME ChanneldAssumption ==
  /\ IsFiniteSet(Players) /\ IsFiniteSet(Channels)
  /\ Grown \subseteq Players /\ Fixed \subseteq Channels
  /\ CHMASTER \notin Players /\ StdInfo \in Texts
  /\ Nil \notin Players \cup {CHMASTER} \cup Texts \cup Nat
  /\ MAX_HIST_SIZE \in Nat /\ MAX_CHANNELS \in Nat /\ MaxZeros \in Nat /\ MaxList \in Nat

VARIABLES
  chd,     \* the daemon and the history kept by /secure/memory, see Daemon
  disk,    \* channelC in the daemon's save file
  pls      \* the players, see Player

vars == <<chd, disk, pls>>

Objects == Players \cup {CHMASTER}

\* A destructed member is found as 0 in the list of members.
Channel == [member : Seq(Objects \cup {Nil}), master : Objects \cup {Nil},
            info : Texts]

\* A channel is not the value 0.
ASSUME ChannelAssumption == Nil \notin Channel

\* Of a channel's history only the number of messages is kept.
History == [Channels -> 0 .. MAX_HIST_SIZE + 1 \cup {Nil}]

Daemon == [channels : [Channels -> Channel \cup {Nil}],
           channelH : History,
           memory   : History,      \* what /secure/memory holds as "History"
           shared   : BOOLEAN,      \* it is the same mapping as channelH
           channelC : [Channels -> Texts \cup {Nil}],  \* the cached descriptions
           save_me_soon : BOOLEAN]

Player == [state : {"on", "netdead", "off"},
           channels : Seq(Channels),                 \* P_CHANNELS
           swap     : Seq(Channels) \cup {Nil},      \* P_SWAP_CHANNELS
           c_status : {0, 1}]

Exists(d, c) == d.channels[c] # Nil

\* The members that are not destructed, member - ({0}).
Present(ch) == Those(ch.member, Objects)

-----------------------------------------------------------------------------
(* The functions of the daemon: a result is the new state and whether the  *)
(* call was successful (0) or not.                                         *)

Ok(d)     == [d |-> d, ok |-> TRUE]
Denied(d) == [d |-> d, ok |-> FALSE]

SetHistory(d, c, h) ==
  [d EXCEPT !.channelH[c] = h, !.memory[c] = IF d.shared THEN h ELSE @]

New(d, c, pl, info) ==
  IF \/ Exists(d, c)
     \/ Cardinality({e \in Channels : Exists(d, e)}) >= MAX_CHANNELS
     \/ info = Nil /\ d.channelC[c] = Nil
    THEN Denied(d)
  ELSE LET text == IF info = Nil THEN d.channelC[c] ELSE info IN
       Ok([SetHistory(d, c, IF d.channelH[c] = Nil THEN 0 ELSE d.channelH[c]) EXCEPT
               !.channels[c] = [member |-> <<pl>>, master |-> pl, info |-> text],
               !.channelC[c] = text,
               !.save_me_soon = TRUE])

Join(d, c, pl) ==
  IF ~Exists(d, c) \/ Contains(d.channels[c].member, pl)
    THEN Denied(d)
    ELSE Ok([d EXCEPT !.channels[c].member = Append(@, pl)])

\* A message is sent: the oldest one goes when there are too many.
Noted(d, c) ==
  LET h == d.channelH[c] IN
  SetHistory(d, c, IF h > MAX_HIST_SIZE THEN h ELSE h + 1)

Send(d, c, pl) ==
  IF ~Exists(d, c) \/ ~Contains(d.channels[c].member, pl)
    THEN Denied(d)
    ELSE Ok(Noted(d, c))

\* A channel is deleted together with its history: channelH becomes a new
\* mapping, the one in the memory stays as it is.
Disposed(d, c) ==
  [d EXCEPT !.channels[c] = Nil, !.channelH[c] = Nil, !.shared = FALSE,
            !.save_me_soon = TRUE]

\* Faulty variant: the master leaves without handing the channel over.
LeaveWithoutHandover(d, c, pl) ==
  IF ~Exists(d, c) THEN Denied(d)
  ELSE LET here == Present(d.channels[c])
           left == RemoveFirst(here, pl)
           new  == [d EXCEPT !.channels[c].member = left]
       IN IF ~Contains(here, pl) THEN Denied([d EXCEPT !.channels[c].member = here])
          ELSE IF left = <<>>
            THEN Ok([Disposed(new, c) EXCEPT !.channelC[c] = d.channels[c].info])
            ELSE Ok(new)

\* The master hands the channel over to the second member, with a notice on the
\* channel; a channel without members vanishes.
Leave(d, c, pl) ==
  IF ~Exists(d, c) THEN Denied(d)
  ELSE LET here     == Present(d.channels[c])
           left     == RemoveFirst(here, pl)
           handover == d.channels[c].master = pl /\ Len(here) > 1
           new      == [(IF handover THEN Noted(d, c) ELSE d) EXCEPT
                          !.channels[c].member = left,
                          !.channels[c].master = IF handover THEN here[2] ELSE @]
       IN IF ~Contains(here, pl) THEN Denied([d EXCEPT !.channels[c].member = here])
          ELSE IF left = <<>>
            THEN Ok([Disposed(new, c) EXCEPT !.channelC[c] = d.channels[c].info])
            ELSE Ok(new)

-----------------------------------------------------------------------------
(* The channel client of a player                                          *)

\* filter(P_CHANNELS, cl, this_object()): the names for which cl fails, with
\* the daemon's state after all the calls.
Failing(Op(_, _, _), d, names, pl) ==
  FoldLeft(LAMBDA acc, c :
             LET r == Op(acc.d, c, pl)
             IN [d |-> r.d, err |-> IF r.ok THEN acc.err ELSE Append(acc.err, c)],
           [d |-> d, err |-> <<>>], names)

\* Channels that could not be joined are created, if nobody else has.
NewOnes(d, names, pl, info) ==
  FoldLeft(LAMBDA acc, c : New(acc, c, pl, info).d, d, names)

\* The c_status of the player becomes 0 with it.
RegisterChannels(d, pl, names) ==
  LET joined == Failing(Join, d, names, pl)
  IN IF pl \in Grown THEN NewOnes(joined.d, joined.err, pl, Nil) ELSE joined.d

\* Faulty variant: keeps the names it could not leave instead of the others.
RemoveKeepsErrors(d, pl, pr) ==
  IF pr.c_status = 1 THEN [d |-> d, pr |-> pr]
  ELSE LET left == Failing(Leave, d, pr.channels, pl)
       IN [d |-> left.d, pr |-> [pr EXCEPT !.c_status = 1, !.channels = left.err]]

\* Leaves the channels on the list, unless c_status says it is done already;
\* names that could not be left are taken off the list.
RemoveChannels(d, pl, pr) ==
  IF pr.c_status = 1 THEN [d |-> d, pr |-> pr]
  ELSE LET left == Failing(Leave, d, pr.channels, pl)
       IN [d  |-> left.d,
           pr |-> [pr EXCEPT !.c_status = 1,
                             !.channels = Those(@, Channels \ ToSet(left.err))]]

-----------------------------------------------------------------------------
\* The daemon as create() leaves it: initialize() creates the fixed channels.
Created(memory, channelC) ==
  NewOnes([channels |-> [c \in Channels |-> Nil],
           channelH |-> memory, memory |-> memory, shared |-> TRUE,
           channelC |-> channelC, save_me_soon |-> FALSE],
          SetToSeq(Fixed), CHMASTER, StdInfo)

Init ==
  /\ chd = Created([c \in Channels |-> Nil], [c \in Channels |-> Nil])
  /\ disk = [c \in Channels |-> Nil]
  /\ pls = [p \in Players |-> [state |-> "off", channels |-> SetToSeq(Fixed),
                               swap |-> Nil, c_status |-> 0]]

On(p) == pls[p].state = "on"

-----------------------------------------------------------------------------
(* Commands of the players                                                 *)

\* "-c+": join, and add it to the list.
ChannelOn(p, c) ==
  /\ On(p)
  /\ LET r == Join(chd, c, p) IN
       /\ r.ok
       /\ chd' = r.d
       /\ pls' = [pls EXCEPT ![p].channels =
                    IF Contains(@, c) THEN @ ELSE Append(@, c)]
  /\ UNCHANGED disk

\* "-c-": leave, and take it off the list.
ChannelOff(p, c) ==
  /\ On(p)
  /\ LET r == Leave(chd, c, p) IN
       /\ chd' = r.d
       /\ pls' = IF r.ok THEN [pls EXCEPT ![p].channels = Those(@, Channels \ {c})]
                         ELSE pls
  /\ UNCHANGED disk

\* "-c text": one who has not joined the channel joins it on the way.
Say(p, c) ==
  /\ On(p)
  /\ LET joined == IF Send(chd, c, p).ok THEN Denied(chd) ELSE Join(chd, c, p)
         sent   == Send(joined.d, c, p)
     IN /\ sent.ok
        /\ chd' = sent.d
        /\ pls' = IF joined.ok /\ ~Contains(pls[p].channels, c)
                    THEN [pls EXCEPT ![p].channels = Append(@, c)] ELSE pls
  /\ UNCHANGED disk

\* "ebene neu": the name is added to the list even if it is there already.
NewChannel(p, c, text) ==
  /\ On(p) /\ p \in Grown
  /\ LET r == New(chd, c, p, text) IN
       /\ r.ok
       /\ chd' = r.d
       /\ Len(pls[p].channels) < MaxList
       /\ pls' = [pls EXCEPT ![p].channels = Append(@, c)]
  /\ UNCHANGED disk

\* list() takes the destructed members off all the lists.
Cleaned(d) ==
  [d EXCEPT !.channels = [c \in Channels |->
     IF Exists(d, c) THEN [d.channels[c] EXCEPT !.member = Present(d.channels[c])] ELSE Nil]]

\* "-?" and "-!"
List(p) ==
  /\ On(p)
  /\ chd' = Cleaned(chd)
  /\ UNCHANGED <<disk, pls>>

\* "ebene beschreibung": list() returned a deep copy, so the description goes
\* into a copy of the channel.
Describe(p, c, text) ==
  /\ On(p)
  /\ Exists(chd, c) /\ chd.channels[c].master = p
  /\ List(p)

\* "ebene an"
SwitchOn(p) ==
  /\ On(p)
  /\ \E names \in IF pls[p].swap # Nil THEN {pls[p].swap}
                    ELSE SetToSeqs({c \in Channels : Exists(chd, c)}) \ {<<>>} :
       /\ chd' = RegisterChannels(IF pls[p].swap # Nil THEN chd ELSE Cleaned(chd), p, names)
       /\ pls' = [pls EXCEPT ![p] = [@ EXCEPT !.channels = names, !.swap = Nil,
                                              !.c_status = 0]]
  /\ UNCHANGED disk

\* "ebene aus"
SwitchOff(p) ==
  /\ On(p)
  /\ LET r == RemoveChannels(chd, p, pls[p]) IN
       /\ chd' = r.d
       /\ pls' = [pls EXCEPT ![p] = [r.pr EXCEPT !.swap = pls[p].channels,
                                                 !.channels = <<>>]]
  /\ UNCHANGED disk

Login(p) ==
  /\ ~On(p)
  /\ chd' = RegisterChannels(chd, p, pls[p].channels)
  /\ pls' = [pls EXCEPT ![p].state = "on", ![p].c_status = 0]
  /\ UNCHANGED disk

NetDead(p) ==
  /\ On(p)
  /\ LET r == RemoveChannels(chd, p, pls[p]) IN
       /\ chd' = r.d
       /\ pls' = [pls EXCEPT ![p] = [r.pr EXCEPT !.state = "netdead"]]
  /\ UNCHANGED disk

\* A destructed object is 0 wherever it was kept.
Destructed(d, p) ==
  [d EXCEPT !.channels = [c \in Channels |->
     IF ~Exists(d, c) THEN Nil
     ELSE [d.channels[c] EXCEPT
             !.member = ReplaceAll(@, p, Nil),
             !.master = IF @ = p THEN Nil ELSE @]]]

FewZeros == \A c \in Channels : Exists(chd, c) =>
              Len(Those(chd.channels[c].member, {Nil})) < MaxZeros

Quit(p) ==
  /\ pls[p].state # "off" /\ FewZeros
  /\ LET r == RemoveChannels(chd, p, pls[p]) IN
       /\ chd' = Destructed(r.d, p)
       /\ pls' = [pls EXCEPT ![p] = [r.pr EXCEPT !.state = "off"]]
  /\ UNCHANGED disk

-----------------------------------------------------------------------------
(* Commands of the wizards and the driver                                  *)

\* "ebene kill": takes it off the lists of its members, then deletes it.
RemoveChannel(c) ==
  /\ Exists(chd, c) \/ chd.channelC[c] # Nil
  /\ LET left == IF Exists(chd, c) THEN Disposed(chd, c) ELSE chd
         here == IF Exists(chd, c) THEN ToSet(chd.channels[c].member) ELSE {}
     IN /\ chd' = [left EXCEPT
                     !.channelC[c] = Nil,
                     !.save_me_soon = chd.channelC[c] # Nil \/ chd.save_me_soon]
        /\ pls' = [p \in Players |->
                     IF p \in here THEN [pls[p] EXCEPT !.channels =
                                           Those(@, Channels \ {c})]
                                   ELSE pls[p]]
  /\ UNCHANGED disk

\* "ebene clear"
ClearHistory(c) ==
  /\ chd.channelH[c] # Nil
  /\ chd' = SetHistory(chd, c, 0)
  /\ UNCHANGED <<disk, pls>>

\* Entries of channelC may have become too old; a change is saved.
Reset ==
  /\ \E old \in SUBSET Channels :
       LET kept == [c \in Channels |-> IF c \in old THEN Nil ELSE chd.channelC[c]]
       IN /\ chd' = [chd EXCEPT !.channelC = kept, !.save_me_soon = FALSE]
          /\ disk' = IF chd.save_me_soon THEN kept ELSE disk
  /\ UNCHANGED pls

\* map_objects(users(), "RegisterChannels"): each with the list he has.
RegisterAll(d, order) ==
  FoldLeft(LAMBDA acc, p : RegisterChannels(acc, p, pls[p].channels), d, order)

\* The daemon is destructed and loaded: the players on line register again.
Reload ==
  /\ \E order \in SetToSeqs({p \in Players : On(p)}) :
       chd' = RegisterAll(Created(chd.memory, disk), order)
  /\ pls' = [p \in Players |-> IF On(p) THEN [pls[p] EXCEPT !.c_status = 0] ELSE pls[p]]
  /\ UNCHANGED disk

Next ==
  \/ \E p \in Players, c \in Channels :
       \/ ChannelOn(p, c) \/ ChannelOff(p, c) \/ Say(p, c)
       \/ \E text \in Texts : NewChannel(p, c, text) \/ Describe(p, c, text)
  \/ \E p \in Players : \/ List(p) \/ SwitchOn(p) \/ SwitchOff(p)
                        \/ Login(p) \/ NetDead(p) \/ Quit(p)
  \/ \E c \in Channels : RemoveChannel(c) \/ ClearHistory(c)
  \/ Reset \/ Reload

Spec == Init /\ [][Next]_vars

-----------------------------------------------------------------------------
(* Properties                                                              *)

TypeOK ==
  /\ chd \in Daemon
  /\ disk \in [Channels -> Texts \cup {Nil}]
  /\ pls \in [Players -> Player]

Living(c) == Present(chd.channels[c])

\* leave() takes the second member as the new master, so the master must be
\* the first, through joins, handovers, destructed members and reloads.
MasterLeads ==
  \A c \in Channels :
    Exists(chd, c) /\ chd.channels[c].master # Nil =>
      /\ Living(c) # <<>>
      /\ Living(c)[1] = chd.channels[c].master

\* leave() removes one position: nobody may be on the list twice.
MembersOnce == \A c \in Channels : Exists(chd, c) => IsInjective(Living(c))

\* send() appends to the history of an existing channel, which must be an array
\* whatever was deleted or loaded from the memory before.
HistoryPresent == \A c \in Channels : Exists(chd, c) => chd.channelH[c] # Nil

\* All of them together: what every operation on a channel relies on.
ChannelsOK == TypeOK /\ MasterLeads /\ MembersOnce /\ HistoryPresent

\* Logging out leaves the channels a player is on, but keeps them on the list
\* for the next login.
ListSurvivesLogout ==
  [][\A p \in Players : NetDead(p) \/ Quit(p) =>
       \A i \in DOMAIN pls[p].channels :
         LET c == pls[p].channels[i] IN
         /\ Exists(chd, c) /\ Contains(chd.channels[c].member, p)
         /\ \A j \in DOMAIN pls[p].channels \ {i} : pls[p].channels[j] # c
         => c \in ToSet(pls'[p].channels)]_vars

=============================================================================
