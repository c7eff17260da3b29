# MorgenGrauen in TLA+

MorgenGrauen is a German MUD. The repository is its mudlib: LPC programs that
run inside the LDMud driver, which is not part of it. This directory holds
TLA+ models of the mudlib's stateful core, their model-checking runs, and
proofs about them.

What the driver contributes is the same for every model. It is
single-threaded: a call runs to its end before the next one starts. What
looks like concurrency in the code is therefore one of

* **callbacks**: a function calls a foreign object, which calls back, destructs
  objects or loads them before it returns;
* **call_outs, `heart_beat()` and `reset()`**: work that is cut into pieces by
  time, with everybody else's calls in between;
* **limits**: `limited()` and the evaluation limit stop a piece of work in the
  middle, `catch()` lets the caller go on;
* **destruction and reloading**: a destructed object becomes 0 wherever it is
  kept, takes its closures and call_outs with it, and comes back with its
  saved variables only;
* **the network**, for the one part that talks to other muds.

The models keep exactly these cuts. An action is everything between two of
them.

## 1. Inventory

| Component (source) | State | Operations | Hard part | What makes it correct |
|---|---|---|---|---|
| **Event dispatcher** (`p/daemon/eventd.c`) | registrations per event, queue, active event, update flag, one call_out | register, unregister, trigger, `process_events()`, update, reload | listeners call back while the list is worked off; tick limit; objects that vanish; reload with work queued | nobody informed twice or forgotten, events in order, the call_out never lost, an update loses nothing |
| **Channel daemon** (`p/daemon/channeld.c`, `std/player/channel.c`, `secure/memory.c`) | channels with members and master, history (here and in the memory), cache, save file; per player two lists and a flag | create, join, leave, say, switch all on/off, login, logout, list, remove, clear, reload | three pieces of state per player and two copies of the history that have to agree after any sequence of commands | the master is a member, handover, no ghost members, what the manual promises of each command |
| **Intermud daemon** (`secure/inetd.c`) | pending requests, received ids, buffered parts, packet counter, call_outs | send, receive, reassemble, retry, time out, reload | UDP: loss, duplication, delay, reordering; retries that race answers; reloads | one answer per request, the right one; buffers expire; parts of one packet only |
| **Hooks** (`std/hook_provider.c`, `hook_consumer.c`, `hook_surveyor.c`) | per hook three arrays of consumers with priority and expiry, clean-up call_out | register (with limits and superseding), unregister, the flow over surveyors, data modifiers and listeners, clean-up | consumers change the arrays in the callbacks | limits per kind, priorities, expired and destructed consumers are not called, a cancelling consumer ends the flow |
| **Teams** (`obj/team.c`, `std/living/team.c`, `p/daemon/teammaster.c`) | members, leader, formation, wishes | join, leave, elect, row changes, flight, heart_beat | a formation recomputed from wishes, limits and absence | every member in exactly one row, rows within the limits, one team per living |
| **Timed skill attributes** (`std/living/skill_attributes.c`) | modifiers, cached sum, earliest expiry | set, remove, query | cache against modifiers that expire and casters that vanish | the cached sum is the recomputed one |
| **Units and money** (`std/unit.c`, `obj/money.c`, `std/living/moneyhandler.c`) | amount, the amount being moved | split, merge, move, a part taken from an environment | the amount of a move is kept in the object until `NotifyMove()` | the total is conserved |
| **Doors** (`obj/doormaster.c`, `std/room/doors.c`) | a status per pair of rooms, keys | open, close, lock, unlock, pass, reset | two rooms share one status and reset it with flags of their own | both sides agree, locked doors are not passed |
| **Bank, shops, pubs** (`p/daemon/zentralbank.c`, `std/room/shop.c`, `std/room/pub.c`) | balances, stock, orders | pay in, pay out, buy, sell, order, serve | an order is paid at once and served later | what is paid is served or refunded, stock within its limit |
| **Transports** (`std/transport.c`, `p/daemon/traveld.c`, `std/player/travel.c`) | route, position, environment, call_outs; the register of stops; per player the travel information | start, halt, edit the route, next point, dock, cast off, enter, leave, `reise` | two functions that call each other by call_out and are halted and restarted at any time; plans of players that are used much later | one chain of call_outs, never two; docked where it is; nobody carried past his destination |
| **Light sources** (`std/lightsource.c`) | fuel, lit, call_out | light, extinguish, refuel, burn | fuel accounted by times | never burns without fuel |
| **Voting machine** (`secure/wahlmaschine.c`) | votes, `in_use` | vote | a lock held over an `input_to()` | every player votes once |
| **Combat and life** (`std/living/combat.c`, `life.c`, ...) | enemies, hit points, weapons | attack, defend, heal, die | hooks of every weapon, armour and guild inside one heart_beat | enemies mutual, death once |
| **Moving, containers, attributes** (`std/living/moving.c`, `put_and_get.c`, `attributes.c`, `tmp_prop_master.c`) | environments, attributes and their modifiers | move, put, take, set | moves refused half-way | weight and number limits |
| **Session** (`secure/login.c`, `std/player/base.c`, `secure/simul_efun/livings.c`) | login objects, player objects, their connections, two savefiles, the table of the link-dead | the login dialogue, start, reconnect, link death, sleep, quit, save | two connections for one name; call_outs and heart beats that sleep and return have to undo | one body per name and one connection per body; what a player carries is still there when he returns |
| **Communication** (`std/player/comm.c`, `soul.c`) | buffers, aliases | tell, say, remote | mostly text | - |
| **Mail, news** (`secure/mailer.c`, `secure/news.c`, ...) | files | send, read, delete | file per call | - |
| **Masters of points and quests** | tables | set, query | one call at a time | - |
| **Security, driver interface** | access rights | `valid_*()`, wrappers | external driver | - |
| **Reboot countdown, error daemon, memory** | tables, one call_out | - | - | - |

How they meet. Objects call the daemons directly; the daemons call back
listeners (`eventd`), members (`channeld`), the modules in `secure/udp` (`inetd`),
consumers (hooks). Shared state is mostly shared *mappings and arrays*: LPC
passes them by reference, so `channeld` and `/secure/memory` hold the same
history mapping until one side makes a new one, a hook's array may still be held
by a flow that runs over it, and `list()` deliberately does not hand out the
original. The channel and event daemons are reached from the player's login and
logout; the intermud daemon from `tell`, `finger`, `mail` and the intermud
channels. The modelled components share no variable, so their modules are not
composed with one another; a composition inside a component is done in its
module (Channeld: daemon, players and memory; Inetd: several muds and the
network; Session: login objects, player object and master; Team: the team, on top
of Formation's pure operators, with the members' side; Travel: transports,
register and players).

The hazards, each with its line and the properties that cover it, are listed in
`PROJECT.json`, of the components without a module only the weightiest; what goes wrong in the code as it is stands in section 6.

## 2. Plan

Modules that are proved about use no RECURSIVE operators. `Lists` and `ListProofs`
are what several of them share: arrays that are filtered, sums, and what these and a
fold do.

**Done.** `EventDelivery` (abstract) and `Eventd` (implements it) with `EventdProofs`;
`Channeld` with `ChanneldProofs`; `Inetd` with `InetdProofs`; `Session` with
`SessionProofs`; `HookProvider` with `HookProofs`; `Travel` with `TravelProofs`;
`Formation` and `Team`, and `SkillAttributes`, both with `LivingProofs`. Every safety
property that a run checks is a theorem too.

**Left, in this order.**

* *Model*: `Pub` (an order is paid at once and served by a call_out, while guests
  leave, die or are full; `std/room/pub.c:820`); `Doors` (two rooms reset one status);
  death and the way through `room/death/death_room.c`; `offerHook()` being
  withdrawn while a flow runs; the common attack of a team.
* *Prove*: of `Session`, that a name has one player object if no new character is at the
  question for the race twice (what `login.c:710` would have to see to).
* *Runs*: one safety run per module and, where call_outs keep it going, one
  liveness run. Of the disagreements between code and documentation only the
  gravest has a run of its own; the others are described in section 6.

## 3. The models

### 3.1 Event dispatcher: `Eventd`, implementing `EventDelivery`

`EventDelivery` is what the dispatcher promises: registered names, a queue, a
current event with the names still to be informed. No closures, ticks or
call_outs.

`Eventd` is the code. Correspondence:

| Model | `eventd.c` |
|---|---|
| `known`, `events` | the keys and the values of the mapping `events`; an entry is the function name and the closure (`cl = Nil`: the closure died with its object) |
| `pending`, `active` | `pending`; `active` with its *own* copy of the listeners |
| `callouts`, `updateme` | `find_call_out(#'process_events)`; `updateme` |
| `proc`, `cur`, `ticks` | where `process_events()` stands: between call_outs (`idle`), at the head of `while` or `foreach`, in a callback (`call`) |
| `offers` | the driver's objects: the public functions of each loaded one |
| `triggers, delivered, settled, lost` | history variables, read by no guard except the bound on `triggers` |

`RegisterEvent`, `UnregisterEvent`, `TriggerEvent`, `UpdateMe`, `Reset`, `Remove`
are the functions of these names (calls that only return an error code change
nothing and are left out). `CallOutDue`, `TakePending`, `ResumeActive`,
`CallListener`, `DropListener`, `ListenerDone`, `FinishEvent`, `Suspend` and
`EndProcessing` are `process_events()`, cut where others can act. `LoadObject`,
`DestructObject` and `Reboot` are the driver; a reboot may come at any point.
`remove()` by somebody else is taken between call_outs only: an object that
destructs the dispatcher while the dispatcher calls it is outside the model.

The refinement mapping takes `registered` to the names with an entry in `events`,
`current` to `active` without its listeners, `remaining` to the listeners of
`active` except the one being called.

### 3.2 Channel daemon: `Channeld`

`chd` is the daemon with the memory's copy of the history and the flag `shared`
(both are the same mapping), `disk` its save file, `pls` the players: connection
(`on`, `netdead`, `off`), `P_CHANNELS`, `P_SWAP_CHANNELS`, `c_status`. A call into
the daemon runs to its end, so `New`, `Join`, `Leave`, `Send` are operators on the
daemon's state with a success flag (`Present` is the array without those destructed,
`NewOnes` and `RegisterAll` are loops over names and players), and an action is a whole command:
`ChannelOn/Off`, `Say`, `NewChannel`, `List`, `Describe`, `SwitchOn/Off`, `Login`,
`NetDead`, `Quit`, `RemoveChannel`, `ClearHistory`, `Reset`, `Reload`.

A player who quits becomes `Nil` on every list that `RemoveChannels` did not
take him from, because that is what destructing him does. Of a history only
the length is kept.

### 3.3 Intermud daemon: `Inetd`

Each mud of `Muds` runs the daemon. `packet_id`, `pending_data`, `received_ids` and
`incoming` (the code's `incoming_packets`) are its variables; `timeouts` and
`expiries` are the keys with a call_out of `reply_time_out()` and
`remove_incoming()`. `net` is the set of all packets ever sent, and receiving
removes nothing: loss, duplication, delay and reordering are choices about
which packet is received when, and a retry adds nothing because it sends the
same packet again.

`Ask` is `_send_udp()` with `expect_reply`, `Reply` the same without; both choose
freely between a packet in one piece and one in parts. `ReceiveWhole`,
`ReceiveFirstPart` and `ReceiveNextPart` are `receive_udp()` with
`decode_packet()`; `Take` is what follows with a complete packet. `ReplyTimeOut`,
`RemoveIncoming`, `RemoveReceivedId` are the call_outs, `Reload` destructs and
loads one mud's daemon.

Call_outs may run at any time, in any order: the relation of a delay to the
network's is not used, so what holds does not depend on the choice of
`TIME_OUT`.

### 3.4 Session of a player: `Session`

One character, and several connections that give its name.

| Model | Code |
|---|---|
| `conn[c].at` | where the connection's input goes: no connection (`off`), a question of the login object (`name` to `race`), or a player object |
| `conn[c].shell` | the login object's copy of the shell in the secure savefile |
| `disk` | the secure savefile with the shell, the player object's savefile |
| `body[r]` | the player object of race `r`: `init` (`InitPlayer4()` has run), `asks`, `named` (living name), `hb`, `timers` (call_outs of `disconnect()`), `asleep`, `lasttime`, `hb_obs`, `things` |
| `netdead` | `netdead[name]` in `livings.c` |

`Logon` to `GetRaceAnswer` are the dialogue of `login.c`, each with everything it
calls (`LoadPlayerObject`, `TakeOver`, `LoadBody`, `StartPlayer`, `Reconnect`); `Answer`,
`QuitCommand`, `SleepCommand`, `Timer`, `HeartBeat`, `Reset`, `SaveCharacter` are
`base.c`; `LinkLost`, `TimeOut`, `CleanNetdead`, `Reboot` the driver's and the
simul_efuns' part. A player object is named "race:name", which is why two of one
character need two races.

### 3.5 Hooks: `HookProvider`

One hook of one provider. `hook[t]` is the array of entries of each of the four
types, `valid` the entries whose closure lives and that have not expired. Arrays
are shared by reference: `flow` and `reg` are a running `HookFlow()` and an
`HRegisterToHook()` that is telling a consumer it is superseded; each keeps the array
it began with, and `own` says whether that still is the hook's. An element set to 0 by
`CleanHookMapping()` is seen through a held array (`SeenBy`), a new array is not.
`Sorted` is the set of arrangements that `sort_array()` may leave: it promises nothing about
entries of one priority. `OrderKept` and `Ordered` are about the priorities only.
`broken` records that an error ended a flow or a registration.

`Register` (with `RegisterFree`, `RegisterSuperseding`, `RegisterEnd`), `Unregister`,
`Trigger`, `FlowStep`, `Return`, `CleanCallout` are the functions, cut at the callbacks;
`Destruct` and `Expire` are the driver and time. The answer of a surveyor is free.

### 3.6 Timed skill attributes: `SkillAttributes`

`stat`, `dyn` and `cache` are the entry of one attribute in `skillattrs`; keys that are
destructed objects are not in a mapping any more. `query` is a query that is calling
the closures of dynamic modifiers, which may do anything a caster can
(`calls` bounds how often). `miscounted` is a history variable: `SAM_COUNT` was
changed without the sum being computed (section 6).

### 3.7 Teams: `Formation` and `Team`

`Formation` holds the pure algorithms of `obj/team.c`: `CheckFormation`,
`MakeFormation` (its passes are `To` and `Fro`), `UpdateActRow`, `CycleRows`,
`PresentRows`, as operators on rows, which are sequences. Nested loops over rows became
folds. `Team` is the state: members,
leader, associated NPCs, the formation and the rows, and on the members' side who
is associated with whom. An action is a whole command with all removals and
reorderings it causes; `order` and `heirs` stand for the orders that the scores
and the members' age give. Who is destructed without `remove()` is 0 in all
references; the row keeps the gap until it is computed again.

### 3.8 Transports: `Travel`

| Model | Code |
|---|---|
| `ship[s].route`, `.rpos` | `route` (a harbour, a message or a function), `rpos` |
| `ship[s].docked`, `.at` | whether `roomCode` is set, `environment()` |
| `ship[s].due` | how many call_outs of `changeHp()` and `disconnect()` are pending |
| `known` | `transporters` and `stops` of `traveld.c`; `{}` for a key that is missing |
| `env`, `info`, `fighting` | per player the environment, `P_TRAVEL_INFO`, `InFight()` |

`ChangeHp` and `Disconnect` are the call_outs; `Connect` is `connect()` with the two loops
that put ashore and take aboard; `CallFun` is a function of the transport that is a
point of the route and may halt, restart or reroute it (the call_out for the next point
is already set then). `HaltShip`, `StartShip`, `ClearRoute`, `ExtendRoute`, `ForgetShip`,
`ForgetStop` are wizards and other code; `Enter`, `Leave`, `ReiseMitNach`, `ReiseNach`,
`ReiseAboard`, `ReiseMit`, `ReiseAus` the players' commands, `GoElsewhere` and `Fight`
everything else that players do. A destination is its harbour.

## 4. Runs

All of them are listed in `PROJECT.json` with their properties; `MC*.tla` holds
the symmetry sets and structured constants, the `.cfg` files the rest. The type
invariants are part of every safety run, alone or in the conjunction that is named `...OK`.

| Run | Shows | Bounds |
|---|---|---|
| `eventd_safety` | types and at most one call_out; `NoLostWakeup`; `UpdateLosesNothing`; `Eventd` implements `EventDelivery` | 2 listeners, 2 events, 2 functions, 2 triggers, 1 tick per call_out; 1.9 million states |
| `eventd_live` | every event is settled or lost with a reload; a requested update happens | 2 listeners, 1 event, 3 triggers; 186 000 states |
| `channeld_safety` | `ChannelsOK` (`MasterLeads`, `MembersOnce`, `HistoryPresent`), `ListSurvivesLogout` | 2 players, 1 channel of the daemon that a player can make again once it was removed, history limit 0; 249 000 states |
| `inetd_safety` | `OneAnswer`, `AnswerMatches`, `OnePacketPerBuffer`, `RepeatIsRepeat` | 2 muds, 2 questions, 2 ids, packets of 2 parts, no retry, no reload; 1.1 million states |
| `inetd_live` | `EveryQuestionSettles` | 2 muds, 1 question, 2 retries (the code's value), 1 reload; 23 000 states |
| `session` | `OneConnection`, `LinkDeadIsFound`, `NamedIsInitialised`, `ThingsKept`; `LinkDeadSleeps`, `DialoguesEnd` | 2 connections, 2 races; a new, an old and a wizard's character |
| `session_one_body` | a finding: two objects of one character | a new character |
| `hook_safety` | `ConsumersOK` (`LimitsKept`, `OrderKept`, `RegisteredOnce`), `EachCalledOnce`, `LowestGoes` | a surveyor, a hmod, three listeners for two places; 2 calls during a flow, 1 destructed |
| `skill_safety` | `ModifiersOK` (`OneModifier`), `CacheRight`, `NotTooMany`, `KeptToTheEnd` | 4 casters for 3 modifiers, 3 points of time, 2 calls by closures |
| `team_safety` | `TeamOK` (`LeaderIsMember`), `EveryoneInOneRow`, `FirstRowHolds`, `RowsWithin`, `AssocsAgree`, `OthersStay` | 3 players and an NPC, 3 rows of 2, 1 destructed |
| `travel_safety` | `OneChain`, `DockedAtStation`, `PutAshoreInTime` | 2 transports, 3 harbours of which one does not load, a player, 2 interventions, routes of up to 4 points; 5.2 million states |
| `travel_live` | `ServesEveryStop`, `JourneyEnds` (who waits comes aboard unless it is full, who is aboard arrives) | a ferry for 1 passenger, 2 harbours, 2 players, 1 intervention; 143 000 states |

Why the bounds are enough for what they are used for:

* *Eventd.* One tick per call_out makes every event with two listeners run out
  of ticks in the middle; `MaxPending = 1` makes the queue reach its limit; two
  triggers give one active and one queued event, of the same or different ids.
  With two functions a listener comes back from a reload without the function
  it registered.
* *Channeld.* Handover needs two players. The one channel is a channel of
  the daemon first and a player's channel after `RemoveChannel`, so both kinds
  occur. History limit 0 still lets the history reach, and stop at, limit + 1.
  `MaxZeros` and `MaxList` bound destructed members and a player's list.
  With one channel `MAX_CHANNELS` is never the only reason to refuse a new one.
* *Inetd.* Two questions are what two requests of one mud, or one of each,
  need to be mixed up, and with `MaxId = 2` the id of a request meets the id of
  the other mud's split reply. Retries change nothing but the counter in the
  safety run, see 3.3; the liveness run has both. A daemon is reloaded in the
  liveness run; that being told once survives any number of reloads is proved.
* *Session.* Races between logins are between two; `MaxTimers = 2` tells one call_out
  that is left from none and from several. Old savefiles are complete
  (`OldSaves = {"full"}`); see section 6 for the others. There is no other bound.
* *Hooks.* Three listeners for two places make each of them supersede another
  and be superseded, and leave one that has to be refused. With two calls
  during a flow one consumer can unregister another and a third one register in
  its place. One more call, or a dmod, multiplies the states and adds an actor
  of a kind that is there already.
* *Skill attributes.* One caster more than there is room, so that the list is full, and
  full of what has expired or vanished. Durations of 0 to 2 in a time of 0 to 3
  put a modifier's end before, in and after any other second. Values 0 and 3
  besides 1 are a value out of range and a second one that changes sums.
* *Teams.* Rows of two for four living force members out of full rows in both
  directions. Who comes in one step wishes the same row, the orders are two
  permutations, and the two formations that may be asked for are odd on
  purpose (a negative minimum, a minimum above the maximum, a row longer than
  allowed).
* *Travel.* Two transports are needed for the register's tables to be shared. The
  courses have a harbour that does not load, a message, a function, and a
  harbour they share. Two interventions are what it takes to halt and restart, or to remove a
  route and add a point. The ferry has one place for two players.

`CHECK_DEADLOCK FALSE` stands in the `Inetd` configurations (when all questions
of the bound are asked and settled and nothing is buffered, nothing is left
to do) and in that of `Team` (a state where none of these steps is enabled is a
team that rests, not a system that is stuck). Symmetry is used in runs without
liveness properties only.

**Fairness.** `Eventd!Fairness`: the driver runs a due call_out (`CallOutDue`),
`process_events()` goes on while it runs (`ProcessEvents`), and `limited()` ends a
callback that does not end itself (`ListenerDone`). `Inetd!FairSpec`: the driver
runs every call_out of `reply_time_out()`. `Session!Fairness`: the driver runs the
call_outs `TimeOut` and `Timer`, the heart beats and the resets. `Travel!Fairness`: it
runs the call_outs of each transport. Weak fairness is enough, a call_out stays due
until it runs or is removed. Nothing is assumed of listeners, players, other
muds or the network; `EveryQuestionSettles` holds when no packet ever arrives, and
`ServesEveryStop` and `JourneyEnds` except what somebody stops or reroutes.

## 5. Proofs

Constants are arbitrary sets and numbers under `EventdAssumption`,
`InetdAssumption`, `NilAssumption`, `SessionAssumption`, `BodyAssumption`,
`TravelAssumption`, `SkillAssumption`, `ChanneldAssumption`, `ChannelAssumption`,
`HookAssumption` and `StructAssumption` (0 is none of the values it is compared with; limits are numbers; a
loaded listener has a function; at least two parts; races are no questions;
transports, harbours and events differ, courses are sequences of points; there are
finitely many casters, players and channels).

**`EventdProofs`.** `IInv == TypeOK /\ NoLostWakeup /\ ActiveListed /\ ProcOK /\
ListedOK` is inductive. `ProcOK` relates the place in `process_events()` to the
rest: while it runs there is a call_out, in `foreach` and in a callback there is
an active event. Without it `NoLostWakeup` breaks at `EndProcessing`, which removes
the call_out. `ListedOK` says that an event with listeners is a key of `events`;
without it `ActiveListed` breaks when `TakePending` copies the list. Theorems:

* `TypeCorrect`: types; one call_out at most.
* `WakeupNeverLost`: a queued or half processed event has a call_out.
* `ActiveAlwaysListed`: the writes to `events[eid]` find a mapping.
* `UpdateNeverLoses`: an update on request replaces an idle dispatcher only.

Its second half is the refinement. `DeliveryImplemented == Spec => ImplementsDelivery`: every
step of `Eventd` is a step of `EventDelivery` or a stutter. `Inform` may inform a
name once only, which needs `HistoryOK`: the trigger numbers ascend from the active
event through the queue and are at most `triggers`, nobody was informed of an
event that is still queued, and nobody who waits for the active event was.

**`InetdProofs`.** `AInv` takes `OneAnswer` and `PendingTimed` together with
`Unanswered` (a pending question has not been told anything), `PendingOnce` (a
question is pending under one key only) and `NothingToldYet` (questions not yet
asked). Telling removes the pending entry, so the next answer finds none.
Theorems: `TypeCorrect`, `ToldOnce`, `NoForgottenRequest`; all with reloads, any
number of muds, retries and parts.

Its second half is about the network. With a reload ids start again (section 6); without one `NInv` is
inductive: ids of questions and packets are at most the counter of who gives them
out (`IdsGiven`), so a new one is free. Hence an asker's id belongs to one question in
its request and all its replies (`OneQuestion`), the one that is pending under it
(`PendingQuestion`); the parts of a packet carry the same data (`OnePacket`); buffers
and `received_ids` hold what was sent (`BuffersSent`, `ReceivedSent`). Whole packets have
no packet id of their own, and a reply carries the id of its request and the
packet id of its sender: that the two kinds of ids come from one counter is what the proof
of a reply in parts turns on. Theorems: `AnswersMatch`, `PacketsNotMixed`, `RepeatsRepeat`.

**`SessionProofs`.** `IInv == TypeOK /\ OneConnection /\ Awake /\ Settled /\ Listed`. `Awake`
is what is true of one player object, given whether it has a connection; it
contains `HeartBeatsPaired` and says that only an object with a connection has
commands and questions. `Settled` is about a character that has its shell:
nobody is at a question that only new characters are asked, a login object at the
password has the shell of the savefile, and the only object is of that shell and, without connection, in
the table of the link-dead. It yields `LinkDeadIsFound`, and without its clause about the
copies of the shell it is not inductive. `ThingsKept` follows for every step.
`NamedIsInitialised` is proved for `OldSaves` without `"partial"`: with such a savefile it is
false (section 6), without it `Complete`, that the savefile answers every question once it exists
and that no player object is at one after it has its name, is inductive as well. Theorems:
`SessionTypeCorrect`, `SessionOneConnection`, `SessionHeartBeatsPaired`,
`SessionLinkDeadIsFound`, `SessionThingsKept`, `SessionNamedIsInitialised`.

**`ListProofs`.** What filtering an array keeps: elements, their order, that none is there
twice, the first one (`ThoseHas`, `ThoseTaken`, `ThoseOnce`, `ThoseFirst`), and what
commutes with it (`ThoseOfThose`, `ThoseReplaced`). Both `Those` and the folds of the community
modules are recursive functions defined by CHOOSE. `FoldExists` and `ThoseRun` show that the
chosen one satisfies its equations, by the least length for which it does not; `RunExists`
gives the intermediate results of a fold, along which `StaysIn` carries what holds of the first to the last.

**`ChanneldProofs`.** `IInv` is that `chd` is in `Good`, and types. `Good` is a set of states of the
daemon, which makes `New`, `Join`, `Leave` and `Send` functions from it to it and a loop over names a
fold that stays in it. A channel in it (`ChannelOK`) may hold destructed members: those that are
there are different ones, and the master is the first of them. For a
list that may have members destructed in between this is not the same as the master being
the first element, and `Leave` hands over to the second of those that are left after
the destructed were taken out. `ListSurvivesLogout` follows from what `Leave` does to the other
channels: nothing, so a name that is on the list once cannot fail. Theorems:
`ChanneldChannelsOK`, `ChanneldListSurvives`, for any players, channels and limits.

**`HookProofs`.** `ArrayOK` is what an array is that the hook has, or had and that somebody still
holds: within the limit, of one type, no consumer twice apart from holes. It has to be
true of the array that a registration under way writes back, which may be an old one
(`own = FALSE`) with holes. `FlowOK` says of a flow how far it is (`Done`): who is valid up to there
has been called, nobody behind has. A registration during a flow keeps it, because a new entry is none
of those in the array the flow holds (`NewEntryIs`: of three numbers one is free, as an
array has at most one entry of a consumer) and `valid` shrinks otherwise. Theorems:
`HookConsumersOK`, `HookEachCalledOnce`, `HookLowestGoes`, for any consumers, priorities and limits.

**`TravelProofs`.** `Sound` is what is true of one transport: `IndexOK`, `Single`, `Stationed` from
the checked invariants, `Rested` (one whose route was removed has no call_out of
`changeHp()` until `Start()`, without which `changeHp()` would step beyond an empty route)
and `Moored` (an open one is at a harbour, to which who leaves is taken). One lemma
per operation shows that it keeps `Sound`; the register's lemmas show the same of `Agree`.
`TravelPutAshore` needs besides that nothing but `connect()` makes a transport reach
a harbour. Theorems: `TravelTypeCorrect`, `TravelOneChain`, `TravelDocked`,
`TravelTablesAgree`, `TravelPutAshore`, for any transports, routes and players.

**`LivingProofs`**, the team. `Good(roomy, A, known)` are the teams of members of `A`, when the
players list the NPCs `known`: whoever leads is a member or was destructed, the lengths are
possible ones, `Standings` says that each member stands in one place of one row, and an
NPC that holds a player is a member with him and listed by him. `IInv` is that the team is
such a one of those alive, and that `P_TEAM_ASSOC_MEMBERS` of both sides agree in the one
direction that the code keeps (a player's NPCs hold him). Why each part is needed:
`DoRemoveMember` keeps `Good` only if nobody holds who leaves - which is so after
`RemoveAssocs`, because all who hold him are listed by him (`Leaving` says what the team
is like on the way, `Fewer` that who was let go is not held again). `OthersStay` adds who
leaves: exactly those who held him (`RemoveMemberAndAssocsGood`), while the rest keep
whom they hold and somebody of them leads; so `RemoveSingles` sees a player alone with his own NPCs
as he was before, unless an NPC leads, and if it dissolves the team nobody is left, because who
holds the leader leaves with him. That everyone stands in one row does not
depend on how they were moved: `MakeFormation` ends in `UpdateActRow`, which puts each
into the row `RowOf` names (`MakeFormationIs`); only `Swapped` needs its own lemma.
`CheckFormationIs` shows the lengths to be possible for any wishes, also senseless
ones. A fold is taken apart by `ListProofs`, which needs a set that each step stays in:
`Good` and `Leaving` are these sets. `TeamAssumption` says that an order names all living
ones once (the program sorts them), from which there are finitely many; requests are numbers
of any size.

How long the rows are is a matter of `Formed`, a part of `Good`: no row is shorter than its
minimum, the first minimum is at least 1, and if the rows have a place for all (`roomy`) no
row is longer than its maximum. The invariant is kept both ways: `IInv(FALSE)` without
any condition, `IInv(TRUE)` while there are no more members than places. It needs the lengths
taken to fit the members (`CheckFormationIs`: the minima add up to no more than there are, the
maxima to no less) and then that `MakeFormation` ends between them. Its two passes are about `Ahead[i]`, how many stand in
the first `i` rows, because giving from row `i` to row `j` changes `Ahead` only at
`j .. i - 1` (`Shifts`). On the way there, when row `i` is done, the first `i` rows are within their maxima and
together have at least their minima (`Advanced`). On the way back the rows behind row `i`
have a length between their minimum and their maximum, while the first `i` rows together still
have enough and not too many for theirs (`Returned`); at the first row that is
`InOrder` (`FormationSettles`). If the rows have no room for all, only the first one can be too
long (`Settled`), and the minima, which the other theorems use, hold all the same.
`PresentRows` takes from the rows behind until the first has its minimum or they are empty
(`FillRowsIs`), so somebody who is there stands in it (`PresentFirst`), the minimum being at least 1.

Theorems: `TeamTeamOK`, `TeamEveryoneInOneRow`, `TeamAssocsAgree`, `TeamOthersStay`,
`TeamFirstRowHolds`, for any players, NPCs, orders, requests and limits, and `TeamRowsWithin` as
long as the rows have a place for all members (`TeamFits`). The code refuses players beyond
`MAX_TEAM_MEMBERS`, but not NPCs; with more members than places no formation is within the
limits, and the first row gets longer than `MAX_TEAM_ROWLEN` (section 6).

**`LivingProofs`**, the skill attributes. `Counted` says what the cache still means when casters
have vanished: there are a table and a set of dynamic modifiers, of which those left are a part,
so that sum and earliest end are the table's and the count is of both. If the count is
that of those left, the table is the present one and the sum is right. Each way through
the code that adjusts the count alone breaks `Counted`, which is why the theorem, like the
invariant, excepts them (`miscounted`, section 6). That the sum is a number at all needs
induction over a finite set, `MapThenSumSet` being recursive: `SumInt` (`ListProofs`) takes
the smallest size for which a function with the recursion's equations or a
value of it is missing, and builds it from the one below. `KeptToTheEnd` is proved action by
action: queries, refused calls and time take nothing that is not over (`NothingTaken`, the clean-up
included), a closure that is no longer one takes its caster's (`ClosureTaken`), and
whatever else is taken or changed is that of who acts (`OwnOnly`). Theorems: `SkillModifiersOK`,
`SkillCacheRight`, `SkillNotTooMany`, `SkillKeptToTheEnd`.

**Only proved.** `ActiveListed`, `PendingTimed`, `HeartBeatsPaired` and `TablesAgree` are parts of
the inductive invariants and hold for all constants; no run repeats them.

**Only model-checked.** Liveness (temporal reasoning with fairness and ENABLED is
out of the prover's reach).

## 6. What was found

With a run that shows it (`session_one_body`; quotation in `PROJECT.json`):

* `login.c:710`: two logins of a new character that are both at the question for
  the race get two player objects, which play with one savefile.

Found with the models, each reproduced by the model checker while the module was written;
the models have the code as it is:

* `eventd.c:247`: an event keeps its entry after `process_events()` struck off its
  last listener, so `TriggerEvent()` accepts it; `doc/lfun/TriggerEvent:40` has it
  return -3.
* `eventd.c:248`: a listener that was reloaded and registered another function
  during an event loses the new registration with the old one (`:244` speaks
  of objects that are not found and closures that cannot be made).
* `channeld.c:514`: once a channel has vanished, the history is no longer the
  mapping kept in the memory; a reload brings an old one back, although
  `:296` says the history outlives a reload.
* `channel.c:488`: "ebene beschreibung" writes to a copy (`doc/pcmd/ebenen:56`: it changes the
  description).
* `channel.c:105`: a second "ebene aus" leaves channels joined meanwhile on
  (`doc/pcmd/ebenen:23`: it switches the channels off).
* `inetd.c:776`: a buffered part that has the name of a pending request never
  expires (`:311`: "If no timeout is running then start one").
* `inetd.c:106`: packet ids start again after a reload, though mud and id are to be
  unique (`doc/concepts/intermud.basic:49`); parts of two packets can be put together and an
  old reply told to a new question.
* `hook_provider.c:104`: `CleanHookMapping()` sets entries to 0 in the array that a running
  `HookFlow()` iterates over. When a consumer unregisters or dies during a flow and
  another one registers, the flow reads `h->cl` of 0 and ends with an error; the
  other consumers are not called (`doc/std/hooks:94`: in every consumer).
* `hook_provider.c:328`: the array written back after a superseded consumer was told undoes
  the registrations it made meanwhile, though they were answered with success.
* `skill_attributes.c:137`: with a full list the count is adjusted to the modifiers that are
  left without the sum being computed, if the new value then is out of range. The
  number is the only trace of a caster who vanished, so his modifier counts on
  until the next one expires; `:266` says the cache is computed anew. A closure
  that removes its own modifier and returns no number does the same to the count.
* `skill_attributes.c:312`: without names `QuerySkillAttributeModifier()` updates nothing,
  because the test for it in `UpdateSACache()` is the wrong way round.
* `team.c:710`: `ChangeLeader()` tests `leader` twice instead of the candidate, so
  that an NPC can be made leader in spite of "Nur ein Spieler kann das Team leiten."
  `RemoveSingles()` takes the team for one of NPCs then (`:946`): if of two players and an
  NPC of the second, who leads, the first leaves, the team of the second goes on with
  nobody but his own NPC. Without the command `:909` does it, if nobody left has a link and an NPC stands first.
* `base.c:548`: a player with an old savefile that lacks an answer of `InitPlayer()` who loses the link
  at the question is let in by `Reconnect()` without `InitPlayer4()` and thrown out by the
  call_out that is left (`NamedIsInitialised` with `"partial"` in `OldSaves`).
* `login.c:590`: a login object saves all its variables, the shell as it was when the
  name was given included.
* `transport.c:131`: `HasRoute()` indexes the route with -1 between `Start()` and the first
  `changeHp()`; "reise nach" ends with an error.
* `transport.c:257`: `RemoveRoute()` asks the register to forget the transport, which it
  refuses to everyone below an arch wizard (`traveld.c:161`): the register keeps a transport without
  a route until it reports another one.
* `travel.c:492`: "reise mit" keeps a destination at which the player already is and takes him
  on a round trip; `travel.c:269`, `:306`, `:401`: "Aber das tust Du doch bereits." looks at the destination only
  and not at whether the information is in force.

Seen while reading: `eventd.c:240` writes the active copy's new closure over a newer
registration's; a channel's history is not deleted from the memory with the
channel (`channeld.c:513`, `:617`); a history holds one message more than its limit
(`:537`); `remove()` returns an error though it removed the channel when the cache entry is
gone (`:623`); a second "ebene aus" overwrites `P_SWAP_CHANNELS` with what is left
(`channel.c:529`); REPEAT is read by no module in `secure/udp`, so the retry of a `tell`
whose reply was lost is delivered twice; the reply from a mud that was renamed
meanwhile is thrown away; in `obj/team.c` the wrong key is deleted at `:1376`, and
`:909` compares where it means to assign, and only
players are counted when somebody wants to join (`:775`), so that a team with NPCs may have more
members than its rows have places; `DeAssocMember()` never resets
the NPC's side (`std/living/team.c:398`); `Leave()` of a transport drops the travel information
before a move that may be refused (`transport.c:332`); a move of units keeps its amount in the
object, so that a second move of the same object started from the target's
reaction loses or doubles units (`unit.c:373`); in the last second of its time a dynamic
modifier is no longer called (`skill_attributes.c:290`, `>`), though the clean-up keeps it
(`:90`) and a static one still counts (`:75`).

## 7. What is not modelled

* *Eventd*: statistics, logging and debugging queries; the text of the
  arguments; the order of listeners, which is that of a mapping. The data of an
  event is its number.
* *Channeld*: who may use a channel (levels, bans), the commands of the daemon's
  own channel, abbreviations, all texts and formats, and the time stamps of the cache (an
  entry may expire at any `Reset`); channels of `channeld.init` that have an object as
  master, which joins them again by itself and which are not removed when they are empty.
* *Inetd*: the list of hosts, status and address changes, refused requests (all
  muds know each other and all commands), packets without an id, the
  format of a packet, the modules in `secure/udp`; the errors of `_send_udp()`, a packet that
  cannot be encoded (`inetd.c:701`, the entry is removed again) or sent (`:735`, the asker is told of
  an error while the request stays pending and is retried). A retried packet is the same packet:
  the order of its fields, which is a mapping's, is taken to be stable.
* *Session*: guests, logins from other muds' web gateways, limits of logins, bans,
  what the questions ask, the history of commands, telnet negotiation.
* *Hooks*: the data that a flow carries and its change by modifiers, `offerHook()`
  withdrawing a hook, side effects of the surveyors' answers, a flow that a consumer
  starts from its callback; the provider has one hook.
* *Skill attributes*: offsets and limits of the result; attributes do not depend
  on each other but for `SA_QUALITY`, a factor. A closure that queries or updates attributes
  while a query runs it, or that ends with an error.
* *Teams*: the common attack, following the leader, exchange of hit points, the choice of
  an enemy, the names of teams. Scores are any order. `InformRowChange()` (`team.c:463`) calls
  the hook and the NPCs that changed rows in the middle of a command; they are taken to
  leave the team alone. NPCs have no NPCs of their own (`AddAssocMember()` would accept it).
* *Travel*: transports with `P_NO_TRAVELING`, the wizards' shortcut, moves of players that are
  refused, moves of the transport that are refused with an error code instead of an
  error (`transport.c:422`), `_set_route()` (`:70`; nothing in the repository sets the property, which
  would change the route and keep call_outs and position), the refusal of transports
  below `/p/` and `/players/` by the register (`traveld.c:181`),
  destruction and reload of a transport, players who quit aboard,
  `__restart()`, which the master calls after the driver gave up all call_outs, and texts.
  A reload of the register changes nothing: its tables are kept in the memory.
* *Driver*: memory limits, discarded call_outs, errors outside `catch()`.
* *The components of section 1 without a module*; the reason is given for each
  in `PROJECT.json`. Most of the mudlib's lines are rooms, commands, texts, tools for
  wizards and combat arithmetic, where one call changes one object: there is little in
  them that an interleaving, a failure or an order of calls could break, and no
  share of all lines that a model of what is hard could reach.
