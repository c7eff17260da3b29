-------------------------------- MODULE Eventd --------------------------------
(***************************************************************************)
(* The event dispatcher /p/daemon/eventd.c.                                *)
(*                                                                         *)
(* The driver is single-threaded: process_events() runs in one call_out,   *)
(* but every listener it calls may call back into the dispatcher, destruct *)
(* objects or load them.  The module therefore cuts process_events() at    *)
(* the callbacks: proc says where it stands, and while it is "idle" or in  *)
(* a "call" the rest of the mud acts.                                      *)
(*                                                                         *)
(* An evaluation tick here is TICKSPERCALLBACK, the most one callback may  *)
(* use; Budget is what a fresh call_out may use above TICK_RESERVE.        *)
(***************************************************************************)
EXTENDS Naturals, Sequences, FiniteSets

CONSTANTS
  EventIds,     \* event ids
  Names,        \* object names of possible listeners
  Funs,         \* names of callback functions
  Interfaces,   \* the sets of public functions a listener may be loaded with
  Nil,          \* the LPC value 0
  Budget,       \* ticks of one call_out above the reserve
  MaxPending,   \* __MAX_ARRAY_SIZE__/5
  MaxTriggers   \* bound: number of accepted TriggerEvent() calls

Entry     == [fun : Funs, cl : Funs \cup {Nil}]
Triggered == [id : Nat, eid : EventIds]
Active    == [id : Nat, eid : EventIds, listeners : [Names -> Entry \cup {Nil}]]

ASSUME EventdAssumption ==
  /\ Interfaces \subseteq (SUBSET Funs) \ {{}}
  /\ Nil \notin Funs \cup Names
  /\ Nil \notin Entry
  /\ Nil \notin Triggered
  /\ Nil \notin Active
  /\ Budget \in Nat \ {0}
  /\ MaxPending \in Nat
  /\ MaxTriggers \in Nat

VARIABLES
  offers,     \* per name the functions of the loaded object; {}: destructed
  known,      \* the keys of the mapping events
  events,     \* events[eid][obname]: function name and closure, or Nil
  pending,    \* queue of triggered events
  active,     \* the event being processed with its own copy of the listeners
  callouts,   \* number of call_outs to process_events()
  updateme,   \* reload as soon as nothing is left to do
  proc,       \* process_events(): idle, while head, foreach head, callback
  cur,        \* the listener being called, or Nil
  ticks,      \* ticks left to the running process_events()
  triggers,   \* history: number of accepted triggers
  delivered,  \* history: <<trigger number, name>> called
  settled,    \* history: trigger numbers completely processed
  lost        \* history: trigger numbers thrown away unprocessed

qvars == <<known, events, pending, active>>
hvars == <<triggers, delivered, settled, lost>>
pvars == <<proc, cur, ticks>>
vars  == <<offers, qvars, callouts, updateme, pvars, hvars>>

Listeners(m) == {n \in Names : m[n] # Nil}
NoListeners  == [n \in Names |-> Nil]

\* Code outside of process_events() runs between call_outs and in callbacks.
OthersRun == proc \in {"idle", "call"}

Init ==
  /\ offers = [n \in Names |-> {}]
  /\ known = {}
  /\ events = [e \in EventIds |-> NoListeners]
  /\ pending = <<>>
  /\ active = Nil
  /\ callouts = 0
  /\ updateme = FALSE
  /\ proc = "idle" /\ cur = Nil /\ ticks = 0
  /\ triggers = 0 /\ delivered = {} /\ settled = {} /\ lost = {}

-----------------------------------------------------------------------------
(* The public interface; calls that only return an error code change       *)
(* nothing and are left out.                                               *)

RegisterEvent(eid, fun, ob) ==
  /\ OthersRun
  /\ fun \in offers[ob]
  /\ known' = known \cup {eid}
  /\ events' = [events EXCEPT ![eid][ob] = [fun |-> fun, cl |-> fun]]
  /\ UNCHANGED <<offers, pending, active, callouts, updateme, pvars, hvars>>

UnregisterEvent(eid, ob) ==
  /\ OthersRun
  /\ offers[ob] # {}
  /\ eid \in known
  /\ events[eid][ob] # Nil
  /\ events' = [events EXCEPT ![eid][ob] = Nil]
  /\ known' = IF Listeners(events'[eid]) = {} THEN known \ {eid} ELSE known
  /\ active' = IF active # Nil /\ active.eid = eid
                 THEN [active EXCEPT !.listeners[ob] = Nil] ELSE active
  /\ UNCHANGED <<offers, pending, callouts, updateme, pvars, hvars>>

\* Faulty variant: schedules without looking for a running call_out.
TriggerAlwaysSchedules(eid) ==
  /\ OthersRun
  /\ triggers < MaxTriggers
  /\ eid \in known
  /\ Len(pending) <= MaxPending
  /\ triggers' = triggers + 1
  /\ pending' = Append(pending, [id |-> triggers', eid |-> eid])
  /\ callouts' = callouts + 1
  /\ UNCHANGED <<offers, known, events, active, updateme, pvars,
                 delivered, settled, lost>>

TriggerEvent(eid) ==
  /\ OthersRun
  /\ triggers < MaxTriggers
  /\ eid \in known
  /\ Len(pending) <= MaxPending
  /\ triggers' = triggers + 1
  /\ pending' = Append(pending, [id |-> triggers', eid |-> eid])
  /\ callouts' = IF callouts = 0 THEN 1 ELSE callouts
  /\ UNCHANGED <<offers, known, events, active, updateme, pvars,
                 delivered, settled, lost>>

-----------------------------------------------------------------------------
(* The dispatcher is destructed and loaded again.  save_object() keeps     *)
(* neither closures nor objects, and only the mapping events is saved.     *)

Unprocessed ==
  {pending[i].id : i \in DOMAIN pending}
    \cup (IF active = Nil THEN {} ELSE {active.id})

Unbound(m) == [n \in Names |-> IF m[n] = Nil THEN Nil ELSE [m[n] EXCEPT !.cl = Nil]]

Reloaded ==
  /\ events' = [e \in EventIds |-> Unbound(events[e])]
  /\ pending' = <<>>
  /\ active' = Nil
  /\ callouts' = 0
  /\ updateme' = FALSE
  /\ lost' = lost \cup Unprocessed
  /\ UNCHANGED known

\* remove() called from outside, e.g. by a wizard updating the daemon.
Remove ==
  /\ proc = "idle"
  /\ Reloaded
  /\ UNCHANGED <<offers, pvars, triggers, delivered, settled>>

ReadyForUpdate == active = Nil /\ pending = <<>>

UpdateMe(flag) ==
  /\ OthersRun
  /\ IF flag /\ callouts = 0 /\ ReadyForUpdate
       THEN Reloaded
       ELSE updateme' = flag /\ UNCHANGED <<qvars, callouts, lost>>
  /\ UNCHANGED <<offers, pvars, triggers, delivered, settled>>

Reset ==
  /\ proc = "idle"
  /\ updateme /\ ReadyForUpdate
  /\ Reloaded
  /\ UNCHANGED <<offers, pvars, triggers, delivered, settled>>

\* The mud goes down, possibly in the middle of everything, and boots again:
\* create() finds a different __BOOT_TIME__ and forgets all registrations.
Reboot ==
  /\ offers' = [n \in Names |-> {}]
  /\ known' = {}
  /\ events' = [e \in EventIds |-> NoListeners]
  /\ pending' = <<>>
  /\ active' = Nil
  /\ callouts' = 0
  /\ updateme' = FALSE
  /\ proc' = "idle" /\ cur' = Nil /\ ticks' = 0
  /\ lost' = lost \cup Unprocessed
  /\ UNCHANGED <<triggers, delivered, settled>>

-----------------------------------------------------------------------------
(* process_events()                                                        *)

\* The call_out is due; the first statement schedules the next one.
CallOutDue ==
  /\ proc = "idle"
  /\ callouts > 0
  /\ proc' = "while"
  /\ ticks' = Budget
  /\ UNCHANGED <<offers, qvars, callouts, updateme, cur, hvars>>

TakePending ==
  /\ proc = "while" /\ ticks > 0
  /\ active = Nil /\ pending # <<>>
  /\ active' = [id |-> Head(pending).id, eid |-> Head(pending).eid,
                listeners |-> events[Head(pending).eid]]
  /\ pending' = Tail(pending)
  /\ proc' = "foreach"
  /\ UNCHANGED <<offers, known, events, callouts, updateme, cur, ticks, hvars>>

\* An event that ran out of ticks in an earlier cycle is continued.
ResumeActive ==
  /\ proc = "while" /\ ticks > 0
  /\ active # Nil
  /\ proc' = "foreach"
  /\ UNCHANGED <<offers, qvars, callouts, updateme, cur, ticks, hvars>>

\* Faulty variant: the call_out is removed when the ticks ran out, too.
EndAlwaysRemovesCallOut ==
  /\ proc = "while"
  /\ ticks = 0 \/ ReadyForUpdate
  /\ proc' = "idle"
  /\ IF updateme /\ ReadyForUpdate
       THEN Reloaded
       ELSE /\ callouts' = callouts - 1
            /\ UNCHANGED <<qvars, updateme, lost>>
  /\ UNCHANGED <<offers, cur, ticks, triggers, delivered, settled>>

\* Faulty variant: replaces itself although events are waiting.
EndUpdatesAtOnce ==
  /\ proc = "while"
  /\ ticks = 0 \/ ReadyForUpdate
  /\ proc' = "idle"
  /\ IF updateme
       THEN Reloaded
       ELSE /\ callouts' = IF ticks > 0 THEN callouts - 1 ELSE callouts
            /\ UNCHANGED <<qvars, updateme, lost>>
  /\ UNCHANGED <<offers, cur, ticks, triggers, delivered, settled>>

\* Faulty variant: leaves the update to the next reset().
EndWithoutUpdate ==
  /\ proc = "while"
  /\ ticks = 0 \/ ReadyForUpdate
  /\ proc' = "idle"
  /\ callouts' = IF ticks > 0 THEN callouts - 1 ELSE callouts
  /\ UNCHANGED <<qvars, updateme, lost>>
  /\ UNCHANGED <<offers, cur, ticks, triggers, delivered, settled>>

\* The while loop ends: nothing left to do, or no ticks left.  Then the
\* dispatcher replaces itself if it was asked to and has nothing to do.
EndProcessing ==
  /\ proc = "while"
  /\ ticks = 0 \/ ReadyForUpdate
  /\ proc' = "idle"
  /\ IF updateme /\ ReadyForUpdate
       THEN Reloaded
       ELSE /\ callouts' = IF ticks > 0 THEN callouts - 1 ELSE callouts
            /\ UNCHANGED <<qvars, updateme, lost>>
  /\ UNCHANGED <<offers, cur, ticks, triggers, delivered, settled>>

\* The closure of the visited entry is callable; a dead one is looked up
\* again under the name of its object, and repaired in events too.
CallListener(n) ==
  /\ proc = "foreach" /\ ticks > 0
  /\ active.listeners[n] # Nil
  /\ LET l == active.listeners[n] IN
       \/ /\ l.cl # Nil
          /\ UNCHANGED events
       \/ /\ l.cl = Nil
          /\ l.fun \in offers[n]
          /\ events' = [events EXCEPT ![active.eid][n].cl = l.fun]
  /\ proc' = "call" /\ cur' = n
  /\ delivered' = delivered \cup {<<active.id, n>>}
  /\ UNCHANGED <<offers, known, pending, active, callouts, updateme, ticks,
                 triggers, settled, lost>>

\* The object or its function is gone: strike the listener off both lists.
DropListener(n) ==
  /\ proc = "foreach" /\ ticks > 0
  /\ active.listeners[n] # Nil
  /\ active.listeners[n].cl = Nil
  /\ active.listeners[n].fun \notin offers[n]
  /\ active' = [active EXCEPT !.listeners[n] = Nil]
  /\ events' = [events EXCEPT ![active.eid][n] = Nil]
  /\ UNCHANGED <<offers, known, pending, callouts, updateme, pvars, hvars>>

\* Faulty variant: the informed listener stays on the list.
DoneKeepsListener ==
  /\ proc = "call"
  /\ proc' = "foreach" /\ cur' = Nil
  /\ ticks' \in {ticks - 1, ticks}
  /\ UNCHANGED <<offers, known, events, active, pending, callouts, updateme, hvars>>

\* The callback returns, or catch(limited()) ends it.
ListenerDone ==
  /\ proc = "call"
  /\ active' = [active EXCEPT !.listeners[cur] = Nil]
  /\ proc' = "foreach" /\ cur' = Nil
  /\ ticks' \in {ticks - 1, ticks}
  /\ UNCHANGED <<offers, known, events, pending, callouts, updateme, hvars>>

\* Faulty variant: running out of ticks drops the active event's call_out.
SuspendForgetsCallOut ==
  /\ proc = "foreach" /\ ticks = 0
  /\ Listeners(active.listeners) # {}
  /\ proc' = "idle"
  /\ callouts' = 0
  /\ UNCHANGED <<offers, qvars, updateme, cur, ticks, hvars>>

\* No ticks left in the foreach: the next cycle goes on with this event.
Suspend ==
  /\ proc = "foreach" /\ ticks = 0
  /\ Listeners(active.listeners) # {}
  /\ proc' = "idle"
  /\ UNCHANGED <<offers, qvars, callouts, updateme, cur, ticks, hvars>>

FinishEvent ==
  /\ proc = "foreach"
  /\ Listeners(active.listeners) = {}
  /\ settled' = settled \cup {active.id}
  /\ active' = Nil
  /\ proc' = "while"
  /\ UNCHANGED <<offers, known, events, pending, callouts, updateme, cur, ticks,
                 triggers, delivered, lost>>

ProcessEvents ==
  \/ TakePending \/ ResumeActive \/ EndProcessing
  \/ Suspend \/ FinishEvent
  \/ \E n \in Names : CallListener(n) \/ DropListener(n)

-----------------------------------------------------------------------------
(* The objects (external: the driver).  A destructed object takes all its  *)
(* closures with it; a blueprint loaded again has its old name.            *)

LoadObject(n) ==
  /\ OthersRun
  /\ offers[n] = {}
  /\ \E fs \in Interfaces : offers' = [offers EXCEPT ![n] = fs]
  /\ UNCHANGED <<qvars, callouts, updateme, pvars, hvars>>

Killed(m, n) == IF m[n] = Nil THEN m ELSE [m EXCEPT ![n].cl = Nil]

DestructObject(n) ==
  /\ OthersRun
  /\ offers[n] # {}
  /\ offers' = [offers EXCEPT ![n] = {}]
  /\ events' = [e \in EventIds |-> Killed(events[e], n)]
  /\ active' = IF active = Nil THEN Nil
                 ELSE [active EXCEPT !.listeners = Killed(@, n)]
  /\ UNCHANGED <<known, pending, callouts, updateme, pvars, hvars>>

-----------------------------------------------------------------------------
Users ==
  \/ \E e \in EventIds, n \in Names :
        UnregisterEvent(e, n) \/ \E f \in Funs : RegisterEvent(e, f, n)
  \/ \E e \in EventIds : TriggerEvent(e)
  \/ \E flag \in BOOLEAN : UpdateMe(flag)
  \/ Remove \/ Reset \/ Reboot
  \/ \E n \in Names : LoadObject(n) \/ DestructObject(n)

Next == Users \/ CallOutDue \/ ProcessEvents \/ ListenerDone

\* The driver runs due call_outs, process_events() goes on running, and
\* limited() ends every callback.
Fairness == WF_vars(CallOutDue) /\ WF_vars(ProcessEvents) /\ WF_vars(ListenerDone)

Spec     == Init /\ [][Next]_vars
FairSpec == Spec /\ Fairness

-----------------------------------------------------------------------------
(* Properties                                                              *)

\* The type invariant; in particular find_call_out() before call_out() keeps
\* process_events() from ever being scheduled twice.
TypeOK ==
  /\ offers \in [Names -> SUBSET Funs]
  /\ known \in SUBSET EventIds
  /\ events \in [EventIds -> [Names -> Entry \cup {Nil}]]
  /\ pending \in Seq(Triggered)
  /\ active \in Active \cup {Nil}
  /\ callouts \in {0, 1}
  /\ updateme \in BOOLEAN
  /\ proc \in {"idle", "while", "foreach", "call"}
  /\ cur \in Names \cup {Nil}
  /\ ticks \in 0 .. Budget
  /\ triggers \in Nat
  /\ delivered \in SUBSET (Nat \X Names)
  /\ settled \in SUBSET Nat
  /\ lost \in SUBSET Nat

\* Whenever an event is waiting or half processed a call_out is scheduled, so
\* no event is stranded until somebody triggers another one.
NoLostWakeup == ~ReadyForUpdate => callouts = 1

\* Who is still to be informed of the active event is registered for it, and
\* the event has an entry in events.  process_events() relies on this when it
\* writes events[eid][obname,...] and deletes from events[eid]: on a missing
\* mapping it would fail, in every cycle, on the same active event.
ActiveListed ==
  active # Nil =>
    /\ Listeners(active.listeners) \subseteq Listeners(events[active.eid])
    /\ Listeners(active.listeners) # {} => active.eid \in known

\* Replacing the dispatcher on request (UpdateMe) never throws away an event:
\* only remove() called by somebody else and a reboot do.
UpdateLosesNothing == [][lost' # lost => Remove \/ Reboot]_vars

\* What a listener registers for is delivered: Eventd implements the
\* abstract dispatcher.  An event under way waits for the listeners on its
\* list, the one being called not counted; each of them is informed once,
\* in the order of the triggers, and not after it unregistered.
Registered == [e \in EventIds |-> Listeners(events[e])]
Current    == IF active = Nil THEN Nil ELSE [id |-> active.id, eid |-> active.eid]
Waiting    == IF active = Nil THEN {}
                ELSE Listeners(active.listeners) \ (IF proc = "call" THEN {cur} ELSE {})

Delivery == INSTANCE EventDelivery WITH
  registered <- Registered, queue <- pending, current <- Current,
  remaining <- Waiting, informed <- delivered

ImplementsDelivery == Delivery!DSpec

\* Every accepted event is completely processed, or lost with a reload or
\* reboot: neither the tick limit nor an unreachable listener nor a listener
\* that registers, unregisters or dies in a callback holds it up for ever.
EveryEventSettles ==
  \A i \in 1 .. MaxTriggers : (triggers >= i) ~> (i \in settled \cup lost)

\* A requested update takes place, or is called off, without waiting for the
\* driver's reset().
UpdateHappens == updateme ~> ~updateme
=============================================================================
