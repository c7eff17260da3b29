---------------------------- MODULE EventdProofs ----------------------------
(***************************************************************************)
(* Safety of the event dispatcher for any number of objects, events,       *)
(* triggers and ticks, and that it implements EventDelivery.  IInv is the  *)
(* inductive invariant: the properties themselves and what the position of *)
(* process_events() says about the rest of the state.                      *)
(***************************************************************************)
EXTENDS Eventd, TLAPS

ProcOK ==
  /\ proc # "idle" => callouts = 1
  /\ proc \in {"foreach", "call"} => active # Nil
  /\ proc = "call" => cur # Nil /\ ticks > 0

ListedOK == \A e \in EventIds : Listeners(events[e]) # {} => e \in known

IInv == TypeOK /\ NoLostWakeup /\ ActiveListed /\ ProcOK /\ ListedOK

-----------------------------------------------------------------------------
LEMMA InitInv == Init => IInv
<1> SUFFICES ASSUME Init PROVE IInv
  OBVIOUS
<1>1. TypeOK
  <2>1. pending \in Seq(Triggered) /\ ticks \in 0 .. Budget
    BY EventdAssumption DEF Init, EventdAssumption
  <2>2. events \in [EventIds -> [Names -> Entry \cup {Nil}]]
    BY DEF Init, NoListeners
  <2> QED BY <2>1, <2>2 DEF Init, TypeOK
<1>2. \A e \in EventIds : Listeners(events[e]) = {}
  BY DEF Init, Listeners, NoListeners
<1> QED BY <1>1, <1>2
  DEF Init, IInv, NoLostWakeup, ActiveListed, ProcOK, ListedOK, ReadyForUpdate

LEMMA RegisterInv ==
  ASSUME IInv, NEW e \in EventIds, NEW f \in Funs, NEW n \in Names, RegisterEvent(e, f, n)
  PROVE  IInv'
<1> USE DEF RegisterEvent, IInv, pvars, hvars
<1>1. TypeOK'
  BY EventdAssumption DEF TypeOK, Entry
<1>2. NoLostWakeup'
  BY DEF NoLostWakeup, ReadyForUpdate
<1>3. Listeners(events'[e]) = Listeners(events[e]) \cup {n}
  BY EventdAssumption DEF Listeners, TypeOK, Entry
<1>4. \A d \in EventIds \ {e} : events'[d] = events[d]
  BY DEF TypeOK
<1>5. ActiveListed' /\ ListedOK'
  BY <1>3, <1>4 DEF ActiveListed, ListedOK, TypeOK, Active, Listeners
<1>6. ProcOK'
  BY DEF ProcOK
<1> QED BY <1>1, <1>2, <1>5, <1>6

LEMMA UnregisterInv ==
  ASSUME IInv, NEW e \in EventIds, NEW n \in Names, UnregisterEvent(e, n)
  PROVE  IInv'
<1> USE DEF UnregisterEvent, IInv, pvars, hvars
<1>1. TypeOK'
  BY EventdAssumption DEF TypeOK, Entry, Active
<1>2. NoLostWakeup'
  BY EventdAssumption DEF NoLostWakeup, ReadyForUpdate, TypeOK, Active
<1>3. Listeners(events'[e]) = Listeners(events[e]) \ {n}
  BY EventdAssumption DEF Listeners, TypeOK, Entry
<1>4. \A d \in EventIds \ {e} : events'[d] = events[d]
  BY DEF TypeOK
<1>5. ListedOK'
  BY <1>3, <1>4 DEF ListedOK, Listeners
<1>6. ActiveListed'
  BY <1>3, <1>4, <1>5, EventdAssumption
  DEF ActiveListed, ListedOK, TypeOK, Active, Listeners
<1>7. ProcOK'
  BY EventdAssumption DEF ProcOK, TypeOK, Active
<1> QED BY <1>1, <1>2, <1>5, <1>6, <1>7

LEMMA TriggerInv ==
  ASSUME IInv, NEW e \in EventIds, TriggerEvent(e)
  PROVE  IInv'
<1> USE DEF TriggerEvent, IInv, pvars, hvars
<1>1. pending' \in Seq(Triggered) /\ pending' # <<>>
  BY DEF TypeOK, Triggered
<1>2. TypeOK'
  BY <1>1 DEF TypeOK
<1>3. NoLostWakeup' /\ ProcOK'
  BY DEF NoLostWakeup, ProcOK, TypeOK
<1>4. ActiveListed' /\ ListedOK'
  BY DEF ActiveListed, ListedOK, Listeners
<1> QED BY <1>2, <1>3, <1>4

\* The registrations survive a reload, with dead closures.
LEMMA UnboundType ==
  ASSUME NEW m \in [Names -> Entry \cup {Nil}]
  PROVE  /\ Unbound(m) \in [Names -> Entry \cup {Nil}]
         /\ Listeners(Unbound(m)) = Listeners(m)
<1>1. \A n \in Names : m[n] # Nil => [m[n] EXCEPT !.cl = Nil] \in Entry
  BY DEF Entry
<1>2. \A n \in Names : m[n] # Nil => [m[n] EXCEPT !.cl = Nil] # Nil
  BY <1>1, EventdAssumption DEF EventdAssumption
<1> QED BY <1>1, <1>2 DEF Unbound, Listeners

LEMMA UnprocessedType == TypeOK => Unprocessed \subseteq Nat
<1> SUFFICES ASSUME TypeOK PROVE Unprocessed \subseteq Nat
  OBVIOUS
<1>1. \A i \in DOMAIN pending : pending[i] \in Triggered
  BY DEF TypeOK
<1>2. active # Nil => active.id \in Nat
  BY DEF TypeOK, Active
<1> QED BY <1>1, <1>2 DEF Unprocessed, Triggered

LEMMA ReloadInv ==
  ASSUME IInv, Reloaded, proc' = "idle",
         UNCHANGED <<offers, cur, ticks, triggers, delivered, settled>>
  PROVE  IInv'
<1> USE DEF Reloaded, IInv
<1>1. lost' \in SUBSET Nat
  BY UnprocessedType DEF TypeOK
<1>2. \A e \in EventIds : events'[e] = Unbound(events[e])
  OBVIOUS
<1>3. events' \in [EventIds -> [Names -> Entry \cup {Nil}]]
  BY UnboundType DEF TypeOK
<1>4. TypeOK'
  <2>1. pending' \in Seq(Triggered)
    OBVIOUS
  <2> QED BY <1>1, <1>3, <2>1 DEF TypeOK
<1>5. ListedOK'
  BY <1>2, UnboundType DEF ListedOK, TypeOK
<1> QED BY <1>4, <1>5
  DEF NoLostWakeup, ActiveListed, ProcOK, ReadyForUpdate

LEMMA UpdateMeInv ==
  ASSUME IInv, NEW flag \in BOOLEAN, UpdateMe(flag)
  PROVE  IInv'
<1>1. CASE Reloaded /\ callouts = 0
  <2>1. proc' = "idle"
    BY <1>1 DEF UpdateMe, OthersRun, pvars, IInv, ProcOK
  <2> QED BY <1>1, <2>1, ReloadInv DEF UpdateMe, pvars
<1>2. CASE updateme' = flag /\ UNCHANGED <<qvars, callouts, lost>>
  BY <1>2 DEF UpdateMe, IInv, TypeOK, NoLostWakeup, ActiveListed, ProcOK, ListedOK,
              ReadyForUpdate, Listeners, qvars, pvars
<1> QED BY <1>1, <1>2 DEF UpdateMe

LEMMA RebootInv ==
  ASSUME IInv, Reboot
  PROVE  IInv'
<1> USE DEF Reboot, IInv
<1>1. lost' \in SUBSET Nat
  BY UnprocessedType DEF TypeOK
<1>2. pending' \in Seq(Triggered) /\ ticks' \in 0 .. Budget
  BY EventdAssumption DEF EventdAssumption
<1>3. events' \in [EventIds -> [Names -> Entry \cup {Nil}]]
  BY DEF NoListeners
<1>4. TypeOK'
  BY <1>1, <1>2, <1>3 DEF TypeOK
<1>5. \A e \in EventIds : Listeners(events'[e]) = {}
  BY DEF Listeners, NoListeners
<1> QED BY <1>4, <1>5
  DEF NoLostWakeup, ActiveListed, ProcOK, ListedOK, ReadyForUpdate

-----------------------------------------------------------------------------
(* The steps of process_events()                                           *)

LEMMA CallOutDueInv == IInv /\ CallOutDue => IInv'
<1> SUFFICES ASSUME IInv, CallOutDue PROVE IInv'
  OBVIOUS
<1>1. ticks' \in 0 .. Budget
  BY EventdAssumption DEF CallOutDue, EventdAssumption
<1>2. TypeOK'
  BY <1>1 DEF CallOutDue, qvars, hvars, IInv, TypeOK
<1> QED BY <1>2
  DEF CallOutDue, qvars, hvars, IInv, TypeOK, NoLostWakeup, ActiveListed, ProcOK,
      ListedOK, ReadyForUpdate, Listeners

LEMMA TakePendingInv == IInv /\ TakePending => IInv'
<1> SUFFICES ASSUME IInv, TakePending PROVE IInv'
  OBVIOUS
<1> USE DEF TakePending, IInv, hvars
<1>1. Head(pending) \in Triggered /\ Tail(pending) \in Seq(Triggered)
  BY DEF TypeOK
<1>2. active' \in Active /\ active' # Nil
  BY <1>1, EventdAssumption DEF TypeOK, Triggered, Active, EventdAssumption
<1>3. TypeOK'
  BY <1>1, <1>2 DEF TypeOK
<1>4. ActiveListed'
  BY <1>1 DEF ActiveListed, ListedOK, Triggered, Listeners
<1> QED BY <1>2, <1>3, <1>4
  DEF NoLostWakeup, ProcOK, ListedOK, ReadyForUpdate, Listeners

LEMMA EndProcessingInv == IInv /\ EndProcessing => IInv'
<1> SUFFICES ASSUME IInv, EndProcessing PROVE IInv'
  OBVIOUS
<1>1. CASE Reloaded
  BY <1>1, ReloadInv DEF EndProcessing
<1>2. CASE /\ callouts' = IF ticks > 0 THEN callouts - 1 ELSE callouts
           /\ UNCHANGED <<qvars, updateme, lost>>
  <2>1. callouts = 1
    BY DEF EndProcessing, IInv, ProcOK
  <2>2. callouts' \in {0, 1} /\ (~ReadyForUpdate => callouts' = 1)
    BY <1>2, <2>1 DEF EndProcessing, IInv, TypeOK
  <2> QED BY <1>2, <2>2
    DEF EndProcessing, qvars, IInv, TypeOK, NoLostWakeup, ActiveListed, ProcOK,
        ListedOK, ReadyForUpdate, Listeners
<1> QED BY <1>1, <1>2 DEF EndProcessing

\* A listener struck off a list, or given a new closure.
LEMMA StruckOff ==
  ASSUME NEW m \in [Names -> Entry \cup {Nil}], NEW n \in Names
  PROVE  /\ [m EXCEPT ![n] = Nil] \in [Names -> Entry \cup {Nil}]
         /\ Listeners([m EXCEPT ![n] = Nil]) = Listeners(m) \ {n}
  BY DEF Listeners

LEMMA Rebound ==
  ASSUME NEW m \in [Names -> Entry \cup {Nil}], NEW n \in Names, m[n] # Nil,
         NEW c \in Funs \cup {Nil}
  PROVE  /\ [m EXCEPT ![n].cl = c] \in [Names -> Entry \cup {Nil}]
         /\ Listeners([m EXCEPT ![n].cl = c]) = Listeners(m)
<1>1. [m[n] EXCEPT !.cl = c] \in Entry
  BY DEF Entry
<1>2. [m[n] EXCEPT !.cl = c] # Nil
  BY <1>1, EventdAssumption DEF EventdAssumption
<1> QED BY <1>1, <1>2 DEF Listeners

LEMMA CallListenerInv ==
  ASSUME IInv, NEW n \in Names, CallListener(n)
  PROVE  IInv'
<1> USE DEF CallListener, IInv
<1>1. active \in Active /\ active # Nil /\ active.eid \in EventIds
  BY DEF ProcOK, TypeOK, Active
<1>2. n \in Listeners(active.listeners) /\ n \in Listeners(events[active.eid])
  BY <1>1 DEF ActiveListed, Listeners
<1>3. n # Nil
  BY EventdAssumption DEF EventdAssumption
<1>4. /\ events' \in [EventIds -> [Names -> Entry \cup {Nil}]]
      /\ \A e \in EventIds : Listeners(events'[e]) = Listeners(events[e])
  <2>1. CASE UNCHANGED events
    BY <2>1 DEF TypeOK
  <2>2. CASE /\ active.listeners[n].fun \in offers[n]
             /\ events' = [events EXCEPT ![active.eid][n].cl = active.listeners[n].fun]
    <3> DEFINE m == events[active.eid]
               c == active.listeners[n].fun
    <3>1. m \in [Names -> Entry \cup {Nil}] /\ m[n] # Nil
      BY <1>1, <1>2 DEF TypeOK, Listeners
    <3>2. c \in Funs \cup {Nil}
      BY <2>2 DEF TypeOK
    <3>3. events' = [events EXCEPT ![active.eid] = [m EXCEPT ![n].cl = c]]
      BY <2>2
    <3> HIDE DEF m, c
    <3>4. /\ [m EXCEPT ![n].cl = c] \in [Names -> Entry \cup {Nil}]
          /\ Listeners([m EXCEPT ![n].cl = c]) = Listeners(m)
      BY <3>1, <3>2, Rebound
    <3> QED BY <1>1, <3>3, <3>4 DEF TypeOK, m
  <2> QED BY <2>1, <2>2
<1>5. delivered' \in SUBSET (Nat \X Names)
  BY <1>1 DEF TypeOK, Active
<1>6. TypeOK'
  BY <1>4, <1>5 DEF TypeOK
<1>7. ActiveListed' /\ ListedOK'
  BY <1>1, <1>4 DEF ActiveListed, ListedOK
<1> QED BY <1>1, <1>3, <1>6, <1>7 DEF NoLostWakeup, ProcOK, ReadyForUpdate, TypeOK

LEMMA DropListenerInv ==
  ASSUME IInv, NEW n \in Names, DropListener(n)
  PROVE  IInv'
<1> USE DEF DropListener, IInv, pvars, hvars
<1>1. active \in Active /\ active # Nil /\ active.eid \in EventIds
  BY DEF ProcOK, TypeOK, Active
<1> DEFINE m == events[active.eid]
           l == active.listeners
<1>2. m \in [Names -> Entry \cup {Nil}] /\ l \in [Names -> Entry \cup {Nil}]
  BY <1>1 DEF TypeOK, Active
<1>3. /\ events' = [events EXCEPT ![active.eid] = [m EXCEPT ![n] = Nil]]
      /\ active' = [active EXCEPT !.listeners = [l EXCEPT ![n] = Nil]]
  OBVIOUS
<1> HIDE DEF m, l
<1>4. /\ [m EXCEPT ![n] = Nil] \in [Names -> Entry \cup {Nil}]
      /\ Listeners([m EXCEPT ![n] = Nil]) = Listeners(m) \ {n}
      /\ [l EXCEPT ![n] = Nil] \in [Names -> Entry \cup {Nil}]
      /\ Listeners([l EXCEPT ![n] = Nil]) = Listeners(l) \ {n}
  BY <1>2, StruckOff
<1>5. events' \in [EventIds -> [Names -> Entry \cup {Nil}]] /\ active' \in Active
  <2>1. events' \in [EventIds -> [Names -> Entry \cup {Nil}]]
    BY <1>1, <1>3, <1>4 DEF TypeOK
  <2>2. active' \in Active
    BY <1>1, <1>3, <1>4 DEF Active
  <2> QED BY <2>1, <2>2
<1>6. TypeOK'
  BY <1>5 DEF TypeOK
<1>7. ListedOK'
  BY <1>1, <1>3, <1>4 DEF ListedOK, TypeOK, m
<1>8. ActiveListed'
  BY <1>1, <1>3, <1>4 DEF ActiveListed, TypeOK, Active, m, l
<1> QED BY <1>1, <1>5, <1>6, <1>7, <1>8, EventdAssumption
  DEF EventdAssumption, NoLostWakeup, ProcOK, ReadyForUpdate

LEMMA ListenerDoneInv == IInv /\ ListenerDone => IInv'
<1> SUFFICES ASSUME IInv, ListenerDone PROVE IInv'
  OBVIOUS
<1> USE DEF ListenerDone, IInv, hvars
<1>1. active \in Active /\ active # Nil /\ cur \in Names
  BY DEF ProcOK, TypeOK
<1>2. ticks' \in 0 .. Budget
  BY EventdAssumption DEF ProcOK, TypeOK, EventdAssumption
<1> DEFINE l == active.listeners
<1>3. l \in [Names -> Entry \cup {Nil}]
  BY <1>1 DEF Active
<1>4. active' = [active EXCEPT !.listeners = [l EXCEPT ![cur] = Nil]]
  OBVIOUS
<1> HIDE DEF l
<1>5. /\ [l EXCEPT ![cur] = Nil] \in [Names -> Entry \cup {Nil}]
      /\ Listeners([l EXCEPT ![cur] = Nil]) = Listeners(l) \ {cur}
  BY <1>1, <1>3, StruckOff
<1>6. active' \in Active /\ active' # Nil
  BY <1>1, <1>4, <1>5, EventdAssumption DEF Active, EventdAssumption
<1>7. TypeOK'
  BY <1>2, <1>6 DEF TypeOK
<1>8. ActiveListed'
  BY <1>1, <1>4, <1>5 DEF ActiveListed, Active, l
<1> QED BY <1>6, <1>7, <1>8 DEF NoLostWakeup, ProcOK, ListedOK, ReadyForUpdate

LEMMA IterationInv == IInv /\ (ResumeActive \/ Suspend \/ FinishEvent) => IInv'
<1> SUFFICES ASSUME IInv, ResumeActive \/ Suspend \/ FinishEvent PROVE IInv'
  OBVIOUS
<1> USE DEF qvars, hvars, IInv, NoLostWakeup, ActiveListed, ProcOK, ListedOK,
            ReadyForUpdate, Listeners
<1>1. CASE ResumeActive
  BY <1>1 DEF ResumeActive, TypeOK
<1>2. CASE Suspend
  BY <1>2 DEF Suspend, TypeOK
<1>3. CASE FinishEvent
  <2>1. settled' \in SUBSET Nat
    BY <1>3 DEF FinishEvent, TypeOK, Active
  <2> QED BY <1>3, <2>1 DEF FinishEvent, TypeOK
<1> QED BY <1>1, <1>2, <1>3

-----------------------------------------------------------------------------
(* The objects                                                             *)

LEMMA LoadInv ==
  ASSUME IInv, NEW n \in Names, LoadObject(n)
  PROVE  IInv'
<1>1. offers' \in [Names -> SUBSET Funs]
  BY EventdAssumption DEF LoadObject, IInv, TypeOK, EventdAssumption
<1> QED BY <1>1
  DEF LoadObject, qvars, pvars, hvars, IInv, TypeOK, NoLostWakeup, ActiveListed,
      ProcOK, ListedOK, ReadyForUpdate, Listeners

LEMMA KilledType ==
  ASSUME NEW m \in [Names -> Entry \cup {Nil}], NEW n \in Names
  PROVE  /\ Killed(m, n) \in [Names -> Entry \cup {Nil}]
         /\ Listeners(Killed(m, n)) = Listeners(m)
<1>1. CASE m[n] = Nil
  BY <1>1 DEF Killed
<1>2. CASE m[n] # Nil
  BY <1>2, Rebound DEF Killed
<1> QED BY <1>1, <1>2

LEMMA DestructInv ==
  ASSUME IInv, NEW n \in Names, DestructObject(n)
  PROVE  IInv'
<1> USE DEF DestructObject, IInv, pvars, hvars
<1>1. \A e \in EventIds : events'[e] = Killed(events[e], n)
  OBVIOUS
<1>2. /\ events' \in [EventIds -> [Names -> Entry \cup {Nil}]]
      /\ \A e \in EventIds : Listeners(events'[e]) = Listeners(events[e])
  BY <1>1, KilledType DEF TypeOK
<1>3. CASE active = Nil
  <2>1. TypeOK'
    BY <1>2, <1>3 DEF TypeOK
  <2> QED BY <1>2, <1>3, <2>1 DEF NoLostWakeup, ActiveListed, ProcOK, ListedOK, ReadyForUpdate
<1>4. CASE active # Nil
  <2> DEFINE l == active.listeners
  <2>1. active \in Active /\ l \in [Names -> Entry \cup {Nil}]
    BY <1>4 DEF TypeOK, Active
  <2>2. active' = [active EXCEPT !.listeners = Killed(l, n)]
    BY <1>4
  <2> HIDE DEF l
  <2>3. /\ Killed(l, n) \in [Names -> Entry \cup {Nil}]
        /\ Listeners(Killed(l, n)) = Listeners(l)
    BY <2>1, KilledType
  <2>4. active' \in Active /\ active'.eid = active.eid /\ active'.listeners = Killed(l, n)
    BY <2>1, <2>2, <2>3 DEF Active
  <2>5. TypeOK'
    BY <1>2, <2>4 DEF TypeOK
  <2>6. ActiveListed'
    BY <1>2, <1>4, <2>1, <2>3, <2>4 DEF ActiveListed, Active, l
  <2>7. active' # Nil
    BY <2>4, EventdAssumption DEF EventdAssumption
  <2> QED BY <1>2, <1>4, <2>5, <2>6, <2>7 DEF NoLostWakeup, ProcOK, ListedOK, ReadyForUpdate
<1> QED BY <1>3, <1>4

-----------------------------------------------------------------------------
LEMMA StepInv == IInv /\ [Next]_vars => IInv'
<1> SUFFICES ASSUME IInv, [Next]_vars PROVE IInv'
  OBVIOUS
<1>1. ASSUME NEW e \in EventIds, NEW n \in Names, UnregisterEvent(e, n) PROVE IInv'
  BY <1>1, UnregisterInv
<1>2. ASSUME NEW e \in EventIds, NEW n \in Names, NEW f \in Funs, RegisterEvent(e, f, n)
      PROVE  IInv'
  BY <1>2, RegisterInv
<1>3. ASSUME NEW e \in EventIds, TriggerEvent(e) PROVE IInv'
  BY <1>3, TriggerInv
<1>4. ASSUME NEW flag \in BOOLEAN, UpdateMe(flag) PROVE IInv'
  BY <1>4, UpdateMeInv
<1>5. CASE Remove \/ Reset
  BY <1>5, ReloadInv DEF Remove, Reset, pvars
<1>6. CASE Reboot
  BY <1>6, RebootInv
<1>7. ASSUME NEW n \in Names, LoadObject(n) \/ DestructObject(n) PROVE IInv'
  BY <1>7, LoadInv, DestructInv
<1>8. CASE CallOutDue
  BY <1>8, CallOutDueInv
<1>9. CASE ProcessEvents
  BY <1>9, TakePendingInv, EndProcessingInv, IterationInv, CallListenerInv, DropListenerInv
  DEF ProcessEvents
<1>10. CASE ListenerDone
  BY <1>10, ListenerDoneInv
<1>11. CASE UNCHANGED vars
  BY <1>11 DEF vars, qvars, pvars, hvars, IInv, TypeOK, NoLostWakeup, ActiveListed,
               ProcOK, ListedOK, ReadyForUpdate, Listeners
<1> QED BY <1>1, <1>2, <1>3, <1>4, <1>5, <1>6, <1>7, <1>8, <1>9, <1>10, <1>11
  DEF Next, Users

\* Type correctness: process_events() is never scheduled twice, for instance.
THEOREM TypeCorrect == Spec => []TypeOK
<1>1. IInv => TypeOK
  BY DEF IInv
<1> QED BY <1>1, InitInv, StepInv, PTL DEF Spec

\* No event is stranded: eventd.c keeps a call_out as long as there is work.
THEOREM WakeupNeverLost == Spec => []NoLostWakeup
<1>1. IInv => NoLostWakeup
  BY DEF IInv
<1> QED BY <1>1, InitInv, StepInv, PTL DEF Spec

\* process_events() never reaches into a missing mapping events[eid], whatever
\* the callbacks register, unregister or destruct.
THEOREM ActiveAlwaysListed == Spec => []ActiveListed
<1>1. IInv => ActiveListed
  BY DEF IInv
<1> QED BY <1>1, InitInv, StepInv, PTL DEF Spec

\* UpdateMe(), reset() and the end of process_events() replace the dispatcher
\* only when it holds no event: an update on request loses none.
THEOREM UpdateNeverLoses == Spec => UpdateLosesNothing
<1>1. ASSUME [Next]_vars PROVE [lost' # lost => Remove \/ Reboot]_vars
  <2>1. ASSUME ReadyForUpdate, Reloaded PROVE lost' = lost
    BY <2>1 DEF ReadyForUpdate, Reloaded, Unprocessed
  <2>2. ASSUME NEW flag \in BOOLEAN, UpdateMe(flag) PROVE lost' = lost
    BY <2>1, <2>2 DEF UpdateMe
  <2>3. CASE Reset
    BY <2>1, <2>3 DEF Reset
  <2>4. CASE EndProcessing
    BY <2>1, <2>4 DEF EndProcessing
  <2>5. ASSUME NEW n \in Names, CallListener(n) \/ DropListener(n) \/ LoadObject(n)
                                  \/ DestructObject(n)
        PROVE  lost' = lost
    BY <2>5 DEF CallListener, DropListener, LoadObject, DestructObject, hvars
  <2>6. ASSUME NEW e \in EventIds, NEW n \in Names, NEW f \in Funs, RegisterEvent(e, f, n)
        PROVE  lost' = lost
    BY <2>6 DEF RegisterEvent, hvars
  <2>7. ASSUME NEW e \in EventIds, NEW n \in Names, UnregisterEvent(e, n)
        PROVE  lost' = lost
    BY <2>7 DEF UnregisterEvent, hvars
  <2>8. ASSUME NEW e \in EventIds, TriggerEvent(e) PROVE lost' = lost
    BY <2>8 DEF TriggerEvent
  <2>9. CASE CallOutDue \/ TakePending \/ ResumeActive \/ Suspend \/ FinishEvent
             \/ ListenerDone
    BY <2>9 DEF CallOutDue, TakePending, ResumeActive, Suspend, FinishEvent,
                ListenerDone, hvars
  <2>10. CASE UNCHANGED vars
    BY <2>10
  <2> QED
    BY <1>1, <2>2, <2>3, <2>4, <2>5, <2>6, <2>7, <2>8, <2>9, <2>10
    DEF Next, Users, ProcessEvents
<1> QED BY <1>1, PTL DEF Spec, UpdateLosesNothing

-----------------------------------------------------------------------------
(* Eventd implements EventDelivery.                                        *)

\* Trigger numbers ascend from the active event through the queue, and nobody
\* who waits for an event has been informed of it.
HistoryOK ==
  /\ \A p \in delivered : p[1] <= triggers
  /\ \A i \in 1 .. Len(pending) :
       /\ pending[i].id <= triggers
       /\ \A n \in Names : <<pending[i].id, n>> \notin delivered
       /\ Current # Nil => Current.id < pending[i].id
       /\ \A j \in 1 .. Len(pending) : i < j => pending[i].id < pending[j].id
  /\ Current # Nil => Current.id <= triggers
  /\ \A n \in Waiting : <<Current.id, n>> \notin delivered

RInv == IInv /\ HistoryOK

LEMMA CurrentFacts ==
  ASSUME IInv
  PROVE  /\ Current = Nil <=> active = Nil
         /\ active # Nil => Current.id = active.id /\ Current.eid = active.eid
<1>1. CASE active = Nil
  BY <1>1 DEF Current
<1>2. CASE active # Nil
  <2>1. Current \in Triggered
    BY <1>2 DEF Current, IInv, TypeOK, Active, Triggered
  <2> QED BY <1>2, <2>1, EventdAssumption DEF Current, EventdAssumption
<1> QED BY <1>1, <1>2

\* The mapping of a change to one list, or to none.
LEMMA RegisteredChange ==
  ASSUME IInv, NEW e \in EventIds, NEW S,
         \A d \in EventIds \ {e} : Listeners(events'[d]) = Listeners(events[d]),
         Listeners(events'[e]) = S
  PROVE  Registered' = [Registered EXCEPT ![e] = S]
  BY DEF Registered

LEMMA RegisteredSame ==
  ASSUME \A e \in EventIds : Listeners(events'[e]) = Listeners(events[e])
  PROVE  Registered' = Registered
  BY DEF Registered

-----------------------------------------------------------------------------
(* The operations of the interface                                         *)

LEMMA RegisterRefines ==
  ASSUME IInv, NEW e \in EventIds, NEW f \in Funs, NEW n \in Names, RegisterEvent(e, f, n)
  PROVE  Delivery!Register(e, n)
<1> USE DEF RegisterEvent, pvars, hvars
<1>1. Listeners(events'[e]) = Listeners(events[e]) \cup {n}
  BY EventdAssumption DEF EventdAssumption, Listeners, IInv, TypeOK, Entry
<1>2. \A d \in EventIds \ {e} : Listeners(events'[d]) = Listeners(events[d])
  BY DEF IInv, TypeOK
<1>3. Registered' = [Registered EXCEPT ![e] = Registered[e] \cup {n}]
  BY <1>1, <1>2, RegisteredChange DEF Registered
<1>4. UNCHANGED <<pending, Current, Waiting, delivered, triggers>>
  BY DEF Current, Waiting
<1> QED BY <1>3, <1>4 DEF Delivery!Register

LEMMA UnregisterRefines ==
  ASSUME IInv, NEW e \in EventIds, NEW n \in Names, UnregisterEvent(e, n)
  PROVE  Delivery!Unregister(e, n)
<1> USE DEF UnregisterEvent, pvars, hvars
<1>1. Listeners(events'[e]) = Listeners(events[e]) \ {n}
  BY EventdAssumption DEF Listeners, IInv, TypeOK
<1>2. \A d \in EventIds \ {e} : Listeners(events'[d]) = Listeners(events[d])
  BY DEF IInv, TypeOK
<1>3. Registered' = [Registered EXCEPT ![e] = Registered[e] \ {n}]
  BY <1>1, <1>2, RegisteredChange DEF Registered
<1>4. CASE active # Nil /\ active.eid = e
  <2>1. active \in Active
    BY <1>4 DEF IInv, TypeOK
  <2>2. active' \in Active /\ Listeners(active'.listeners) = Listeners(active.listeners) \ {n}
    BY <1>4, <2>1 DEF Active, Listeners
  <2>3. active' # Nil /\ active'.id = active.id /\ active'.eid = active.eid
    BY <1>4, <2>1, <2>2, EventdAssumption DEF EventdAssumption, Active
  <2>4. Current' = Current
    BY <1>4, <2>3 DEF Current
  <2>5. Waiting' = Waiting \ {n}
    BY <1>4, <2>2, <2>3 DEF Waiting
  <2> QED BY <1>3, <1>4, <2>4, <2>5, CurrentFacts DEF Delivery!Unregister
<1>5. CASE ~(active # Nil /\ active.eid = e)
  <2>1. UNCHANGED <<Current, Waiting>>
    BY <1>5 DEF Current, Waiting
  <2> QED BY <1>3, <1>5, <2>1, CurrentFacts DEF Delivery!Unregister
<1> QED BY <1>4, <1>5

LEMMA TriggerRefines ==
  ASSUME NEW e \in EventIds, TriggerEvent(e)
  PROVE  Delivery!Trigger(e)
<1>1. UNCHANGED <<Registered, Current, Waiting>>
  BY DEF TriggerEvent, pvars, Registered, Current, Waiting
<1> QED BY <1>1 DEF TriggerEvent, Delivery!Trigger

LEMMA ReloadRefines ==
  ASSUME IInv, Reloaded, UNCHANGED <<triggers, delivered>>
  PROVE  Delivery!Reload
<1>1. \A e \in EventIds : Listeners(events'[e]) = Listeners(events[e])
  BY UnboundType DEF Reloaded, IInv, TypeOK
<1>2. Registered' = Registered /\ Current' = Nil /\ Waiting' = {}
  BY <1>1, RegisteredSame DEF Reloaded, Current, Waiting
<1> QED BY <1>2 DEF Reloaded, Delivery!Reload

LEMMA RebootRefines ==
  ASSUME Reboot
  PROVE  Delivery!Reboot
<1>1. \A e \in EventIds : Listeners(events'[e]) = {}
  BY DEF Reboot, Listeners, NoListeners
<1>2. Registered' = [e \in EventIds |-> {}] /\ Current' = Nil /\ Waiting' = {}
  BY <1>1 DEF Reboot, Registered, Current, Waiting
<1> QED BY <1>2 DEF Reboot, Delivery!Reboot

-----------------------------------------------------------------------------
(* The steps of process_events()                                           *)

LEMMA TakePendingRefines ==
  ASSUME IInv, TakePending
  PROVE  Delivery!Begin
<1> USE DEF TakePending, hvars
<1>1. Head(pending) \in Triggered /\ Head(pending).eid \in EventIds
  <2>1. Head(pending) \in Triggered
    BY DEF IInv, TypeOK
  <2> QED BY <2>1 DEF Triggered
<1>2. active' \in Active
  BY <1>1 DEF IInv, TypeOK, Triggered, Active
<1>3. active' # Nil
  BY <1>2, EventdAssumption DEF EventdAssumption
<1>4. Current' = Head(pending)
  BY <1>1, <1>3 DEF Current, Triggered
<1>5. Waiting' = Registered[Head(pending).eid]
  BY <1>1, <1>3 DEF Waiting, Registered, Listeners
<1>6. Registered' = Registered /\ Current = Nil
  BY RegisteredSame DEF Current
<1> QED BY <1>4, <1>5, <1>6 DEF Delivery!Begin

LEMMA CallListenerRefines ==
  ASSUME RInv, NEW n \in Names, CallListener(n)
  PROVE  Delivery!Inform(n)
<1> USE DEF CallListener
<1>1. active \in Active /\ active # Nil /\ active.eid \in EventIds
  BY DEF RInv, IInv, ProcOK, TypeOK, Active
<1>2. n \in Waiting /\ n \in Registered[active.eid]
  BY <1>1 DEF RInv, IInv, ActiveListed, Waiting, Registered, Listeners
<1>3. <<Current.id, n>> \notin delivered
  BY <1>1, <1>2, CurrentFacts DEF RInv, HistoryOK
<1>4. Waiting' = Waiting \ {n} /\ Current' = Current
  BY <1>1 DEF Waiting, Current
<1>5. \A e \in EventIds : Listeners(events'[e]) = Listeners(events[e])
  <2>1. CASE UNCHANGED events
    BY <2>1
  <2>2. CASE /\ active.listeners[n].fun \in offers[n]
             /\ events' = [events EXCEPT ![active.eid][n].cl = active.listeners[n].fun]
    <3> DEFINE m == events[active.eid]
               c == active.listeners[n].fun
    <3>1. m \in [Names -> Entry \cup {Nil}] /\ m[n] # Nil /\ c \in Funs \cup {Nil}
      BY <1>1, <1>2, <2>2 DEF RInv, IInv, TypeOK, Registered, Listeners
    <3>2. events' = [events EXCEPT ![active.eid] = [m EXCEPT ![n].cl = c]]
      BY <2>2
    <3> HIDE DEF m, c
    <3>3. Listeners([m EXCEPT ![n].cl = c]) = Listeners(m)
      BY <3>1, Rebound
    <3> QED BY <1>1, <3>2, <3>3 DEF RInv, IInv, TypeOK, m
  <2> QED BY <2>1, <2>2
<1>6. Registered' = Registered
  BY <1>5, RegisteredSame
<1> QED BY <1>1, <1>2, <1>3, <1>4, <1>6, CurrentFacts DEF RInv, Delivery!Inform

LEMMA DropListenerRefines ==
  ASSUME IInv, NEW n \in Names, DropListener(n)
  PROVE  Delivery!Drop(n)
<1> USE DEF DropListener, pvars, hvars
<1>1. active \in Active /\ active # Nil /\ active.eid \in EventIds
  BY DEF IInv, ProcOK, TypeOK, Active
<1>2. /\ active' \in Active
      /\ Listeners(active'.listeners) = Listeners(active.listeners) \ {n}
      /\ active'.id = active.id /\ active'.eid = active.eid
  BY <1>1 DEF Active, Listeners
<1>3. active' # Nil
  BY <1>2, EventdAssumption DEF EventdAssumption
<1>4. Current' = Current /\ Waiting' = Waiting \ {n} /\ n \in Waiting
  BY <1>1, <1>2, <1>3 DEF Current, Waiting, Listeners
<1>5. /\ Listeners(events'[active.eid]) = Listeners(events[active.eid]) \ {n}
      /\ \A d \in EventIds \ {active.eid} : Listeners(events'[d]) = Listeners(events[d])
  BY <1>1 DEF Listeners, IInv, TypeOK
<1>6. Registered' = [Registered EXCEPT ![active.eid] = Registered[active.eid] \ {n}]
  BY <1>1, <1>5, RegisteredChange DEF Registered
<1> QED BY <1>1, <1>4, <1>6, CurrentFacts DEF Delivery!Drop

LEMMA FinishEventRefines ==
  ASSUME IInv, FinishEvent
  PROVE  Delivery!Finish
<1>1. active # Nil /\ Waiting = {} /\ Waiting' = {} /\ Current' = Nil
  BY DEF FinishEvent, IInv, ProcOK, Waiting, Current
<1>2. Registered' = Registered
  BY RegisteredSame DEF FinishEvent
<1> QED BY <1>1, <1>2, CurrentFacts DEF FinishEvent, Delivery!Finish

\* Steps the users of the dispatcher do not see.
LEMMA ListenerDoneStutters ==
  ASSUME IInv, ListenerDone
  PROVE  UNCHANGED Delivery!dvars
<1> USE DEF ListenerDone, hvars
<1>1. active \in Active /\ active # Nil
  BY DEF IInv, ProcOK, TypeOK
<1>2. /\ active' \in Active
      /\ Listeners(active'.listeners) = Listeners(active.listeners) \ {cur}
      /\ active'.id = active.id /\ active'.eid = active.eid
  BY <1>1 DEF Active, Listeners
<1>3. active' # Nil
  BY <1>2, EventdAssumption DEF EventdAssumption
<1>4. UNCHANGED <<Current, Waiting>>
  BY <1>1, <1>2, <1>3 DEF Current, Waiting
<1>5. Registered' = Registered
  BY RegisteredSame
<1> QED BY <1>4, <1>5 DEF Delivery!dvars

LEMMA IterationStutters ==
  ASSUME CallOutDue \/ ResumeActive \/ Suspend
  PROVE  UNCHANGED Delivery!dvars
<1>1. proc # "call" /\ proc' # "call" /\ UNCHANGED <<qvars, hvars>>
  BY DEF CallOutDue, ResumeActive, Suspend
<1>2. UNCHANGED <<Registered, Current, Waiting>>
  BY <1>1 DEF qvars, Registered, Current, Waiting
<1> QED BY <1>1, <1>2 DEF qvars, hvars, Delivery!dvars

LEMMA ObjectsStutter ==
  ASSUME IInv, NEW n \in Names, LoadObject(n) \/ DestructObject(n)
  PROVE  UNCHANGED Delivery!dvars
<1>1. CASE LoadObject(n)
  <2>1. UNCHANGED <<Registered, Current, Waiting>>
    BY <1>1 DEF LoadObject, qvars, pvars, Registered, Current, Waiting
  <2> QED BY <1>1, <2>1 DEF LoadObject, qvars, hvars, Delivery!dvars
<1>2. CASE DestructObject(n)
  <2>1. \A e \in EventIds : Listeners(events'[e]) = Listeners(events[e])
    BY <1>2, KilledType DEF DestructObject, IInv, TypeOK
  <2>2. UNCHANGED <<Current, Waiting>>
    <3>1. CASE active = Nil
      BY <1>2, <3>1 DEF DestructObject, Current, Waiting
    <3>2. CASE active # Nil
      <4> DEFINE l == active.listeners
      <4>1. active \in Active /\ l \in [Names -> Entry \cup {Nil}]
        BY <3>2 DEF IInv, TypeOK, Active
      <4>2. active' = [active EXCEPT !.listeners = Killed(l, n)]
        BY <1>2, <3>2 DEF DestructObject
      <4> HIDE DEF l
      <4>3. /\ Killed(l, n) \in [Names -> Entry \cup {Nil}]
            /\ Listeners(Killed(l, n)) = Listeners(l)
        BY <4>1, KilledType
      <4>4. active' \in Active /\ active'.id = active.id /\ active'.eid = active.eid
            /\ active'.listeners = Killed(l, n)
        BY <4>1, <4>2, <4>3 DEF Active
      <4>5. active' # Nil
        BY <4>4, EventdAssumption DEF EventdAssumption
      <4> QED BY <1>2, <3>2, <4>3, <4>4, <4>5 DEF DestructObject, pvars, Current, Waiting, l
    <3> QED BY <3>1, <3>2
  <2>3. Registered' = Registered
    BY <2>1, RegisteredSame
  <2> QED BY <1>2, <2>2, <2>3 DEF DestructObject, hvars, Delivery!dvars
<1> QED BY <1>1, <1>2

-----------------------------------------------------------------------------
LEMMA StepRefines == RInv /\ [Next]_vars => [Delivery!DNext]_(Delivery!dvars)
<1> SUFFICES ASSUME RInv, [Next]_vars PROVE [Delivery!DNext]_(Delivery!dvars)
  OBVIOUS
<1> USE DEF RInv
<1>1. ASSUME NEW e \in EventIds, NEW n \in Names, UnregisterEvent(e, n)
      PROVE  Delivery!DNext
  BY <1>1, UnregisterRefines DEF Delivery!DNext
<1>2. ASSUME NEW e \in EventIds, NEW n \in Names, NEW f \in Funs, RegisterEvent(e, f, n)
      PROVE  Delivery!DNext
  BY <1>2, RegisterRefines DEF Delivery!DNext
<1>3. ASSUME NEW e \in EventIds, TriggerEvent(e) PROVE Delivery!DNext
  BY <1>3, TriggerRefines DEF Delivery!DNext
<1>4. ASSUME NEW flag \in BOOLEAN, UpdateMe(flag)
      PROVE  Delivery!DNext \/ UNCHANGED Delivery!dvars
  <2>1. CASE Reloaded
    BY <1>4, <2>1, ReloadRefines DEF UpdateMe, Delivery!DNext
  <2>2. CASE UNCHANGED <<qvars, callouts, lost>>
    BY <1>4, <2>2 DEF UpdateMe, qvars, pvars, Delivery!dvars, Registered, Current, Waiting
  <2> QED BY <1>4, <2>1, <2>2 DEF UpdateMe
<1>5. CASE Remove \/ Reset
  BY <1>5, ReloadRefines DEF Remove, Reset, Delivery!DNext
<1>6. CASE Reboot
  BY <1>6, RebootRefines DEF Delivery!DNext
<1>7. ASSUME NEW n \in Names, LoadObject(n) \/ DestructObject(n)
      PROVE  UNCHANGED Delivery!dvars
  BY <1>7, ObjectsStutter
<1>8. CASE CallOutDue \/ ResumeActive \/ Suspend
  BY <1>8, IterationStutters
<1>9. CASE TakePending \/ FinishEvent
  BY <1>9, TakePendingRefines, FinishEventRefines DEF Delivery!DNext
<1>10. ASSUME NEW n \in Names, CallListener(n) \/ DropListener(n) PROVE Delivery!DNext
  BY <1>10, CallListenerRefines, DropListenerRefines DEF Delivery!DNext
<1>11. CASE EndProcessing
  <2>1. CASE Reloaded
    BY <1>11, <2>1, ReloadRefines DEF EndProcessing, Delivery!DNext
  <2>2. CASE UNCHANGED <<qvars, updateme, lost>>
    BY <1>11, <2>2 DEF EndProcessing, qvars, Delivery!dvars, Registered, Current, Waiting
  <2> QED BY <1>11, <2>1, <2>2 DEF EndProcessing
<1>12. CASE ListenerDone
  BY <1>12, ListenerDoneStutters
<1>13. CASE UNCHANGED vars
  BY <1>13 DEF vars, qvars, pvars, hvars, Delivery!dvars, Registered, Current, Waiting
<1> QED
  BY <1>1, <1>2, <1>3, <1>4, <1>5, <1>6, <1>7, <1>8, <1>9, <1>10, <1>11, <1>12, <1>13
  DEF Next, Users, ProcessEvents

\* The order of the trigger numbers follows from the abstract steps alone.
LEMMA HistoryStep ==
  ASSUME RInv, IInv', [Delivery!DNext]_(Delivery!dvars)
  PROVE  HistoryOK'
<1>1. /\ pending \in Seq(Triggered) /\ pending' \in Seq(Triggered)
      /\ triggers \in Nat /\ triggers' \in Nat
      /\ delivered \in SUBSET (Nat \X Names)
  BY DEF RInv, IInv, TypeOK
<1>2. Current \in Triggered \cup {Nil}
  BY DEF RInv, IInv, TypeOK, Current, Active, Triggered
<1>3. \A i \in 1 .. Len(pending) : pending[i] \in Triggered /\ pending[i].id \in Nat
  <2>1. \A i \in 1 .. Len(pending) : pending[i] \in Triggered
    BY <1>1
  <2> QED BY <2>1 DEF Triggered
<1>4. Current # Nil => Current.id \in Nat
  BY <1>2 DEF Triggered
<1>5. Waiting \subseteq Names
  BY DEF Waiting, Listeners
<1> USE DEF HistoryOK
<1>6. ASSUME UNCHANGED <<pending, Current, delivered, triggers>>, Waiting' \subseteq Waiting
      PROVE  HistoryOK'
  BY <1>6 DEF RInv
<1>7. ASSUME NEW e \in EventIds, NEW n \in Names,
             Delivery!Register(e, n) \/ Delivery!Unregister(e, n)
      PROVE  HistoryOK'
  BY <1>6, <1>7 DEF Delivery!Register, Delivery!Unregister
<1>7a. ASSUME NEW n \in Names, Delivery!Drop(n) PROVE HistoryOK'
  BY <1>6, <1>7a DEF Delivery!Drop
<1>8. ASSUME NEW e \in EventIds, Delivery!Trigger(e) PROVE HistoryOK'
  <2>1. /\ triggers' = triggers + 1
        /\ pending' = Append(pending, [id |-> triggers + 1, eid |-> e])
        /\ UNCHANGED <<Current, Waiting, delivered>>
    BY <1>8 DEF Delivery!Trigger
  <2>2. /\ Len(pending') = Len(pending) + 1
        /\ \A i \in 1 .. Len(pending) : pending'[i] = pending[i]
        /\ pending'[Len(pending) + 1].id = triggers + 1
    BY <1>1, <2>1
  <2>3. \A p \in delivered : p[1] \in Nat /\ p[1] < triggers + 1
    BY <1>1 DEF RInv
  <2>4. \A n \in Names : <<triggers + 1, n>> \notin delivered
    BY <1>1, <2>3
  <2>5. \A p \in delivered' : p[1] <= triggers'
    BY <1>1, <2>1, <2>3 DEF RInv
  <2>6. ASSUME NEW i \in 1 .. Len(pending')
        PROVE  /\ pending'[i].id <= triggers'
               /\ \A n \in Names : <<pending'[i].id, n>> \notin delivered'
               /\ Current' # Nil => Current'.id < pending'[i].id
               /\ \A j \in 1 .. Len(pending') : i < j => pending'[i].id < pending'[j].id
    <3>1. CASE i \in 1 .. Len(pending)
      <4>1. pending'[i] = pending[i] /\ Current' = Current /\ triggers' = triggers + 1
        BY <2>1, <2>2, <3>1
      <4>2. pending[i].id <= triggers /\ pending[i].id \in Nat
        BY <1>3, <3>1 DEF RInv
      <4>3. \A j \in 1 .. Len(pending') : i < j => pending'[i].id < pending'[j].id
        <5> SUFFICES ASSUME NEW j \in 1 .. Len(pending'), i < j
                     PROVE  pending'[i].id < pending'[j].id
          OBVIOUS
        <5>1. CASE j \in 1 .. Len(pending)
          BY <2>2, <3>1, <4>1, <5>1 DEF RInv
        <5>2. CASE j = Len(pending) + 1
          BY <1>1, <2>2, <4>1, <4>2, <5>2
        <5> QED BY <1>1, <2>2, <5>1, <5>2
      <4>4. \A n \in Names : <<pending'[i].id, n>> \notin delivered'
        BY <2>1, <3>1, <4>1 DEF RInv
      <4>5. Current' # Nil => Current'.id < pending'[i].id
        BY <3>1, <4>1 DEF RInv
      <4> QED BY <1>1, <4>1, <4>2, <4>3, <4>4, <4>5
    <3>2. CASE i = Len(pending) + 1
      BY <1>1, <1>4, <2>1, <2>2, <2>4, <3>2 DEF RInv
    <3> QED BY <1>1, <2>2, <3>1, <3>2
  <2>7. Current' # Nil => Current'.id <= triggers'
    BY <1>1, <1>4, <2>1 DEF RInv
  <2> QED BY <2>1, <2>5, <2>6, <2>7 DEF RInv
<1>9. CASE Delivery!Begin
  <2>1. /\ pending # <<>>
        /\ Current' = pending[1] /\ Waiting' \subseteq Names
        /\ UNCHANGED <<delivered, triggers>>
    BY <1>1, <1>9 DEF Delivery!Begin, Waiting, Listeners
  <2>2. /\ Len(pending) \in Nat /\ Len(pending') = Len(pending) - 1
        /\ \A i \in 1 .. Len(pending') : i + 1 \in 1 .. Len(pending) /\ pending'[i] = pending[i + 1]
    BY <1>1, <1>9 DEF Delivery!Begin
  <2>3. 1 \in 1 .. Len(pending)
    BY <1>1, <2>1
  <2>4. ASSUME NEW i \in 1 .. Len(pending')
        PROVE  /\ pending'[i].id <= triggers'
               /\ \A n \in Names : <<pending'[i].id, n>> \notin delivered'
               /\ Current' # Nil => Current'.id < pending'[i].id
               /\ \A j \in 1 .. Len(pending') : i < j => pending'[i].id < pending'[j].id
    <3>1. i + 1 \in 1 .. Len(pending) /\ pending'[i] = pending[i + 1] /\ 1 < i + 1
      BY <1>1, <2>2
    <3>2. \A j \in 1 .. Len(pending') : i < j => pending'[i].id < pending'[j].id
      <4> SUFFICES ASSUME NEW j \in 1 .. Len(pending'), i < j
                   PROVE  pending'[i].id < pending'[j].id
        OBVIOUS
      <4>1. j + 1 \in 1 .. Len(pending) /\ pending'[j] = pending[j + 1] /\ i + 1 < j + 1
        BY <1>1, <2>2
      <4> QED BY <3>1, <4>1 DEF RInv
    <3>3. Current'.id < pending'[i].id
      BY <2>1, <2>3, <3>1 DEF RInv
    <3>4. pending'[i].id <= triggers'
      BY <2>1, <3>1 DEF RInv
    <3>5. \A n \in Names : <<pending'[i].id, n>> \notin delivered'
      BY <2>1, <3>1 DEF RInv
    <3> QED BY <3>2, <3>3, <3>4, <3>5
  <2>5. /\ Current'.id <= triggers'
        /\ \A n \in Waiting' : <<Current'.id, n>> \notin delivered'
    BY <2>1, <2>3 DEF RInv
  <2> QED BY <2>1, <2>4, <2>5 DEF RInv
<1>10. ASSUME NEW n \in Names, Delivery!Inform(n) PROVE HistoryOK'
  <2>1. /\ Current # Nil
        /\ delivered' = delivered \cup {<<Current.id, n>>}
        /\ Waiting' = Waiting \ {n}
        /\ UNCHANGED <<pending, Current, triggers>>
    BY <1>10 DEF Delivery!Inform
  <2>2. \A i \in 1 .. Len(pending) : Current.id # pending[i].id
    BY <1>3, <1>4, <2>1 DEF RInv
  <2> QED BY <1>1, <1>5, <2>1, <2>2 DEF RInv
<1>11. CASE Delivery!Finish
  BY <1>11 DEF Delivery!Finish, RInv
<1>12. CASE Delivery!Reload \/ Delivery!Reboot
  BY <1>12 DEF Delivery!Reload, Delivery!Reboot, RInv
<1>13. CASE UNCHANGED Delivery!dvars
  <2>1. UNCHANGED <<pending, Current, Waiting, delivered, triggers>>
    BY <1>13 DEF Delivery!dvars
  <2> QED BY <1>6, <2>1
<1> HIDE DEF HistoryOK
<1>14. CASE Delivery!DNext
  <2>1. CASE \E e \in EventIds, n \in Names : Delivery!Register(e, n) \/ Delivery!Unregister(e, n)
    BY <1>7, <2>1
  <2>2. CASE \E e \in EventIds : Delivery!Trigger(e)
    BY <1>8, <2>2
  <2>3. CASE \E n \in Names : Delivery!Inform(n) \/ Delivery!Drop(n)
    BY <1>10, <1>7a, <2>3
  <2> QED BY <1>9, <1>11, <1>12, <1>14, <2>1, <2>2, <2>3 DEF Delivery!DNext
<1> QED BY <1>13, <1>14

LEMMA InitRefines == Init => Delivery!DInit /\ RInv
<1> SUFFICES ASSUME Init PROVE Delivery!DInit /\ RInv
  OBVIOUS
<1>1. \A e \in EventIds : Listeners(events[e]) = {}
  BY DEF Init, Listeners, NoListeners
<1>2. Registered = [e \in EventIds |-> {}] /\ Current = Nil /\ Waiting = {}
  BY <1>1 DEF Init, Registered, Current, Waiting
<1>3. HistoryOK
  BY <1>2 DEF Init, HistoryOK
<1> QED BY <1>2, <1>3, InitInv DEF Init, RInv, Delivery!DInit

\* The dispatcher keeps the promises of EventDelivery: an event is delivered in
\* its turn, at most once to each listener, to everyone who was registered when
\* its turn came and has not unregistered or vanished, and to nobody else.
THEOREM DeliveryImplemented == Spec => ImplementsDelivery
<1>1. RInv /\ [Next]_vars => RInv'
  BY StepInv, StepRefines, HistoryStep DEF RInv
<1> QED BY <1>1, InitRefines, StepRefines, PTL
  DEF Spec, ImplementsDelivery, Delivery!DSpec
=============================================================================
