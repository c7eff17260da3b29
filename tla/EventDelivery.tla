---------------------------- MODULE EventDelivery ----------------------------
(***************************************************************************)
(* What the event dispatcher /p/daemon/eventd.c promises to its users      *)
(* (doc/events/eventd, doc/lfun/RegisterEvent, TriggerEvent and            *)
(* UnregisterEvent), without call_outs, evaluation ticks or closures: a    *)
(* queue of triggered events, worked off one after the other; an event is  *)
(* delivered at most once to each object that is registered for it, and it *)
(* is over only when nobody who was registered when its turn came is still *)
(* waiting for it.                                                         *)
(***************************************************************************)
EXTENDS Naturals, Sequences

CONSTANTS EventIds,   \* the ids events are registered and triggered under
          Names,      \* the object names of the listeners
          Nil         \* no event is being delivered

VARIABLES registered, \* per event id the names registered for it
          queue,      \* triggered events waiting for their turn
          current,    \* the event being delivered, or Nil
          remaining,  \* names that still have to be informed of it
          informed,   \* <<trigger number, name>>: deliveries so far
          triggers    \* number of events triggered so far

dvars == <<registered, queue, current, remaining, informed, triggers>>

DInit ==
  /\ registered = [e \in EventIds |-> {}]
  /\ queue = <<>>
  /\ current = Nil
  /\ remaining = {}
  /\ informed = {}
  /\ triggers = 0

\* An object is put on the list for e; an event already being delivered does
\* not reach it any more.
Register(e, n) ==
  /\ registered' = [registered EXCEPT ![e] = @ \cup {n}]
  /\ UNCHANGED <<queue, current, remaining, informed, triggers>>

\* From this moment on n hears of no event e, the current one included.
Unregister(e, n) ==
  /\ registered' = [registered EXCEPT ![e] = @ \ {n}]
  /\ remaining' = IF current # Nil /\ current.eid = e
                    THEN remaining \ {n} ELSE remaining
  /\ UNCHANGED <<queue, current, informed, triggers>>

Trigger(e) ==
  /\ triggers' = triggers + 1
  /\ queue' = Append(queue, [id |-> triggers', eid |-> e])
  /\ UNCHANGED <<registered, current, remaining, informed>>

\* The oldest event gets its turn: everybody registered now is to be informed.
Begin ==
  /\ current = Nil
  /\ queue # <<>>
  /\ current' = Head(queue)
  /\ queue' = Tail(queue)
  /\ remaining' = registered[Head(queue).eid]
  /\ UNCHANGED <<registered, informed, triggers>>

\* A registered object that is still waiting is informed, for the first time.
Inform(n) ==
  /\ current # Nil
  /\ n \in remaining \cap registered[current.eid]
  /\ <<current.id, n>> \notin informed
  /\ remaining' = remaining \ {n}
  /\ informed' = informed \cup {<<current.id, n>>}
  /\ UNCHANGED <<registered, queue, current, triggers>>

\* A listener that is gone is struck off the list, whenever the dispatcher takes it
\* to be gone: nobody else is forgotten.
Drop(n) ==
  /\ current # Nil
  /\ n \in remaining
  /\ remaining' = remaining \ {n}
  /\ registered' = [registered EXCEPT ![current.eid] = @ \ {n}]
  /\ UNCHANGED <<queue, current, informed, triggers>>

Finish ==
  /\ current # Nil
  /\ remaining = {}
  /\ current' = Nil
  /\ UNCHANGED <<registered, queue, remaining, informed, triggers>>

\* The dispatcher is replaced while the mud runs: registrations survive.
Reload ==
  /\ queue' = <<>>
  /\ current' = Nil
  /\ remaining' = {}
  /\ UNCHANGED <<registered, informed, triggers>>

\* A reboot of the mud: nothing survives.
Reboot ==
  /\ registered' = [e \in EventIds |-> {}]
  /\ queue' = <<>>
  /\ current' = Nil
  /\ remaining' = {}
  /\ UNCHANGED <<informed, triggers>>

DNext ==
  \/ \E e \in EventIds, n \in Names : Register(e, n) \/ Unregister(e, n)
  \/ \E e \in EventIds : Trigger(e)
  \/ \E n \in Names : Inform(n) \/ Drop(n)
  \/ Begin \/ Finish \/ Reload \/ Reboot

DSpec == DInit /\ [][DNext]_dvars
=============================================================================
