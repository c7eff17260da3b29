---------------------------- MODULE HookProvider ----------------------------
(***************************************************************************)
(* One hook of a hook provider (std/hook_provider.c): registration with a  *)
(* limit for every type of consumer, and the flow that calls the consumers *)
(* one after the other while these register, unregister and destruct each  *)
(* other.                                                                  *)
(*                                                                         *)
(* An entry is a struct that several arrays refer to.  What matters is     *)
(* which array the flow and a registration under way still hold: an        *)
(* element set to 0 is seen by all who hold that array, a new array is     *)
(* not.  The data of the hook is left out, and so are side effects of the  *)
(* surveyors' permissions.                                                 *)
(***************************************************************************)
EXTENDS Lists

CONSTANTS
  Consumers,      \* objects that register one closure each
  Type,           \* Type[c]: as what c registers, 1 surveyor, 2 hmod, 3 dmod, 4 listener
  Prio,           \* Prio[c]: the lower, the earlier it is called
  MAX_HOOK_COUNTS,\* the limits of the four types
  Nil,            \* no flow, no registration, the LPC value 0 in an array
  MaxCalls,       \* bound: calls that the consumers make during a flow
  MaxGone         \* bound: destructed consumers

Types == 1 .. 4   \* in the order in which a flow calls them

ASSUME HookAssumption ==
  /\ Type \in [Consumers -> Types] /\ Prio \in [Consumers -> Nat]
  /\ MAX_HOOK_COUNTS \in [Types -> Nat \ {0}]
  /\ MaxCalls \in Nat /\ MaxGone \in Nat
  /\ Nil \notin Consumers

VARIABLES
  hook,     \* the arrays of entries of each type
  valid,    \* the entries that have a closure and have not expired
  gone,     \* destructed consumers
  flow,     \* the flow that runs, see Flow
  reg,      \* the registration that waits for superseededHook(), see Reg
  cleanup,  \* a call_out of CleanHookMapping() is pending
  calls,    \* calls left to the consumers in this flow
  broken    \* an error has stopped a flow or a registration

vars == <<hook, valid, gone, flow, reg, cleanup, calls, broken>>

\* The structs of a consumer are told apart by numbers that are used again.
Entry == [c : Consumers, n : 1 .. 3]

\* own: the array is (still) the one in the hook.
Flow == [type : Types, arr : Seq(Entry \cup {Nil}), i : Nat, own : BOOLEAN,
         running : Entry \cup {Nil}, called : Seq(Consumers)]
Reg  == [type : Types, arr : Seq(Entry \cup {Nil}), own : BOOLEAN]

\* A struct is not the value 0.
ASSUME StructAssumption == Nil \notin Entry /\ Nil \notin Reg

Init ==
  /\ hook = [t \in Types |-> <<>>]
  /\ valid = {} /\ gone = {} /\ flow = Nil /\ reg = Nil
  /\ cleanup = FALSE /\ calls = 0 /\ broken = FALSE

\* Consumers act on their own or while they are called; time passes between flows.
Idle == flow = Nil /\ reg = Nil
InCallback == flow # Nil => flow.running # Nil

Call == IF flow = Nil THEN UNCHANGED calls ELSE calls > 0 /\ calls' = calls - 1

-----------------------------------------------------------------------------
(* Registering.                                                            *)

\* Entries that are not valid are replaced by 0 in the array ...
Nulled(arr) == [i \in DOMAIN arr |-> IF arr[i] \in valid THEN arr[i] ELSE Nil]

\* ... that whoever holds the array sees, the hook gets a new one without them.
CleanHook == [t \in Types |-> Those(hook[t], valid)]
SeenBy(holder) ==
  IF holder # Nil /\ holder.own
    THEN [holder EXCEPT !.arr = Nulled(@), !.own = FALSE] ELSE holder

Ordered(arr) == \A i, j \in DOMAIN arr : i < j => Prio[arr[i].c] <= Prio[arr[j].c]

\* sort_array() may leave entries of one priority in any order.
Sorted(arr) ==
  {s \in {[i \in DOMAIN arr |-> arr[p[i]]] : p \in Bijection(DOMAIN arr, DOMAIN arr)} :
     Ordered(s)}

NewEntry(c, h) ==
  LET held(a) == IF a = Nil THEN {} ELSE ToSet(a.arr)
      used == (UNION {ToSet(h[t]) : t \in Types}) \cup held(flow) \cup held(reg)
  IN [c |-> c, n |-> CHOOSE n \in 1 .. 3 : [c |-> c, n |-> n] \notin used]

\* A surveyor, if there is one, may say no.
Permitted(h) == IF Len(h[1]) = 0 THEN {TRUE} ELSE BOOLEAN

\* There is room: the entry is added in its place.
RegisterFree(c, h, e) ==
  /\ Len(h[Type[c]]) < MAX_HOOK_COUNTS[Type[c]]
  /\ \E arr \in Sorted(Append(h[Type[c]], e)) : hook' = [h EXCEPT ![Type[c]] = arr]
  /\ valid' = valid \cup {e}
  /\ reg' = SeenBy(reg)

\* Faulty variant: the first, not the last, has to go.
RegisterOverFirst(c, h, e) ==
  LET t == Type[c] IN
  /\ Len(h[t]) = MAX_HOOK_COUNTS[t]
  /\ Prio[Last(h[t]).c] > Prio[c]
  /\ valid' = valid \cup {e}
  /\ \E arr \in Sorted(ReplaceAt(h[t], 1, e)) : hook' = [h EXCEPT ![t] = arr]
  /\ reg' = SeenBy(reg)

\* The last entry has to go for one of higher priority.  Its object is told so
\* before the array is sorted, and while it acts on that the new array is the
\* hook's; one that loses its place meanwhile does not act.
RegisterSuperseding(c, h, e) ==
  LET t == Type[c]
      arr == ReplaceAt(h[t], Len(h[t]), e)
  IN /\ Len(h[t]) = MAX_HOOK_COUNTS[t]
     /\ Prio[Last(h[t]).c] > Prio[c]
     /\ valid' = valid \cup {e}
     /\ IF reg = Nil
          THEN /\ hook' = [h EXCEPT ![t] = arr]
               /\ reg' = [type |-> t, arr |-> arr, own |-> TRUE]
          ELSE /\ \E s \in Sorted(arr) : hook' = [h EXCEPT ![t] = s]
               /\ reg' = SeenBy(reg)

IsConsumer(c, h) == \E e \in ToSet(h[Type[c]]) : e.c = c

\* HRegisterToHook(): the hook is cleaned first, whatever comes of it.
Register(c) ==
  /\ InCallback /\ c \notin gone
  /\ Call
  /\ flow' = SeenBy(flow)
  /\ LET h == CleanHook
         refused == hook' = h /\ reg' = SeenBy(reg) /\ UNCHANGED valid
     IN \/ refused /\ (IsConsumer(c, h) \/ FALSE \in Permitted(h))
        \/ /\ ~IsConsumer(c, h) /\ TRUE \in Permitted(h)
           /\ LET e == NewEntry(c, h) IN
              \/ RegisterFree(c, h, e)
              \/ RegisterSuperseding(c, h, e)
              \/ /\ refused
                 /\ Len(h[Type[c]]) = MAX_HOOK_COUNTS[Type[c]]
                 /\ Prio[Last(h[Type[c]]).c] <= Prio[c]
  /\ UNCHANGED <<gone, cleanup, broken>>

\* Faulty variant: the array stays as it is.
RegisterEndUnsorted ==
  /\ reg # Nil /\ reg' = Nil
  /\ UNCHANGED <<hook, valid, gone, cleanup, calls, flow, broken>>

\* superseededHook() has returned: the array as it was read before the call is
\* sorted and written back.  The sort fails on a 0, which ends the flow as well.
RegisterEnd ==
  /\ reg # Nil /\ reg' = Nil
  /\ IF Contains(reg.arr, Nil)
       THEN flow' = Nil /\ broken' = TRUE /\ calls' = 0 /\ UNCHANGED hook
       ELSE /\ \E s \in Sorted(reg.arr) : hook' = [hook EXCEPT ![reg.type] = s]
            /\ flow' = IF flow # Nil THEN [flow EXCEPT !.own = FALSE] ELSE Nil
            /\ UNCHANGED <<broken, calls>>
  /\ UNCHANGED <<valid, gone, cleanup>>

\* HUnregisterFromHook(): the entry loses its closure and stays in the array.
Unregister(c) ==
  /\ InCallback /\ c \notin gone
  /\ Call
  /\ \E e \in ToSet(hook[Type[c]]) \cap valid : e.c = c /\ valid' = valid \ {e}
  /\ UNCHANGED <<hook, gone, flow, reg, cleanup, broken>>

\* A destructed object leaves closures that are 0.
Destruct(c) ==
  /\ InCallback /\ c \notin gone /\ Cardinality(gone) < MaxGone
  /\ gone' = gone \cup {c}
  /\ valid' = {e \in valid : e.c # c}
  /\ UNCHANGED <<hook, flow, reg, cleanup, calls, broken>>

\* An endtime is reached between two executions: time() stands still in one.
Expire ==
  /\ Idle
  /\ \E e \in (UNION {ToSet(hook[t]) : t \in Types}) \cap valid : valid' = valid \ {e}
  /\ UNCHANGED <<hook, gone, flow, reg, cleanup, calls, broken>>

-----------------------------------------------------------------------------
(* The flow, HookFlow().                                                   *)

\* The arrays are read one after the other, each when its turn comes.
Begin(t) == [type |-> t, arr |-> hook[t], i |-> 1, own |-> TRUE,
             running |-> Nil, called |-> <<>>]

Trigger ==
  /\ Idle
  /\ flow' = Begin(1) /\ calls' = MaxCalls
  /\ UNCHANGED <<hook, valid, gone, reg, cleanup, broken>>

\* After the listeners the flow is over.
NextType ==
  /\ flow.i > Len(flow.arr)
  /\ IF flow.type = 4 THEN flow' = Nil /\ calls' = 0
                      ELSE flow' = Begin(flow.type + 1) /\ UNCHANGED calls
  /\ UNCHANGED <<hook, valid, gone, reg, cleanup, broken>>

\* A 0 in the array is no struct: an error.
Zero ==
  /\ flow.i <= Len(flow.arr) /\ flow.arr[flow.i] = Nil
  /\ flow' = Nil /\ calls' = 0 /\ broken' = TRUE
  /\ UNCHANGED <<hook, valid, gone, reg, cleanup>>

\* An entry that is not valid is left to the clean-up.
Skip ==
  /\ flow.i <= Len(flow.arr) /\ flow.arr[flow.i] \notin valid \cup {Nil}
  /\ flow' = [flow EXCEPT !.i = @ + 1]
  /\ cleanup' = TRUE
  /\ UNCHANGED <<hook, valid, gone, reg, calls, broken>>

\* Faulty variant: looks up the hook's array by index, not the one it began with.
CallLive ==
  LET arr == hook[flow.type] IN
  /\ flow.i <= Len(flow.arr) /\ flow.arr[flow.i] \in valid
  /\ IF flow.i <= Len(arr)
       THEN flow' = [flow EXCEPT !.running = arr[flow.i], !.called = Append(@, arr[flow.i].c)]
       ELSE flow' = [flow EXCEPT !.i = @ + 1]
  /\ UNCHANGED <<hook, valid, gone, reg, cleanup, calls, broken>>

CallConsumer ==
  /\ flow.i <= Len(flow.arr) /\ flow.arr[flow.i] \in valid
  /\ flow' = [flow EXCEPT !.running = flow.arr[flow.i],
                          !.called = Append(@, flow.arr[flow.i].c)]
  /\ UNCHANGED <<hook, valid, gone, reg, cleanup, calls, broken>>

FlowStep ==
  /\ flow # Nil /\ reg = Nil /\ flow.running = Nil
  /\ NextType \/ Zero \/ Skip \/ CallConsumer

\* Surveyors and hmods can cancel the flow, a hmod only if it is still
\* registered and with the leave of the surveyors; the answer of a surveyor
\* that is asked is free.
Return ==
  /\ flow # Nil /\ reg = Nil /\ flow.running # Nil
  /\ \/ flow' = [flow EXCEPT !.running = Nil, !.i = @ + 1] /\ UNCHANGED calls
     \/ /\ flow.type = 1 \/ (flow.type = 2 /\ flow.running \in valid)
        /\ flow' = Nil /\ calls' = 0
  /\ UNCHANGED <<hook, valid, gone, reg, cleanup, broken>>

CleanCallout ==
  /\ Idle /\ cleanup
  /\ cleanup' = FALSE
  /\ hook' = CleanHook
  /\ UNCHANGED <<valid, gone, flow, reg, calls, broken>>

Next ==
  \/ \E c \in Consumers : Register(c) \/ Unregister(c) \/ Destruct(c)
  \/ RegisterEnd \/ Expire
  \/ Trigger \/ FlowStep \/ Return \/ CleanCallout

Spec == Init /\ [][Next]_vars

-----------------------------------------------------------------------------

Entries == Seq(Entry)
TypeOK ==
  /\ \A t \in Types : hook[t] \in Entries
  /\ valid \subseteq Entry /\ gone \subseteq Consumers
  /\ flow = Nil \/ flow \in Flow
  /\ reg = Nil \/ reg \in Reg
  /\ cleanup \in BOOLEAN /\ calls \in 0 .. MaxCalls /\ broken \in BOOLEAN

\* No type has more consumers than sys/hook.h allows, whatever registers while
\* a superseded consumer is told and its array is written back.
LimitsKept == \A t \in Types : Len(hook[t]) <= MAX_HOOK_COUNTS[t]

\* Outside of a registration the consumers stand in the order of their
\* priorities, in which a flow calls them and the last one is superseded.
OrderKept ==
  reg = Nil /\ ~broken => \A t \in Types : Ordered(hook[t])

\* Consumers are registered once: the check is made before the surveyors and
\* superseded consumers are asked.
RegisteredOnce ==
  \A t \in Types : \A i, j \in DOMAIN hook[t] :
     i # j /\ {hook[t][i], hook[t][j]} \subseteq valid => hook[t][i].c # hook[t][j].c

\* All of them together: what a flow finds in the arrays of the hook, whatever
\* consumers did in the callbacks of an earlier one.
ConsumersOK == TypeOK /\ LimitsKept /\ OrderKept /\ RegisteredOnce

\* When the turn of a type is over, all that were registered when it began and
\* still are valid have been called, once each, whatever the consumers did.
EachCalledOnce ==
  [][ flow # Nil /\ flow.running = Nil /\ flow.i > Len(flow.arr) /\ reg = Nil
        /\ (flow' = Nil \/ flow'.type # flow.type) =>
      /\ \A e \in ToSet(flow.arr) \cap valid : Contains(flow.called, e.c)
      /\ IsInjective(flow.called) ]_vars

\* A valid consumer loses its place only to one of higher priority and only if
\* nobody in the hook has a lower one than itself (while no registration waits
\* for a superseded consumer).
LowestGoes ==
  [][ reg = Nil /\ ~broken =>
        \A t \in Types : \A e \in (ToSet(hook[t]) \cap valid) \ ToSet(hook'[t]) :
           /\ \A f \in ToSet(hook[t]) \cap valid : Prio[f.c] <= Prio[e.c]
           /\ \E f \in ToSet(hook'[t]) : Prio[f.c] < Prio[e.c] ]_vars
=============================================================================
