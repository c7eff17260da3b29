----------------------------- MODULE HookProofs -----------------------------
(***************************************************************************)
(* Theorems about a hook, for any consumers, priorities and limits.        *)
(***************************************************************************)
EXTENDS HookProvider, ListProofs

-----------------------------------------------------------------------------
(* The inductive invariant.                                                *)

\* The consumers of an array that are no holes are different ones.
Once(arr) ==
  \A i, j \in DOMAIN arr : i # j /\ Nil \notin {arr[i], arr[j]} => arr[i].c # arr[j].c

\* An array of the hook, or one that somebody still holds, of the type t.
ArrayOK(arr, t) ==
  /\ arr \in Seq(Entry \cup {Nil}) /\ Len(arr) <= MAX_HOOK_COUNTS[t] /\ Once(arr)
  /\ \A i \in DOMAIN arr : arr[i] # Nil => Type[arr[i].c] = t

\* So many positions of its array has a flow done with.
Done(f) == IF f.running = Nil THEN f.i - 1 ELSE f.i

\* The flow has called who was valid up to there, once, and nobody behind.
FlowOK(f, v) ==
  /\ f \in Flow /\ Once(f.arr) /\ 1 <= f.i /\ Done(f) <= Len(f.arr)
  /\ IsInjective(f.called)
  /\ \A k \in DOMAIN f.arr :
       /\ k <= Done(f) /\ f.arr[k] \in v => f.arr[k].c \in ToSet(f.called)
       /\ k > Done(f) /\ f.arr[k] # Nil => f.arr[k].c \notin ToSet(f.called)

IInv ==
  /\ hook \in [Types -> Seq(Entry)] /\ \A t \in Types : ArrayOK(hook[t], t)
  /\ valid \subseteq Entry /\ gone \subseteq Consumers
  /\ flow # Nil => FlowOK(flow, valid)
  /\ reg # Nil => reg \in Reg /\ ArrayOK(reg.arr, reg.type)
  /\ cleanup \in BOOLEAN /\ calls \in 0 .. MaxCalls /\ broken \in BOOLEAN
  /\ ~broken => \A t \in Types : (reg # Nil => t # reg.type) => Ordered(hook[t])

LEMMA Constants ==
  /\ Nil \notin Entry /\ Nil \notin Reg
  /\ Type \in [Consumers -> Types] /\ Prio \in [Consumers -> Nat]
  /\ MAX_HOOK_COUNTS \in [Types -> Nat \ {0}] /\ MaxCalls \in Nat
  /\ \A e \in Entry : e.c \in Consumers /\ Prio[e.c] \in Nat /\ Type[e.c] \in Types
BY HookAssumption, StructAssumption DEF Entry

-----------------------------------------------------------------------------
(* What is done with arrays.                                               *)

\* One who is found twice is found at one place.
LEMMA OnceIn ==
  ASSUME NEW arr \in Seq(Entry \cup {Nil}), Once(arr),
         NEW e \in ToSet(arr) \cap Entry, NEW f \in ToSet(arr) \cap Entry, e.c = f.c
  PROVE  e = f
BY Constants DEF Once, ToSet

LEMMA ThoseOK ==
  ASSUME NEW arr \in Seq(Entry), NEW t \in Types, ArrayOK(arr, t), NEW V
  PROVE  /\ Those(arr, V) \in Seq(Entry) /\ ArrayOK(Those(arr, V), t)
         /\ ToSet(Those(arr, V)) = ToSet(arr) \cap V
         /\ Ordered(arr) => Ordered(Those(arr, V))
<1> DEFINE s == Those(arr, V)
<1>1. s \in Seq(Entry) /\ s \in Seq(Entry \cup {Nil})
  <2>1. s \in Seq(Entry \cap V)
    BY ThoseIn
  <2> QED BY <2>1, SeqMonotonic
<1>2. Len(s) <= Len(arr) /\ ToSet(s) = ToSet(arr) \cap V
  BY ThoseTaken, ThoseHas
<1>3. PICK p : Taken(p, s, arr)
  BY ThoseTaken
<1> HIDE DEF s
<1>4. /\ Len(s) \in Nat /\ DOMAIN s = 1 .. Len(s) /\ Len(arr) \in Nat /\ DOMAIN arr = 1 .. Len(arr)
      /\ MAX_HOOK_COUNTS[t] \in Nat
  BY <1>1, LenProperties, Constants
<1>5. /\ \A k \in DOMAIN s : p[k] \in DOMAIN arr /\ s[k] = arr[p[k]]
      /\ \A j, k \in DOMAIN s : j < k => p[j] < p[k]
  BY <1>3, <1>4 DEF Taken
<1>6. Len(s) <= MAX_HOOK_COUNTS[t]
  BY <1>2, <1>4 DEF ArrayOK
<1>7. Once(s)
  <2>1. ASSUME NEW j \in DOMAIN s, NEW k \in DOMAIN s, j # k PROVE p[j] # p[k]
    <3>1. j < k \/ k < j
      BY <1>4, <2>1
    <3>2. p[j] < p[k] \/ p[k] < p[j]
      BY <1>5, <3>1
    <3>3. p[j] \in Int /\ p[k] \in Int
      BY <1>4, <1>5
    <3> QED BY <3>2, <3>3
  <2> QED BY <1>5, <2>1 DEF Once, ArrayOK
<1>8. \A i \in DOMAIN s : s[i] # Nil => Type[s[i].c] = t
  BY <1>5 DEF ArrayOK
<1>9. Ordered(arr) => Ordered(s)
  BY <1>5 DEF Ordered
<1> QED BY <1>1, <1>2, <1>6, <1>7, <1>8, <1>9 DEF s, ArrayOK

LEMMA SortedOK ==
  ASSUME NEW arr \in Seq(Entry), NEW t \in Types, ArrayOK(arr, t), NEW s \in Sorted(arr)
  PROVE  s \in Seq(Entry) /\ ArrayOK(s, t) /\ Ordered(s) /\ ToSet(s) = ToSet(arr)
<1>1. /\ Len(arr) \in Nat /\ DOMAIN arr = 1 .. Len(arr) /\ \A i \in DOMAIN arr : arr[i] \in Entry
  BY LenProperties
<1>2. PICK p \in Bijection(DOMAIN arr, DOMAIN arr) : s = [i \in DOMAIN arr |-> arr[p[i]]]
  BY DEF Sorted
<1>3. /\ p \in [DOMAIN arr -> DOMAIN arr]
      /\ \A i, j \in DOMAIN arr : p[i] = p[j] => i = j
      /\ \A j \in DOMAIN arr : \E i \in DOMAIN arr : p[i] = j
  BY <1>2 DEF Bijection, Injection, Surjection, IsInjective
<1>4. s \in [1 .. Len(arr) -> Entry]
  BY <1>1, <1>2, <1>3
<1>5. s \in Seq(Entry) /\ s \in Seq(Entry \cup {Nil}) /\ Len(s) = Len(arr) /\ DOMAIN s = DOMAIN arr
  <2>1. s \in Seq(Entry) /\ DOMAIN s = 1 .. Len(arr)
    BY <1>1, <1>4
  <2> QED BY <1>1, <2>1, LenProperties, SeqMonotonic
<1>6. Once(s)
  BY <1>2, <1>3, <1>5 DEF Once, ArrayOK
<1>7. \A i \in DOMAIN s : s[i] # Nil => Type[s[i].c] = t
  BY <1>2, <1>3, <1>5 DEF ArrayOK
<1>8. ToSet(s) = ToSet(arr)
  BY <1>2, <1>3, <1>5 DEF ToSet
<1>9. Ordered(s)
  BY DEF Sorted
<1> QED BY <1>5, <1>6, <1>7, <1>8, <1>9 DEF ArrayOK

LEMMA AppendOK ==
  ASSUME NEW arr \in Seq(Entry), NEW t \in Types, ArrayOK(arr, t), NEW e \in Entry,
         Type[e.c] = t, \A x \in ToSet(arr) : x.c # e.c, Len(arr) < MAX_HOOK_COUNTS[t]
  PROVE  /\ Append(arr, e) \in Seq(Entry) /\ ArrayOK(Append(arr, e), t)
         /\ ToSet(Append(arr, e)) = ToSet(arr) \cup {e}
<1> DEFINE s == Append(arr, e)
<1>1. /\ Len(arr) \in Nat /\ DOMAIN arr = 1 .. Len(arr)
      /\ s \in Seq(Entry) /\ Len(s) = Len(arr) + 1 /\ DOMAIN s = 1 .. Len(arr) + 1
      /\ \A i \in 1 .. Len(arr) : s[i] = arr[i] /\ arr[i] \in ToSet(arr)
      /\ s[Len(arr) + 1] = e
  BY AppendProperties, LenProperties DEF ToSet
<1>2. ToSet(s) = ToSet(arr) \cup {e}
  BY AppendHas
<1> HIDE DEF s
<1>3. s \in Seq(Entry \cup {Nil}) /\ MAX_HOOK_COUNTS[t] \in Nat
  BY <1>1, SeqMonotonic, Constants
<1>4. \A i \in DOMAIN s : i \in 1 .. Len(arr) \/ i = Len(arr) + 1
  BY <1>1
<1>5. Once(s)
  BY <1>1, <1>4 DEF Once, ArrayOK
<1>6. \A i \in DOMAIN s : s[i] # Nil => Type[s[i].c] = t
  BY <1>1, <1>4 DEF ArrayOK
<1>7. Len(s) <= MAX_HOOK_COUNTS[t]
  BY <1>1, <1>3
<1> QED BY <1>1, <1>2, <1>3, <1>5, <1>6, <1>7 DEF s, ArrayOK

\* The last one gives way.
LEMMA ReplacedOK ==
  ASSUME NEW arr \in Seq(Entry), NEW t \in Types, ArrayOK(arr, t), NEW e \in Entry,
         Type[e.c] = t, \A x \in ToSet(arr) : x.c # e.c, Len(arr) = MAX_HOOK_COUNTS[t]
  PROVE  LET s == ReplaceAt(arr, Len(arr), e)
         IN /\ s \in Seq(Entry) /\ ArrayOK(s, t) /\ Last(arr) \in ToSet(arr)
            /\ e \in ToSet(s) /\ \A x \in ToSet(arr) : x = Last(arr) \/ x \in ToSet(s)
<1> DEFINE s == ReplaceAt(arr, Len(arr), e)
           n == Len(arr)
<1>1. /\ n \in Nat \ {0} /\ DOMAIN arr = 1 .. n /\ n \in 1 .. n
      /\ \A i \in 1 .. n : arr[i] \in Entry /\ arr[i] \in ToSet(arr)
  <2>1. MAX_HOOK_COUNTS[t] \in Nat \ {0}
    BY Constants
  <2>2. n \in Nat /\ DOMAIN arr = 1 .. n /\ \A i \in 1 .. n : arr[i] \in Entry
    BY LenProperties
  <2>3. n \in Nat \ {0} /\ n \in 1 .. n
    BY <2>1, <2>2
  <2> QED BY <2>2, <2>3 DEF ToSet
<1>2. /\ s \in [1 .. n -> Entry] /\ s[n] = e /\ \A i \in 1 .. n : i # n => s[i] = arr[i]
  BY <1>1 DEF ReplaceAt
<1>3. s \in Seq(Entry) /\ s \in Seq(Entry \cup {Nil}) /\ Len(s) = n /\ DOMAIN s = 1 .. n
  <2>1. s \in Seq(Entry) /\ DOMAIN s = 1 .. n
    BY <1>1, <1>2
  <2> QED BY <1>1, <2>1, LenProperties, SeqMonotonic
<1>4. Last(arr) = arr[n]
  BY DEF Last
<1> HIDE DEF s, n
<1>5. Once(s)
  BY <1>1, <1>2, <1>3 DEF Once, ArrayOK
<1>6. \A i \in DOMAIN s : s[i] # Nil => Type[s[i].c] = t
  BY <1>1, <1>2, <1>3 DEF ArrayOK
<1>7. Len(s) <= MAX_HOOK_COUNTS[t]
  BY <1>1, <1>3 DEF n
<1>8. e \in ToSet(s) /\ \A x \in ToSet(arr) : x = Last(arr) \/ x \in ToSet(s)
  BY <1>1, <1>2, <1>3, <1>4 DEF ToSet
<1> QED BY <1>1, <1>3, <1>4, <1>5, <1>6, <1>7, <1>8 DEF s, n, ArrayOK

-----------------------------------------------------------------------------
(* Who holds an array.                                                     *)

LEMMA NulledOK ==
  ASSUME NEW arr \in Seq(Entry \cup {Nil})
  PROVE  /\ Nulled(arr) \in Seq(Entry \cup {Nil}) /\ Len(Nulled(arr)) = Len(arr)
         /\ DOMAIN Nulled(arr) = DOMAIN arr
         /\ \A k \in DOMAIN arr : Nulled(arr)[k] \in {arr[k], Nil}
<1> DEFINE n == Len(arr)
<1>1. n \in Nat /\ DOMAIN arr = 1 .. n /\ \A i \in 1 .. n : arr[i] \in Entry \cup {Nil}
  BY LenProperties
<1>2. Nulled(arr) \in [1 .. n -> Entry \cup {Nil}] /\ \A k \in 1 .. n : Nulled(arr)[k] \in {arr[k], Nil}
  BY <1>1 DEF Nulled
<1> HIDE DEF n
<1>3. Nulled(arr) \in Seq(Entry \cup {Nil}) /\ DOMAIN Nulled(arr) = 1 .. n
  BY <1>1, <1>2
<1> QED BY <1>1, <1>2, <1>3, LenProperties DEF n

LEMMA RegSeen ==
  ASSUME reg # Nil, reg \in Reg, ArrayOK(reg.arr, reg.type)
  PROVE  /\ SeenBy(reg) \in Reg /\ SeenBy(reg) # Nil /\ SeenBy(reg).type = reg.type
         /\ ArrayOK(SeenBy(reg).arr, reg.type)
<1>1. CASE ~reg.own
  BY <1>1 DEF SeenBy
<1>2. CASE reg.own
  <2> DEFINE arr == Nulled(reg.arr)
  <2>1. reg.arr \in Seq(Entry \cup {Nil})
    BY DEF Reg
  <2>2. /\ arr \in Seq(Entry \cup {Nil}) /\ Len(arr) = Len(reg.arr) /\ DOMAIN arr = DOMAIN reg.arr
        /\ \A k \in DOMAIN reg.arr : arr[k] \in {reg.arr[k], Nil}
    BY <2>1, NulledOK
  <2>3. SeenBy(reg) = [reg EXCEPT !.arr = arr, !.own = FALSE]
    BY <1>2 DEF SeenBy
  <2> HIDE DEF arr
  <2>4. /\ SeenBy(reg) \in Reg /\ SeenBy(reg).type = reg.type /\ SeenBy(reg).arr = arr
    BY <2>2, <2>3 DEF Reg
  <2>5. ArrayOK(arr, reg.type)
    <3>1. Once(arr)
      BY <2>2 DEF ArrayOK, Once
    <3>2. \A i \in DOMAIN arr : arr[i] # Nil => Type[arr[i].c] = reg.type
      BY <2>2 DEF ArrayOK
    <3> QED BY <2>2, <3>1, <3>2 DEF ArrayOK
  <2> QED BY <2>4, <2>5, Constants
<1>3. reg.own \in BOOLEAN
  BY DEF Reg
<1> QED BY <1>1, <1>2, <1>3

\* A flow goes on with holes in its array, as long as nobody in it becomes valid.
LEMMA FlowSeen ==
  ASSUME NEW v, NEW w, flow # Nil, FlowOK(flow, v),
         \A e \in ToSet(flow.arr) \ {Nil} : e \in w => e \in v, Nil \notin w
  PROVE  FlowOK(flow, w) /\ FlowOK(SeenBy(flow), w)
<1>1. flow \in Flow /\ flow.arr \in Seq(Entry \cup {Nil})
  BY DEF FlowOK, Flow
<1>2. \A k \in DOMAIN flow.arr : flow.arr[k] \in w => flow.arr[k] \in v
  BY <1>1, LenProperties DEF ToSet
<1>3. FlowOK(flow, w)
  BY <1>2 DEF FlowOK
<1>4. CASE ~flow.own
  BY <1>3, <1>4 DEF SeenBy
<1>5. CASE flow.own
  <2> DEFINE arr == Nulled(flow.arr)
             f == [flow EXCEPT !.arr = arr, !.own = FALSE]
  <2>1. /\ arr \in Seq(Entry \cup {Nil}) /\ Len(arr) = Len(flow.arr) /\ DOMAIN arr = DOMAIN flow.arr
        /\ \A k \in DOMAIN flow.arr : arr[k] \in {flow.arr[k], Nil}
    BY <1>1, NulledOK
  <2>2. SeenBy(flow) = f
    BY <1>5 DEF SeenBy
  <2> HIDE DEF arr
  <2>3. /\ f \in Flow /\ f.arr = arr /\ f.i = flow.i /\ f.running = flow.running
        /\ f.called = flow.called
    BY <1>1, <2>1 DEF Flow
  <2> HIDE DEF f
  <2>4. Done(f) = Done(flow)
    BY <2>3 DEF Done
  <2>5. Once(arr)
    BY <2>1 DEF FlowOK, Once
  <2>6. \A k \in DOMAIN arr :
          /\ k <= Done(f) /\ arr[k] \in w => arr[k].c \in ToSet(f.called)
          /\ k > Done(f) /\ arr[k] # Nil => arr[k].c \notin ToSet(f.called)
    BY <1>3, <2>1, <2>3, <2>4 DEF FlowOK
  <2>7. FlowOK(f, w)
    BY <2>1, <2>3, <2>4, <2>5, <2>6 DEF FlowOK
  <2> QED BY <1>3, <2>2, <2>7
<1>6. flow.own \in BOOLEAN
  BY <1>1 DEF Flow
<1> QED BY <1>4, <1>5, <1>6

\* A flow that begins with the array of a type has called nobody.
LEMMA BeginOK ==
  ASSUME IInv, NEW t \in Types
  PROVE  FlowOK(Begin(t), valid)
<1> DEFINE arr == hook[t]
           f == Begin(t)
           none == <<>>
<1>1. /\ arr \in Seq(Entry \cup {Nil}) /\ Once(arr) /\ Len(arr) \in Nat /\ DOMAIN arr = 1 .. Len(arr)
  BY LenProperties DEF IInv, ArrayOK
<1>2. none \in Seq(Consumers) /\ IsInjective(none) /\ ToSet(none) = {}
  BY EmptySeq DEF IsInjective, ToSet
<1>3. f = [type |-> t, arr |-> arr, i |-> 1, own |-> TRUE, running |-> Nil, called |-> none]
  BY DEF Begin
<1> HIDE DEF arr, f, none
<1>4. /\ f \in Flow /\ f.arr = arr /\ f.i = 1 /\ f.running = Nil /\ f.called = none
  BY <1>1, <1>2, <1>3 DEF Flow
<1>5. Done(f) = 0
  BY <1>4 DEF Done
<1>6. \A k \in DOMAIN arr : ~(k <= Done(f))
  BY <1>1, <1>5
<1> QED BY <1>1, <1>2, <1>4, <1>5, <1>6 DEF FlowOK, f

-----------------------------------------------------------------------------
(* A new entry.                                                            *)

\* What the array of a hook holds of a consumer is one entry, and so many are in
\* the array of the flow and in that of a registration: a number is left.
LEMMA NewEntryIs ==
  ASSUME IInv, NEW c \in Consumers, NEW h \in [Types -> Seq(Entry)],
         \A t \in Types : ArrayOK(h[t], t), ~IsConsumer(c, h)
  PROVE  LET e == NewEntry(c, h)
         IN /\ e \in Entry /\ e.c = c
            /\ flow # Nil => e \notin ToSet(flow.arr)
            /\ \A x \in ToSet(h[Type[c]]) : x.c # c
<1> DEFINE held(a) == IF a = Nil THEN {} ELSE ToSet(a.arr)
           used == (UNION {ToSet(h[t]) : t \in Types}) \cup held(flow) \cup held(reg)
           n == CHOOSE m \in 1 .. 3 : [c |-> c, n |-> m] \notin used
           e(m) == [c |-> c, n |-> m]
<1>1. \A x \in ToSet(h[Type[c]]) : x.c # c
  BY DEF IsConsumer
<1>2. \A m \in 1 .. 3 : e(m) \in Entry /\ e(m).c = c
  BY DEF Entry
<1>3. ASSUME NEW t \in Types, NEW m \in 1 .. 3 PROVE e(m) \notin ToSet(h[t])
  <2>1. CASE t = Type[c]
    BY <1>1, <1>2, <2>1
  <2>2. CASE t # Type[c]
    <3>1. ASSUME e(m) \in ToSet(h[t]) PROVE Type[e(m).c] = t
      BY <1>2, <3>1, Constants DEF ArrayOK, ToSet
    <3> QED BY <1>2, <2>2, <3>1
  <2> QED BY <2>1, <2>2
<1>4. ASSUME NEW a, a # Nil => Once(a.arr) /\ a.arr \in Seq(Entry \cup {Nil}),
             NEW k \in 1 .. 3, NEW m \in 1 .. 3, k # m
      PROVE  ~(e(k) \in held(a) /\ e(m) \in held(a))
  <2> SUFFICES ASSUME e(k) \in held(a), e(m) \in held(a) PROVE FALSE
    OBVIOUS
  <2>1. a # Nil /\ e(k) \in ToSet(a.arr) /\ e(m) \in ToSet(a.arr)
    OBVIOUS
  <2> HIDE DEF e, held
  <2>2. e(k) = e(m)
    BY <1>2, <1>4, <2>1, OnceIn
  <2> QED BY <1>4, <2>2 DEF e
<1>5. /\ flow # Nil => Once(flow.arr) /\ flow.arr \in Seq(Entry \cup {Nil})
      /\ reg # Nil => Once(reg.arr) /\ reg.arr \in Seq(Entry \cup {Nil})
  BY DEF IInv, FlowOK, ArrayOK, Flow
<1>6. \E m \in 1 .. 3 : e(m) \notin held(flow) \cup held(reg)
  <2>1. {1, 2, 3} \subseteq 1 .. 3
    OBVIOUS
  <2>2. /\ ~(e(1) \in held(flow) /\ e(2) \in held(flow))
        /\ ~(e(1) \in held(flow) /\ e(3) \in held(flow))
        /\ ~(e(2) \in held(flow) /\ e(3) \in held(flow))
        /\ ~(e(1) \in held(reg) /\ e(2) \in held(reg))
        /\ ~(e(1) \in held(reg) /\ e(3) \in held(reg))
        /\ ~(e(2) \in held(reg) /\ e(3) \in held(reg))
    <3> HIDE DEF e, held
    <3> QED BY <1>4, <1>5, <2>1
  <2> HIDE DEF e, held
  <2> QED BY <2>1, <2>2
<1>7. \E m \in 1 .. 3 : e(m) \notin used
  <2> HIDE DEF e, held
  <2> QED BY <1>3, <1>6
<1>8. NewEntry(c, h) = e(n)
  BY DEF NewEntry
<1>9. n \in 1 .. 3 /\ e(n) \notin used
  <2> HIDE DEF used
  <2> QED BY <1>7
<1>10. flow # Nil => e(n) \notin ToSet(flow.arr)
  BY <1>9
<1> HIDE DEF e, n
<1> QED BY <1>1, <1>2, <1>8, <1>9, <1>10

-----------------------------------------------------------------------------
(* The invariant.                                                          *)

LEMMA IInvImplies == IInv => ConsumersOK
<1> SUFFICES ASSUME IInv PROVE ConsumersOK
  OBVIOUS
<1>1. \A t \in Types : hook[t] \in Seq(Entry) /\ ArrayOK(hook[t], t)
  BY DEF IInv
<1>2. TypeOK
  BY <1>1 DEF IInv, TypeOK, Entries, FlowOK
<1>3. LimitsKept
  BY <1>1 DEF LimitsKept, ArrayOK
<1>4. OrderKept
  BY DEF IInv, OrderKept
<1>5. RegisteredOnce
  <2> SUFFICES ASSUME NEW t \in Types, NEW i \in DOMAIN hook[t], NEW j \in DOMAIN hook[t], i # j
               PROVE  hook[t][i].c # hook[t][j].c
    BY DEF RegisteredOnce
  <2>1. hook[t][i] \in Entry /\ hook[t][j] \in Entry
    BY <1>1, LenProperties
  <2> QED BY <1>1, <2>1, Constants DEF ArrayOK, Once
<1> QED BY <1>2, <1>3, <1>4, <1>5 DEF ConsumersOK

LEMMA IInvInit == Init => IInv
<1> DEFINE none == <<>>
<1> SUFFICES ASSUME Init PROVE IInv
  OBVIOUS
<1>1. none \in Seq(Entry) /\ none \in Seq(Entry \cup {Nil}) /\ Len(none) = 0 /\ DOMAIN none = {}
  BY EmptySeq
<1>2. hook = [t \in Types |-> none]
  BY DEF Init
<1> HIDE DEF none
<1>3. hook \in [Types -> Seq(Entry)] /\ \A t \in Types : ArrayOK(hook[t], t) /\ Ordered(hook[t])
  BY <1>1, <1>2, Constants DEF ArrayOK, Once, Ordered
<1>4. /\ valid = {} /\ gone = {} /\ flow = Nil /\ reg = Nil
      /\ cleanup = FALSE /\ calls = 0 /\ broken = FALSE
  BY DEF Init
<1>5. calls \in 0 .. MaxCalls
  BY <1>4, Constants
<1> QED BY <1>3, <1>4, <1>5 DEF IInv

LEMMA CleanHookOK ==
  ASSUME IInv
  PROVE  /\ CleanHook \in [Types -> Seq(Entry)]
         /\ \A t \in Types : /\ ArrayOK(CleanHook[t], t)
                             /\ ToSet(CleanHook[t]) = ToSet(hook[t]) \cap valid
                             /\ Ordered(hook[t]) => Ordered(CleanHook[t])
<1>1. \A t \in Types : hook[t] \in Seq(Entry) /\ ArrayOK(hook[t], t)
  BY DEF IInv
<1>2. \A t \in Types : CleanHook[t] = Those(hook[t], valid)
  BY DEF CleanHook
<1>3. \A t \in Types : /\ CleanHook[t] \in Seq(Entry) /\ ArrayOK(CleanHook[t], t)
                       /\ ToSet(CleanHook[t]) = ToSet(hook[t]) \cap valid
                       /\ Ordered(hook[t]) => Ordered(CleanHook[t])
  BY <1>1, <1>2, ThoseOK
<1>4. CleanHook \in [Types -> Seq(Entry)]
  BY <1>3 DEF CleanHook
<1> QED BY <1>3, <1>4

\* A new entry in its place, or in that of the last one.
LEMMA RegisteredIs ==
  ASSUME IInv, NEW c \in Consumers, ~IsConsumer(c, CleanHook)
  PROVE  LET h == CleanHook
             t == Type[c]
             e == NewEntry(c, h)
         IN /\ e \in Entry /\ e.c = c /\ t \in Types
            /\ flow # Nil => e \notin ToSet(flow.arr)
            /\ Len(h[t]) < MAX_HOOK_COUNTS[t] =>
                 \A s \in Sorted(Append(h[t], e)) :
                    s \in Seq(Entry) /\ ArrayOK(s, t) /\ Ordered(s) /\ ToSet(s) = ToSet(h[t]) \cup {e}
            /\ Len(h[t]) = MAX_HOOK_COUNTS[t] =>
                 LET arr == ReplaceAt(h[t], Len(h[t]), e)
                 IN /\ arr \in Seq(Entry) /\ ArrayOK(arr, t) /\ e \in ToSet(arr)
                    /\ Last(h[t]) \in ToSet(h[t])
                    /\ \A x \in ToSet(h[t]) : x = Last(h[t]) \/ x \in ToSet(arr)
                    /\ \A s \in Sorted(arr) : s \in Seq(Entry) /\ ArrayOK(s, t) /\ Ordered(s)
<1> DEFINE h == CleanHook
           t == Type[c]
           e == NewEntry(c, h)
<1>1. /\ h \in [Types -> Seq(Entry)] /\ \A u \in Types : ArrayOK(h[u], u)
  BY CleanHookOK
<1>2. /\ e \in Entry /\ e.c = c /\ (flow # Nil => e \notin ToSet(flow.arr))
      /\ \A x \in ToSet(h[t]) : x.c # c
  BY <1>1, NewEntryIs
<1>3. t \in Types
  BY Constants
<1> DEFINE a == h[t]
           n == Append(a, e)
           r == ReplaceAt(a, Len(a), e)
<1>4. a \in Seq(Entry) /\ ArrayOK(a, t) /\ Type[e.c] = t /\ \A x \in ToSet(a) : x.c # e.c
  BY <1>1, <1>2, <1>3
<1> HIDE DEF h, e
<1>5. ASSUME Len(a) < MAX_HOOK_COUNTS[t], NEW s \in Sorted(n)
      PROVE  s \in Seq(Entry) /\ ArrayOK(s, t) /\ Ordered(s) /\ ToSet(s) = ToSet(a) \cup {e}
  <2> HIDE DEF a, t
  <2>1. n \in Seq(Entry) /\ ArrayOK(n, t) /\ ToSet(n) = ToSet(a) \cup {e}
    BY <1>2, <1>3, <1>4, <1>5, AppendOK
  <2> HIDE DEF n
  <2> QED BY <1>3, <1>5, <2>1, SortedOK
<1>6. ASSUME Len(a) = MAX_HOOK_COUNTS[t]
      PROVE  /\ r \in Seq(Entry) /\ ArrayOK(r, t) /\ e \in ToSet(r)
             /\ Last(a) \in ToSet(a) /\ \A x \in ToSet(a) : x = Last(a) \/ x \in ToSet(r)
  <2> HIDE DEF a, t
  <2> QED BY <1>2, <1>3, <1>4, <1>6, ReplacedOK
<1>7. ASSUME Len(a) = MAX_HOOK_COUNTS[t], NEW s \in Sorted(r)
      PROVE  s \in Seq(Entry) /\ ArrayOK(s, t) /\ Ordered(s)
  <2> HIDE DEF a, t, r
  <2> QED BY <1>3, <1>6, <1>7, SortedOK
<1> QED BY <1>2, <1>3, <1>5, <1>6, <1>7 DEF h, e

\* What every registration has to show.
LEMMA RegisterKeeps ==
  ASSUME IInv, flow' = SeenBy(flow), Call,
         hook' \in [Types -> Seq(Entry)], \A t \in Types : ArrayOK(hook'[t], t),
         valid' \subseteq Entry,
         flow # Nil => \A e \in ToSet(flow.arr) : e \in valid' => e \in valid,
         reg' # Nil => reg' \in Reg /\ ArrayOK(reg'.arr, reg'.type),
         reg # Nil => reg' # Nil /\ reg'.type = reg.type,
         \A t \in Types : (reg' # Nil => t # reg'.type) /\ Ordered(hook[t]) => Ordered(hook'[t]),
         UNCHANGED <<gone, cleanup, broken>>
  PROVE  IInv'
<1>1. flow' # Nil => FlowOK(flow', valid')
  <2>1. CASE flow = Nil
    BY <2>1 DEF SeenBy
  <2>2. CASE flow # Nil
    <3>1. FlowOK(flow, valid) /\ Nil \notin valid'
      BY <2>2, Constants DEF IInv
    <3>2. FlowOK(SeenBy(flow), valid')
      BY <2>2, <3>1, FlowSeen
    <3> QED BY <3>2
  <2> QED BY <2>1, <2>2
<1>2. calls' \in 0 .. MaxCalls
  BY Constants DEF IInv, Call
<1>3. ~broken' => \A t \in Types : (reg' # Nil => t # reg'.type) => Ordered(hook'[t])
  BY DEF IInv
<1> QED BY <1>1, <1>2, <1>3 DEF IInv

LEMMA RegisterStep ==
  ASSUME IInv, NEW c \in Consumers, Register(c)
  PROVE  IInv'
<1> DEFINE h == CleanHook
           t == Type[c]
           e == NewEntry(c, h)
           a == h[t]
           r == ReplaceAt(a, Len(a), e)
<1>1. /\ h \in [Types -> Seq(Entry)]
      /\ \A u \in Types : ArrayOK(h[u], u) /\ (Ordered(hook[u]) => Ordered(h[u]))
  BY CleanHookOK
<1>2. flow' = SeenBy(flow) /\ Call /\ UNCHANGED <<gone, cleanup, broken>>
  BY DEF Register
<1>3. /\ valid \subseteq Entry /\ hook \in [Types -> Seq(Entry)]
      /\ reg # Nil => reg \in Reg /\ ArrayOK(reg.arr, reg.type)
  BY DEF IInv
<1>4. reg = Nil => SeenBy(reg) = Nil
  BY DEF SeenBy
<1>5. reg # Nil => /\ SeenBy(reg) \in Reg /\ SeenBy(reg) # Nil /\ SeenBy(reg).type = reg.type
                   /\ ArrayOK(SeenBy(reg).arr, reg.type)
  BY <1>3, RegSeen
<1>6. CASE hook' = h /\ reg' = SeenBy(reg) /\ UNCHANGED valid
  <2>1. \A u \in Types : ArrayOK(hook'[u], u) /\ (Ordered(hook[u]) => Ordered(hook'[u]))
    BY <1>1, <1>6
  <2>2. hook' \in [Types -> Seq(Entry)]
    BY <1>1, <1>6
  <2> HIDE DEF h
  <2> QED BY <1>2, <1>3, <1>4, <1>5, <1>6, <2>1, <2>2, RegisterKeeps
<1>7. CASE ~IsConsumer(c, h) /\ RegisterFree(c, h, e)
  <2>1. /\ e \in Entry /\ t \in Types /\ (flow # Nil => e \notin ToSet(flow.arr))
        /\ Len(a) < MAX_HOOK_COUNTS[t] =>
             \A s \in Sorted(Append(a, e)) : s \in Seq(Entry) /\ ArrayOK(s, t) /\ Ordered(s)
    BY <1>7, RegisteredIs
  <2>2. PICK s \in Sorted(Append(a, e)) : hook' = [h EXCEPT ![t] = s]
    BY <1>7 DEF RegisterFree
  <2>3. Len(a) < MAX_HOOK_COUNTS[t] /\ valid' = valid \cup {e} /\ reg' = SeenBy(reg)
    BY <1>7 DEF RegisterFree
  <2>4. s \in Seq(Entry) /\ ArrayOK(s, t) /\ Ordered(s)
    BY <2>1, <2>3
  <2> HIDE DEF h, e, t
  <2>5. hook' \in [Types -> Seq(Entry)]
    BY <1>1, <2>1, <2>2, <2>4
  <2>6. \A u \in Types : ArrayOK(hook'[u], u) /\ (Ordered(hook[u]) => Ordered(hook'[u]))
    BY <1>1, <2>1, <2>2, <2>4
  <2>7. /\ valid' \subseteq Entry
        /\ flow # Nil => \A x \in ToSet(flow.arr) : x \in valid' => x \in valid
    BY <1>3, <2>1, <2>3
  <2> QED BY <1>2, <1>4, <1>5, <2>3, <2>5, <2>6, <2>7, RegisterKeeps
<1>8. CASE ~IsConsumer(c, h) /\ RegisterSuperseding(c, h, e)
  <2>1. Len(a) = MAX_HOOK_COUNTS[t] /\ valid' = valid \cup {e}
    BY <1>8 DEF RegisterSuperseding
  <2>2. /\ e \in Entry /\ t \in Types /\ (flow # Nil => e \notin ToSet(flow.arr))
        /\ r \in Seq(Entry) /\ ArrayOK(r, t)
        /\ \A s \in Sorted(r) : s \in Seq(Entry) /\ ArrayOK(s, t) /\ Ordered(s)
    BY <1>8, <2>1, RegisteredIs
  <2>3. /\ valid' \subseteq Entry
        /\ flow # Nil => \A x \in ToSet(flow.arr) : x \in valid' => x \in valid
    BY <1>3, <2>1, <2>2
  <2>4. CASE reg = Nil
    <3>1. hook' = [h EXCEPT ![t] = r] /\ reg' = [type |-> t, arr |-> r, own |-> TRUE]
      BY <1>8, <2>4 DEF RegisterSuperseding
    <3> HIDE DEF h, e, t, r
    <3>2. hook' \in [Types -> Seq(Entry)]
      BY <1>1, <2>2, <3>1
    <3>3. \A u \in Types : /\ ArrayOK(hook'[u], u)
                           /\ u # t /\ Ordered(hook[u]) => Ordered(hook'[u])
      BY <1>1, <2>2, <3>1
    <3>4. r \in Seq(Entry \cup {Nil})
      BY <2>2 DEF ArrayOK
    <3>5. reg' \in Reg /\ reg'.type = t /\ reg'.arr = r
      BY <2>2, <3>1, <3>4 DEF Reg
    <3>6. reg' # Nil /\ ArrayOK(reg'.arr, reg'.type)
      BY <2>2, <3>5, Constants
    <3> QED BY <1>2, <2>3, <2>4, <3>2, <3>3, <3>5, <3>6, RegisterKeeps
  <2>5. CASE reg # Nil
    <3>1. PICK s \in Sorted(r) : hook' = [h EXCEPT ![t] = s]
      BY <1>8, <2>5 DEF RegisterSuperseding
    <3>2. reg' = SeenBy(reg)
      BY <1>8, <2>5 DEF RegisterSuperseding
    <3>3. s \in Seq(Entry) /\ ArrayOK(s, t) /\ Ordered(s)
      BY <2>2
    <3> HIDE DEF h, e, t, r
    <3>4. hook' \in [Types -> Seq(Entry)]
      BY <1>1, <2>2, <3>1, <3>3
    <3>5. \A u \in Types : ArrayOK(hook'[u], u) /\ (Ordered(hook[u]) => Ordered(hook'[u]))
      BY <1>1, <2>2, <3>1, <3>3
    <3> QED BY <1>2, <1>5, <2>3, <2>5, <3>2, <3>4, <3>5, RegisterKeeps
  <2> QED BY <2>4, <2>5
<1> QED BY <1>6, <1>7, <1>8 DEF Register

LEMMA RegisterEndStep == ASSUME IInv, RegisterEnd PROVE IInv'
<1>1. /\ reg # Nil /\ reg \in Reg /\ ArrayOK(reg.arr, reg.type) /\ reg' = Nil /\ reg.type \in Types
      /\ reg.arr \in Seq(Entry \cup {Nil})
  BY DEF IInv, RegisterEnd, Reg
<1>2. valid' = valid /\ gone' = gone /\ cleanup' = cleanup
  BY DEF RegisterEnd
<1>3. CASE Contains(reg.arr, Nil)
  <2>1. flow' = Nil /\ broken' = TRUE /\ calls' = 0 /\ hook' = hook
    BY <1>3 DEF RegisterEnd
  <2>2. calls' \in 0 .. MaxCalls
    BY <2>1, Constants
  <2> QED BY <1>1, <1>2, <2>1, <2>2 DEF IInv
<1>4. CASE ~Contains(reg.arr, Nil)
  <2>1. /\ \E s \in Sorted(reg.arr) : hook' = [hook EXCEPT ![reg.type] = s]
        /\ flow' = IF flow # Nil THEN [flow EXCEPT !.own = FALSE] ELSE Nil
        /\ broken' = broken /\ calls' = calls
    BY <1>4 DEF RegisterEnd
  <2>2. reg.arr \in Seq(Entry)
    <3>1. \A i \in 1 .. Len(reg.arr) : reg.arr[i] \in Entry
      BY <1>1, <1>4, LenProperties DEF Contains
    <3>2. reg.arr \in [1 .. Len(reg.arr) -> Entry] /\ Len(reg.arr) \in Nat
      BY <1>1, <3>1, LenProperties
    <3> QED BY <3>2
  <2>3. PICK s \in Sorted(reg.arr) : hook' = [hook EXCEPT ![reg.type] = s]
    BY <2>1
  <2>4. s \in Seq(Entry) /\ ArrayOK(s, reg.type) /\ Ordered(s)
    BY <1>1, <2>2, SortedOK
  <2>5. /\ hook' \in [Types -> Seq(Entry)] /\ \A t \in Types : ArrayOK(hook'[t], t)
        /\ ~broken => \A t \in Types : Ordered(hook'[t])
    BY <1>1, <2>3, <2>4 DEF IInv
  <2>6. flow' # Nil => FlowOK(flow', valid')
    <3>1. CASE flow = Nil
      BY <2>1, <3>1
    <3>2. CASE flow # Nil
      <4>1. FlowOK(flow, valid)
        BY <3>2 DEF IInv
      <4>2. flow \in Flow /\ flow' = [flow EXCEPT !.own = FALSE]
        BY <2>1, <3>2, <4>1 DEF FlowOK
      <4>3. /\ flow' \in Flow /\ flow'.arr = flow.arr /\ flow'.i = flow.i
            /\ flow'.running = flow.running /\ flow'.called = flow.called
        BY <4>2 DEF Flow
      <4>4. Done(flow') = Done(flow)
        BY <4>3 DEF Done
      <4> QED BY <1>2, <4>1, <4>3, <4>4 DEF FlowOK
    <3> QED BY <3>1, <3>2
  <2> QED BY <1>1, <1>2, <2>1, <2>5, <2>6 DEF IInv
<1> QED BY <1>3, <1>4

\* Who is not valid any more takes nothing from what a flow has done.
LEMMA ShrinkStep ==
  ASSUME IInv, valid' \subseteq valid, gone' \subseteq Consumers, calls' \in 0 .. MaxCalls,
         UNCHANGED <<hook, flow, reg, cleanup, broken>>
  PROVE  IInv'
<1>1. flow' # Nil => FlowOK(flow', valid')
  <2>1. SUFFICES ASSUME flow # Nil PROVE FlowOK(flow, valid')
    OBVIOUS
  <2>2. FlowOK(flow, valid) /\ Nil \notin valid'
    BY <2>1, Constants DEF IInv
  <2> QED BY <2>1, <2>2, FlowSeen
<1> QED BY <1>1 DEF IInv

LEMMA UnregisterStep == ASSUME IInv, NEW c \in Consumers, Unregister(c) PROVE IInv'
<1>1. calls' \in 0 .. MaxCalls
  BY Constants DEF IInv, Unregister, Call
<1>2. valid' \subseteq valid /\ gone' \subseteq Consumers
  BY DEF IInv, Unregister
<1> QED BY <1>1, <1>2, ShrinkStep DEF Unregister

LEMMA DestructStep == ASSUME IInv, NEW c \in Consumers, Destruct(c) PROVE IInv'
<1>1. valid' \subseteq valid /\ gone' \subseteq Consumers /\ calls' \in 0 .. MaxCalls
  BY DEF IInv, Destruct
<1> QED BY <1>1, ShrinkStep DEF Destruct

LEMMA ExpireStep == ASSUME IInv, Expire PROVE IInv'
<1>1. valid' \subseteq valid /\ gone' \subseteq Consumers /\ calls' \in 0 .. MaxCalls
  BY DEF IInv, Expire
<1> QED BY <1>1, ShrinkStep DEF Expire

\* What every step of a flow has to show.
LEMMA FlowKeeps ==
  ASSUME IInv, UNCHANGED <<hook, valid, gone, reg>>,
         flow' # Nil => FlowOK(flow', valid),
         calls' \in 0 .. MaxCalls, cleanup' \in BOOLEAN, broken' \in BOOLEAN, broken => broken'
  PROVE  IInv'
BY DEF IInv

LEMMA TriggerStep == ASSUME IInv, Trigger PROVE IInv'
<1>1. FlowOK(Begin(1), valid)
  BY BeginOK DEF Types
<1>2. MaxCalls \in 0 .. MaxCalls
  BY Constants
<1>3. flow' = Begin(1) /\ calls' = MaxCalls /\ UNCHANGED <<hook, valid, gone, reg, cleanup, broken>>
  BY DEF Trigger
<1> QED BY <1>1, <1>2, <1>3, FlowKeeps DEF IInv

LEMMA NextTypeStep == ASSUME IInv, flow # Nil, NextType PROVE IInv'
<1>1. flow \in Flow /\ calls \in 0 .. MaxCalls /\ 0 \in 0 .. MaxCalls
  BY Constants DEF IInv, FlowOK
<1>2. flow.type # 4 => flow.type + 1 \in Types
  BY <1>1 DEF Flow, Types
<1>3. flow.type # 4 => FlowOK(Begin(flow.type + 1), valid)
  BY <1>2, BeginOK
<1>4. /\ IF flow.type = 4 THEN flow' = Nil /\ calls' = 0
                          ELSE flow' = Begin(flow.type + 1) /\ UNCHANGED calls
      /\ UNCHANGED <<hook, valid, gone, reg, cleanup, broken>>
  BY DEF NextType
<1> QED BY <1>1, <1>3, <1>4, FlowKeeps DEF IInv

LEMMA ZeroStep == ASSUME IInv, Zero PROVE IInv'
<1>1. 0 \in 0 .. MaxCalls
  BY Constants
<1> QED BY <1>1, FlowKeeps DEF Zero, IInv

LEMMA SkipStep == ASSUME IInv, flow # Nil, flow.running = Nil, Skip PROVE IInv'
<1>1. /\ FlowOK(flow, valid) /\ flow \in Flow /\ flow.i \in Nat /\ 1 <= flow.i
      /\ flow.arr \in Seq(Entry \cup {Nil})
  BY DEF IInv, FlowOK, Flow
<1>2. /\ flow.i <= Len(flow.arr) /\ flow.arr[flow.i] \notin valid \cup {Nil}
      /\ flow' = [flow EXCEPT !.i = @ + 1] /\ cleanup' = TRUE
      /\ UNCHANGED <<hook, valid, gone, reg, calls, broken>>
  BY DEF Skip
<1>3. /\ flow' \in Flow /\ flow'.arr = flow.arr /\ flow'.i = flow.i + 1
      /\ flow'.running = Nil /\ flow'.called = flow.called
  BY <1>1, <1>2 DEF Flow
<1>4. Done(flow') = flow.i /\ Done(flow) = flow.i - 1
  BY <1>1, <1>3 DEF Done
<1>5. DOMAIN flow.arr = 1 .. Len(flow.arr) /\ Len(flow.arr) \in Nat
  BY <1>1, LenProperties
<1>6. FlowOK(flow', valid)
  BY <1>1, <1>2, <1>3, <1>4, <1>5 DEF FlowOK
<1> QED BY <1>2, <1>6, FlowKeeps DEF IInv

\* Nobody behind was called, so the one whose turn it is is called for the first time.
LEMMA CallConsumerStep == ASSUME IInv, flow # Nil, flow.running = Nil, CallConsumer PROVE IInv'
<1> DEFINE x == flow.arr[flow.i]
           new == Append(flow.called, x.c)
<1>1. /\ FlowOK(flow, valid) /\ flow \in Flow /\ flow.i \in Nat /\ 1 <= flow.i
      /\ flow.arr \in Seq(Entry \cup {Nil}) /\ flow.called \in Seq(Consumers)
  BY DEF IInv, FlowOK, Flow
<1>2. /\ flow.i <= Len(flow.arr) /\ x \in valid
      /\ flow' = [flow EXCEPT !.running = x, !.called = new]
      /\ UNCHANGED <<hook, valid, gone, reg, cleanup, calls, broken>>
  BY DEF CallConsumer
<1>3. DOMAIN flow.arr = 1 .. Len(flow.arr) /\ Len(flow.arr) \in Nat /\ flow.i \in DOMAIN flow.arr
  BY <1>1, <1>2, LenProperties
<1>4. x \in Entry /\ x # Nil /\ x.c \in Consumers
  BY <1>2, Constants DEF IInv
<1>5. Done(flow) = flow.i - 1
  BY DEF Done
<1>6. x.c \notin ToSet(flow.called)
  BY <1>1, <1>3, <1>4, <1>5 DEF FlowOK
<1>7. /\ new \in Seq(Consumers) /\ ToSet(new) = ToSet(flow.called) \cup {x.c} /\ IsInjective(new)
  <2>1. IsInjective(flow.called)
    BY <1>1 DEF FlowOK
  <2>2. new \in Seq(Consumers)
    BY <1>1, <1>4, AppendProperties
  <2> QED BY <1>1, <1>4, <1>6, <2>1, <2>2, AppendHas, AppendOnce
<1> HIDE DEF x, new
<1>8. /\ flow' \in Flow /\ flow'.arr = flow.arr /\ flow'.i = flow.i
      /\ flow'.running = x /\ flow'.called = new
  BY <1>1, <1>2, <1>4, <1>7 DEF Flow
<1>9. Done(flow') = flow.i
  BY <1>4, <1>8 DEF Done
<1>10. ASSUME NEW k \in DOMAIN flow.arr
       PROVE  /\ k <= flow.i /\ flow.arr[k] \in valid => flow.arr[k].c \in ToSet(new)
              /\ k > flow.i /\ flow.arr[k] # Nil => flow.arr[k].c \notin ToSet(new)
  <2>1. CASE k <= flow.i - 1
    BY <1>1, <1>3, <1>5, <1>7, <2>1 DEF FlowOK
  <2>2. CASE k = flow.i
    BY <1>1, <1>7, <2>2 DEF x
  <2>3. CASE k > flow.i
    <3>1. k > Done(flow) /\ k # flow.i
      BY <1>1, <1>3, <1>5, <2>3
    <3>2. flow.arr[k] # Nil => flow.arr[k].c \notin ToSet(flow.called)
      BY <1>1, <3>1 DEF FlowOK
    <3>3. flow.arr[k] # Nil => flow.arr[k].c # x.c
      BY <1>1, <1>3, <1>4, <3>1 DEF FlowOK, Once, x
    <3> QED BY <1>7, <2>3, <3>2, <3>3, <1>3, <1>1
  <2> QED BY <1>1, <1>3, <2>1, <2>2, <2>3
<1>11. FlowOK(flow', valid)
  BY <1>1, <1>2, <1>3, <1>7, <1>8, <1>9, <1>10 DEF FlowOK
<1> QED BY <1>2, <1>11, FlowKeeps DEF IInv

LEMMA ReturnStep == ASSUME IInv, Return PROVE IInv'
<1>1. /\ FlowOK(flow, valid) /\ flow \in Flow /\ flow.i \in Nat /\ flow.running # Nil
      /\ flow.arr \in Seq(Entry \cup {Nil})
  BY DEF IInv, FlowOK, Flow, Return
<1>2. UNCHANGED <<hook, valid, gone, reg, cleanup, broken>>
  BY DEF Return
<1>3. CASE flow' = [flow EXCEPT !.running = Nil, !.i = @ + 1] /\ UNCHANGED calls
  <2> DEFINE next == flow.i + 1
  <2>1. flow' = [flow EXCEPT !.running = Nil, !.i = next] /\ next \in Nat
    BY <1>1, <1>3
  <2>2. next >= 1 /\ next - 1 = flow.i
    BY <1>1
  <2> HIDE DEF next
  <2>3. /\ flow' \in Flow /\ flow'.arr = flow.arr /\ flow'.i = next
        /\ flow'.running = Nil /\ flow'.called = flow.called
    BY <1>1, <2>1 DEF Flow
  <2>4. Done(flow') = Done(flow)
    BY <1>1, <2>2, <2>3 DEF Done
  <2>5. FlowOK(flow', valid)
    BY <1>1, <2>2, <2>3, <2>4 DEF FlowOK
  <2> QED BY <1>2, <1>3, <2>5, FlowKeeps DEF IInv
<1>4. CASE flow' = Nil /\ calls' = 0
  <2>1. 0 \in 0 .. MaxCalls
    BY Constants
  <2> QED BY <1>2, <1>4, <2>1, FlowKeeps DEF IInv
<1> QED BY <1>3, <1>4 DEF Return

LEMMA CleanCalloutStep == ASSUME IInv, CleanCallout PROVE IInv'
<1>1. /\ CleanHook \in [Types -> Seq(Entry)]
      /\ \A t \in Types : ArrayOK(CleanHook[t], t) /\ (Ordered(hook[t]) => Ordered(CleanHook[t]))
  BY CleanHookOK
<1>2. /\ flow' = Nil /\ reg = Nil /\ cleanup' = FALSE /\ hook' = CleanHook
      /\ UNCHANGED <<valid, gone, reg, calls, broken>>
  BY DEF CleanCallout, Idle
<1> QED BY <1>1, <1>2 DEF IInv

LEMMA IInvNext == IInv /\ [Next]_vars => IInv'
<1> SUFFICES ASSUME IInv, [Next]_vars PROVE IInv'
  OBVIOUS
<1>1. ASSUME NEW c \in Consumers, Register(c) \/ Unregister(c) \/ Destruct(c) PROVE IInv'
  BY <1>1, RegisterStep, UnregisterStep, DestructStep
<1>2. CASE RegisterEnd \/ Expire \/ Trigger \/ Return \/ CleanCallout
  BY <1>2, RegisterEndStep, ExpireStep, TriggerStep, ReturnStep, CleanCalloutStep
<1>3. CASE FlowStep
  BY <1>3, NextTypeStep, ZeroStep, SkipStep, CallConsumerStep DEF FlowStep
<1>4. CASE UNCHANGED vars
  BY <1>4 DEF vars, IInv
<1> QED BY <1>1, <1>2, <1>3, <1>4 DEF Next

LEMMA IInvAlways == Spec => []IInv
<1>1. Init => IInv
  BY IInvInit
<1>2. IInv /\ [Next]_vars => IInv'
  BY IInvNext
<1> QED BY <1>1, <1>2, PTL DEF Spec

\* The arrays of a hook stay within their limits, in the order of the priorities
\* and without a consumer twice, whatever consumers do while they are called and
\* while a superseded one is told (std/hook_provider.c).
THEOREM HookConsumersOK == Spec => []ConsumersOK
<1>1. IInv => ConsumersOK
  BY IInvImplies
<1> QED BY <1>1, IInvAlways, PTL

-----------------------------------------------------------------------------
(* The turn of a type, and who is superseded.                              *)

LEMMA CalledSoFar ==
  ASSUME IInv, flow # Nil, flow.running = Nil, flow.i > Len(flow.arr)
  PROVE  /\ \A e \in ToSet(flow.arr) \cap valid : Contains(flow.called, e.c)
         /\ IsInjective(flow.called)
<1>1. FlowOK(flow, valid) /\ flow.i \in Nat /\ flow.arr \in Seq(Entry \cup {Nil})
  BY DEF IInv, FlowOK, Flow
<1>2. DOMAIN flow.arr = 1 .. Len(flow.arr) /\ Len(flow.arr) \in Nat
  BY <1>1, LenProperties
<1>3. Done(flow) = flow.i - 1 /\ \A k \in DOMAIN flow.arr : k <= Done(flow)
  BY <1>1, <1>2 DEF Done
<1>4. ASSUME NEW e \in ToSet(flow.arr) \cap valid PROVE e.c \in ToSet(flow.called)
  <2>1. PICK k \in DOMAIN flow.arr : flow.arr[k] = e
    BY DEF ToSet
  <2> QED BY <1>1, <1>3, <2>1 DEF FlowOK
<1>5. \A x \in ToSet(flow.called) : Contains(flow.called, x)
  <2>1. flow.called \in Seq(Consumers)
    BY <1>1 DEF FlowOK, Flow
  <2> QED BY <2>1, LenProperties DEF ToSet, Contains
<1> QED BY <1>1, <1>4, <1>5 DEF FlowOK

\* Whatever consumers register, unregister and destruct in their callbacks, at the
\* end of a type's turn each that was in the array when HookFlow() read it and is
\* still valid has been called, and nobody twice.
THEOREM HookEachCalledOnce == Spec => EachCalledOnce
<1> DEFINE Over == flow # Nil /\ flow.running = Nil /\ flow.i > Len(flow.arr) /\ reg = Nil
                     /\ (flow' = Nil \/ flow'.type # flow.type)
           Called == /\ \A e \in ToSet(flow.arr) \cap valid : Contains(flow.called, e.c)
                     /\ IsInjective(flow.called)
<1>1. IInv /\ [Next]_vars => [Over => Called]_vars
  BY CalledSoFar
<1>2. Spec => [][Over => Called]_vars
  BY <1>1, IInvAlways, PTL DEF Spec
<1> QED BY <1>2 DEF EachCalledOnce

\* What a step that finds no registration waiting does with those it takes out.
Superseded ==
  reg = Nil /\ ~broken =>
    \A t \in Types : \A e \in (ToSet(hook[t]) \cap valid) \ ToSet(hook'[t]) :
       /\ \A f \in ToSet(hook[t]) \cap valid : Prio[f.c] <= Prio[e.c]
       /\ \E f \in ToSet(hook'[t]) : Prio[f.c] < Prio[e.c]

LEMMA LastIsLowest ==
  ASSUME NEW a \in Seq(Entry), Ordered(a), NEW x \in ToSet(a)
  PROVE  Prio[x.c] <= Prio[Last(a).c]
<1>1. Len(a) \in Nat /\ DOMAIN a = 1 .. Len(a) /\ \A i \in DOMAIN a : a[i] \in Entry
  BY LenProperties
<1>2. PICK i \in DOMAIN a : a[i] = x
  BY DEF ToSet
<1>3. Last(a) = a[Len(a)] /\ Len(a) \in DOMAIN a /\ (i = Len(a) \/ i < Len(a))
  BY <1>1, <1>2 DEF Last
<1>4. Prio[x.c] \in Nat
  BY <1>1, <1>2, Constants
<1>5. CASE i < Len(a)
  BY <1>2, <1>3, <1>5 DEF Ordered
<1>6. CASE i = Len(a)
  BY <1>2, <1>3, <1>4, <1>6
<1> QED BY <1>3, <1>5, <1>6

LEMMA RegisterSupersedes ==
  ASSUME IInv, NEW c \in Consumers, Register(c)
  PROVE  Superseded
<1> DEFINE h == CleanHook
           t == Type[c]
           n == NewEntry(c, h)
           a == h[t]
           r == ReplaceAt(a, Len(a), n)
<1> SUFFICES ASSUME reg = Nil, ~broken, NEW u \in Types,
                    NEW e \in (ToSet(hook[u]) \cap valid) \ ToSet(hook'[u])
             PROVE  /\ \A f \in ToSet(hook[u]) \cap valid : Prio[f.c] <= Prio[e.c]
                    /\ \E f \in ToSet(hook'[u]) : Prio[f.c] < Prio[e.c]
  BY DEF Superseded
<1>1. /\ h \in [Types -> Seq(Entry)] /\ ToSet(h[u]) = ToSet(hook[u]) \cap valid
      /\ Ordered(h[u])
  BY CleanHookOK DEF IInv
<1>2. ~(hook' = h)
  BY <1>1
<1>3. ASSUME ~IsConsumer(c, h), RegisterFree(c, h, n) PROVE FALSE
  <2>1. /\ t \in Types
        /\ Len(a) < MAX_HOOK_COUNTS[t] =>
             \A s \in Sorted(Append(a, n)) : ToSet(s) = ToSet(a) \cup {n}
    BY <1>3, RegisteredIs
  <2>2. PICK s \in Sorted(Append(a, n)) : hook' = [h EXCEPT ![t] = s]
    BY <1>3 DEF RegisterFree
  <2>3. ToSet(s) = ToSet(a) \cup {n}
    BY <1>3, <2>1 DEF RegisterFree
  <2> HIDE DEF h, n, t
  <2>4. CASE u = t
    BY <1>1, <2>2, <2>3, <2>4
  <2>5. CASE u # t
    BY <1>1, <2>2, <2>5
  <2> QED BY <2>4, <2>5
<1>4. ~IsConsumer(c, h) /\ RegisterSuperseding(c, h, n)
  BY <1>2, <1>3 DEF Register
<1>5. /\ Len(a) = MAX_HOOK_COUNTS[t] /\ Prio[Last(a).c] > Prio[c] /\ hook' = [h EXCEPT ![t] = r]
  BY <1>4 DEF RegisterSuperseding
<1>6. /\ n \in Entry /\ n.c = c /\ t \in Types /\ n \in ToSet(r)
      /\ \A x \in ToSet(a) : x = Last(a) \/ x \in ToSet(r)
  BY <1>4, <1>5, RegisteredIs
<1>7. /\ Prio[c] \in Nat /\ e \in Entry /\ Prio[e.c] \in Nat
  BY <1>6, Constants DEF IInv
<1> HIDE DEF h, n, t, r
<1>8. u = t
  BY <1>1, <1>5
<1>9. e = Last(a) /\ hook'[u] = r
  BY <1>1, <1>5, <1>6, <1>8
<1>10. a \in Seq(Entry) /\ Ordered(a) /\ ToSet(a) = ToSet(hook[u]) \cap valid
  BY <1>1, <1>6, <1>8
<1>11. \A f \in ToSet(hook[u]) \cap valid : Prio[f.c] <= Prio[e.c]
  <2> HIDE DEF a
  <2> QED BY <1>9, <1>10, LastIsLowest
<1>12. Prio[n.c] < Prio[e.c]
  BY <1>5, <1>6, <1>7, <1>9
<1> QED BY <1>6, <1>9, <1>11, <1>12

LEMMA StepSupersedes == IInv /\ [Next]_vars => [Superseded]_vars
<1> SUFFICES ASSUME IInv, [Next]_vars PROVE Superseded \/ UNCHANGED vars
  OBVIOUS
<1>1. CASE \E c \in Consumers : Register(c)
  BY <1>1, RegisterSupersedes
<1>2. CASE RegisterEnd
  BY <1>2 DEF RegisterEnd, Superseded
<1>3. CASE CleanCallout
  <2>1. \A t \in Types : ToSet(hook'[t]) = ToSet(hook[t]) \cap valid
    BY <1>3, CleanHookOK DEF CleanCallout
  <2> QED BY <2>1 DEF Superseded
<1>4. CASE hook' = hook
  BY <1>4 DEF Superseded
<1>5. (\E c \in Consumers : Unregister(c) \/ Destruct(c)) => hook' = hook
  BY DEF Unregister, Destruct
<1>6. Expire \/ Trigger \/ Return => hook' = hook
  BY DEF Expire, Trigger, Return
<1>7. FlowStep => hook' = hook
  BY DEF FlowStep, NextType, Zero, Skip, CallConsumer
<1> QED BY <1>1, <1>2, <1>3, <1>4, <1>5, <1>6, <1>7 DEF Next

\* Who loses his place in a hook while he is valid had the lowest priority of all
\* and gave way to a higher one (HRegisterToHook()).
THEOREM HookLowestGoes == Spec => LowestGoes
<1>1. Spec => [][Superseded]_vars
  BY StepSupersedes, IInvAlways, PTL DEF Spec
<1> QED BY <1>1 DEF LowestGoes, Superseded
=============================================================================
